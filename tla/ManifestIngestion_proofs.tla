----------------------- MODULE ManifestIngestion_proofs -----------------------
(***************************************************************************)
(* Proofs about ManifestIngestion, for every number of manifests, pages,   *)
(* items, workers, sweeps and receives.                                    *)
(***************************************************************************)
EXTENDS ManifestIngestion, FiniteSetTheorems, SequenceTheorems, TLAPS

-----------------------------------------------------------------------------
(* The queue.                                                              *)

(* A message that is sent goes to the end of the queue.                    *)
LEMMA SentLast ==
  ASSUME NEW S, NEW q \in Seq(S), NEW m \in S
  PROVE  /\ Append(q, m) \in Seq(S)
         /\ Len(Append(q, m)) = Len(q) + 1
         /\ \A n \in 1..Len(q) : Append(q, m)[n] = q[n]
         /\ Append(q, m)[Len(q) + 1] = m
  OBVIOUS

(* A queue of members of a set stays one when a member of it is sent.      *)
LEMMA SentFrom ==
  ASSUME NEW S, NEW P, NEW q \in Seq(S), NEW m \in S, m \in P,
         \A n \in 1..Len(q) : q[n] \in P
  PROVE  \A n \in 1..Len(Append(q, m)) : Append(q, m)[n] \in P
  <1>1. ASSUME NEW n \in 1..Len(Append(q, m))
        PROVE  n \in 1..Len(q) \/ n = Len(q) + 1
    BY SentLast
  <1>. QED
    BY <1>1, SentLast

(* Sending to a queue that is not empty leaves its head in place. *)
LEMMA FirstStays ==
  ASSUME NEW S, NEW q \in Seq(S), NEW m \in S, q # <<>>
  PROVE  Append(q, m) # <<>> /\ Append(q, m)[1] = q[1]
  OBVIOUS

(* Removing a message keeps the others and their order.                    *)
LEMMA WithoutFacts ==
  ASSUME queue \in Seq(Ids), NEW m, \E n \in 1..Len(queue) : queue[n] = m
  PROVE  /\ Without(m) \in Seq(Ids)
         /\ \E n \in 1..Len(queue) :
              /\ queue[n] = m
              /\ Len(Without(m)) = Len(queue) - 1
              /\ \A k \in 1..(Len(queue) - 1) :
                   Without(m)[k] = queue[IF k < n THEN k ELSE k + 1]
  <1>. DEFINE n == CHOOSE n \in 1..Len(queue) : queue[n] = m
              front == SubSeq(queue, 1, n - 1)
              back  == SubSeq(queue, n + 1, Len(queue))
  <1>1. n \in 1..Len(queue) /\ queue[n] = m
    OBVIOUS
  <1>. HIDE DEF n
  <1>2. /\ front \in Seq(Ids) /\ Len(front) = n - 1
        /\ \A k \in 1..(n - 1) : front[k] = queue[k]
    BY <1>1, SubSeqProperties
  <1>3. /\ back \in Seq(Ids) /\ Len(back) = Len(queue) - n
        /\ \A k \in 1..(Len(queue) - n) : back[k] = queue[n + k]
    BY <1>1, SubSeqProperties
  <1>4. Without(m) = front \o back
    BY DEF Without, n
  <1>5. /\ front \o back \in Seq(Ids)
        /\ Len(front \o back) = Len(front) + Len(back)
        /\ \A k \in 1..(Len(front) + Len(back)) : (front \o back)[k] =
             IF k <= Len(front) THEN front[k] ELSE back[k - Len(front)]
    BY <1>2, <1>3, ConcatProperties
  <1>. HIDE DEF front, back
  <1>6. Len(front) + Len(back) = Len(queue) - 1
    BY <1>1, <1>2, <1>3
  <1>7. ASSUME NEW k \in 1..(Len(queue) - 1)
        PROVE  (front \o back)[k] = queue[IF k < n THEN k ELSE k + 1]
    <2>1. CASE k < n
      BY <1>1, <1>2, <1>5, <1>6, <2>1
    <2>2. CASE ~(k < n)
      <3>1. k - (n - 1) \in 1..(Len(queue) - n) /\ n + (k - (n - 1)) = k + 1
        BY <1>1, <2>2
      <3>2. (front \o back)[k] = back[k - (n - 1)]
        BY <1>1, <1>2, <1>5, <1>6, <2>2
      <3>. QED
        BY <1>3, <2>2, <3>1, <3>2
    <2>. QED
      BY <2>1, <2>2
  <1>. QED
    BY <1>1, <1>4, <1>5, <1>6, <1>7

(* What holds of every message on the queue holds of those that remain. *)
LEMMA WithoutPublished ==
  ASSUME queue \in Seq(Ids), NEW m, \E n \in 1..Len(queue) : queue[n] = m,
         NEW S, \A n \in 1..Len(queue) : queue[n] \in S
  PROVE  /\ Without(m) \in Seq(Ids)
         /\ \A n \in 1..Len(Without(m)) : Without(m)[n] \in S
  <1>1. PICK n \in 1..Len(queue) :
          /\ queue[n] = m /\ Len(Without(m)) = Len(queue) - 1
          /\ \A k \in 1..(Len(queue) - 1) :
               Without(m)[k] = queue[IF k < n THEN k ELSE k + 1]
    BY WithoutFacts
  <1>2. Without(m) \in Seq(Ids) /\ Len(queue) \in Nat
    BY WithoutFacts
  <1>. QED
    BY <1>1, <1>2

-----------------------------------------------------------------------------
(* Types.                                                                  *)

(* Manifests are numbered in the order of their publication.               *)
Filled == \E n \in 0..MaxManifests : Published = 1..n

(* A sweep's count of consecutive sweeps is bounded by its place among the *)
(* completed ones, and no sweep completes twice.                           *)
Complete == {s \in Sweeps : sweep[s].state = "complete"}

Sweeping ==
  /\ Len(completed) = Cardinality(Complete)
  /\ \A n \in 1..Len(completed) :
       completed[n] \in Complete /\ sweep[completed[n]].consecutive <= n

(* What a worker has in hand was published, and is first in the queue as   *)
(* long as the worker holds it.                                            *)
HandsFull ==
  \A w \in Workers : worker[w].at # "idle" =>
    /\ worker[w].has \in Published
    /\ holder = w => queue # <<>> /\ queue[1] = worker[w].has

(* Nothing but published manifests is under way.                           *)
OnlyPublished ==
  /\ dead \subseteq Published
  /\ \A n \in 1..Len(queue) : queue[n] \in Published

WellFormed == TypeOK /\ Filled /\ Sweeping /\ HandsFull /\ OnlyPublished

(* The initial states are well formed. *)
LEMMA WellFormedInitially == Init => WellFormed
  <1>. SUFFICES ASSUME Init PROVE WellFormed
    OBVIOUS
  <1>. USE PagesAssumption, QueueAssumption, BoundsAssumption DEF Init
  <1>1. TypeOK
    <2>1. AnyPage \in Pages /\ (CHOOSE v \in Versions : TRUE) \in Versions
      BY DEF AnyPage
    <2>. QED
      BY <2>1 DEF TypeOK, IngestionRecord, ItemRecord, SweepRecord, WorkerRecord
  <1>2. Filled
    <2>1. Published = 1..0
      BY DEF Published
    <2>2. 0 \in 0..MaxManifests
      OBVIOUS
    <2>. QED
      BY <2>1, <2>2, Zenon DEF Filled
  <1>3. Sweeping
    <2>1. Complete = {}
      BY DEF Complete
    <2>. QED
      BY <2>1, FS_EmptySet DEF Sweeping
  <1>4. HandsFull /\ OnlyPublished
    BY DEF HandsFull, OnlyPublished
  <1>. QED
    BY <1>1, <1>2, <1>3, <1>4 DEF WellFormed

(* The manifest that is published next is the first number not in use.     *)
LEMMA PublishFacts ==
  ASSUME WellFormed, Publish
  PROVE  \E m \in Ids, s \in Sweeps, p \in Pages :
           /\ Published = 1..(m - 1) /\ Published' = 1..m
           /\ manifest' = [manifest EXCEPT ![m] = [sweep |-> s, page |-> p]]
           /\ queue' = Append(queue, m)
  <1>. DEFINE m == Cardinality(Published) + 1
  <1>1. PICK n \in 0..MaxManifests : Published = 1..n
    BY DEF WellFormed, Filled
  <1>2. m = n + 1
    <2>1. n \in Int /\ n >= 0
      BY BoundsAssumption
    <2>2. Cardinality(1..n) = n
      BY <2>1, FS_Interval
    <2>. QED
      BY <1>1, <2>2
  <1>3. m \in Ids /\ queue' = Append(queue, m)
    BY DEF Publish
  <1>4. PICK s \in Sweeps, p \in Pages :
          manifest' = [manifest EXCEPT ![m] = [sweep |-> s, page |-> p]]
    BY DEF Publish
  <1>. HIDE DEF m
  <1>5. Published' = 1..m
    <2>1. \A k \in Ids : manifest'[k].sweep # 0 <=> k = m \/ k \in Published
      BY <1>3, <1>4, BoundsAssumption DEF WellFormed, TypeOK, Published, Sweeps
    <2>. QED
      BY <1>1, <1>2, <1>3, <2>1, BoundsAssumption DEF Published, Ids
  <1>6. Published = 1..(m - 1)
    BY <1>1, <1>2, BoundsAssumption
  <1>. QED
    BY <1>3, <1>4, <1>5, <1>6, Zenon

(* A worker that takes, keeps or drops a message still holds published ones
   only, and the receiver whose turn it is holds the head of the queue. *)
LEMMA HoldType ==
  ASSUME WellFormed, NEW w \in Workers,
         NEW at \in {"idle", "working", "replied"}, NEW m \in 0..MaxManifests,
         Hold(w, at, m), UNCHANGED <<manifest, queue, holder>>,
         at # "idle" => m \in Published /\ (holder = w => queue # <<>> /\ queue[1] = m)
  PROVE  worker' \in [Workers -> WorkerRecord] /\ HandsFull'
  BY DEF WellFormed, TypeOK, WorkerRecord, Hold, HandsFull, Published

(* Receiving, ingesting and deleting leave published manifests and sweeps  *)
(* as they are.                                                            *)
LEMMA QueueStepType ==
  ASSUME WellFormed, UNCHANGED <<manifest, sweeps>>, TypeOK', HandsFull', OnlyPublished'
  PROVE  WellFormed'
  BY DEF WellFormed, sweeps, Filled, Published, Sweeping, Complete

(* Ingesting a page keeps the state well formed. *)
LEMMA IngestType ==
  ASSUME WellFormed, NEW w \in Workers, Ingest(w)
  PROVE  WellFormed'
  <1>. DEFINE m == worker[w].has
  <1>. USE DEF WellFormed, TypeOK
  <1>1. m \in Published /\ m \in Ids
    BY DEF Ingest, HandsFull, Published
  <1>2. worker' \in [Workers -> WorkerRecord] /\ HandsFull'
    <2>1. worker' = worker \/ Hold(w, "replied", m) \/ Hold(w, "idle", 0)
      BY Zenon DEF Ingest
    <2>2. CASE worker' = worker
      BY <2>2 DEF Ingest, HandsFull, Published, messages
    <2>3. CASE Hold(w, "replied", m)
      <3>1. m \in 0..MaxManifests /\ (holder = w => queue # <<>> /\ queue[1] = m)
        BY <1>1 DEF Ids, Ingest, HandsFull
      <3>. QED
        BY <1>1, <2>3, <3>1, HoldType DEF Ingest, messages
    <2>4. CASE Hold(w, "idle", 0)
      BY <2>4, HoldType, BoundsAssumption DEF Ingest, messages
    <2>. QED
      BY <2>1, <2>2, <2>3, <2>4
  <1>3. ingestion' \in [Ids -> IngestionRecord] /\ item' \in [Skus -> ItemRecord]
    <2>1. CASE Settled(m)
      BY <2>1 DEF Ingest
    <2>2. ASSUME ~Settled(m), NEW outcomes \in [Listed(m) -> Outcomes],
                 ingestion' = [ingestion EXCEPT ![m] =
                   [state |-> IF RetryRequired(outcomes) THEN "failed" ELSE "complete",
                    rejected |-> Rejected(@.rejected, outcomes)]],
                 item' = [k \in Skus |->
                   IF k \in Listed(m) /\ outcomes[k] = "accepted"
                     THEN Upserted(item[k], m, k) ELSE item[k]]
          PROVE  ingestion' \in [Ids -> IngestionRecord] /\ item' \in [Skus -> ItemRecord]
      <3>1. ASSUME NEW k \in Skus
            PROVE  Upserted(item[k], m, k) \in ItemRecord
        <4>. DEFINE page == manifest[m].page
        <4>1. /\ page \in Pages /\ manifest[m].sweep \in 0..MaxSweeps
              /\ Shows[page][k] \in Contents \cup {Unlisted}
              /\ m \in 0..MaxManifests /\ item[k] \in ItemRecord
          BY <1>1, PagesAssumption DEF Ids
        <4>. HIDE DEF page
        <4>2. [item[k] EXCEPT !.from = m] \in ItemRecord
          BY <4>1 DEF ItemRecord
        <4>3. [content |-> Shows[page][k], page |-> page, sweep |-> manifest[m].sweep,
               from |-> m] \in ItemRecord
          BY <4>1 DEF ItemRecord
        <4>. QED
          BY <4>2, <4>3 DEF Upserted, page
      <3>2. \A old : Rejected(old, outcomes) \in SUBSET Skus
        BY DEF Rejected
      <3>. QED
        BY <2>2, <3>1, <3>2 DEF IngestionRecord
    <2>. QED
      BY <2>1, <2>2, Zenon DEF Ingest
  <1>. QED
    BY <1>2, <1>3, QueueStepType DEF Ingest, messages, sweeps, OnlyPublished, Published

(* Completing a sweep keeps the state well formed. *)
LEMMA CompleteSweepType ==
  ASSUME WellFormed, NEW s \in Sweeps, CompleteSweep(s)
  PROVE  WellFormed'
  <1>. USE BoundsAssumption DEF WellFormed, TypeOK
  <1>1. s \notin Complete /\ Complete' = Complete \cup {s}
    BY DEF CompleteSweep, Complete, SweepRecord
  <1>2. /\ IsFiniteSet(Complete)
        /\ Cardinality(Complete') = Cardinality(Complete) + 1
        /\ Cardinality(Complete') <= MaxSweeps
    <2>1. IsFiniteSet(Sweeps) /\ Cardinality(Sweeps) = MaxSweeps
      BY FS_Interval DEF Sweeps
    <2>2. Complete \in SUBSET Sweeps /\ Complete' \in SUBSET Sweeps
      BY <1>1 DEF Complete
    <2>3. IsFiniteSet(Complete) /\ Cardinality(Complete') <= Cardinality(Sweeps)
      BY <2>1, <2>2, FS_Subset
    <2>4. Cardinality(Complete \cup {s}) = Cardinality(Complete) + 1
      BY <1>1, <2>3, FS_AddElement
    <2>. QED
      BY <1>1, <2>1, <2>3, <2>4
  <1>3. Consecutive(s) \in 1..(Len(completed) + 1) /\ Len(completed) + 1 <= MaxSweeps
    <2>1. Len(completed) \in Nat /\ Len(completed) + 1 <= MaxSweeps
      BY <1>2 DEF Sweeping
    <2>2. CASE completed # <<>> /\ sweep[Previous].version = sweep[s].version
      <3>1. Len(completed) \in 1..Len(completed)
        BY <2>1, <2>2, EmptySeq
      <3>2. Previous \in Sweeps /\ sweep[Previous].consecutive <= Len(completed)
        BY <3>1 DEF Sweeping, Previous, Complete
      <3>. QED
        BY <2>1, <2>2, <3>2 DEF Consecutive, SweepRecord
    <2>. QED
      BY <2>1, <2>2 DEF Consecutive
  <1>4. sweep' \in [Sweeps -> SweepRecord]
    <2>. DEFINE lost == IF Consecutive(s) < 2 THEN {}
                        ELSE {k \in Skus : /\ item[k].content # Unlisted
                                           /\ item[k].sweep \notin {Previous, s}}
    <2>1. lost \in SUBSET Skus /\ Consecutive(s) \in 0..MaxSweeps
      BY <1>3
    <2>2. [sweep[s] EXCEPT !.state = "complete", !.consecutive = Consecutive(s),
                           !.absent = lost] \in SweepRecord
      BY <2>1 DEF SweepRecord
    <2>. QED
      BY <2>2, Zenon DEF CompleteSweep
  <1>5. completed' \in Seq(Sweeps) /\ Sweeping'
    <2>1. completed' = Append(completed, s)
      BY DEF CompleteSweep
    <2>2. /\ completed' \in Seq(Sweeps) /\ Len(completed') = Len(completed) + 1
          /\ \A n \in 1..Len(completed) : completed'[n] = completed[n]
          /\ completed'[Len(completed) + 1] = s
      BY <2>1, SentLast
    <2>3. /\ \A t \in Sweeps \ {s} : sweep'[t] = sweep[t]
          /\ sweep'[s].consecutive <= Len(completed) + 1
      BY <1>3 DEF CompleteSweep, SweepRecord
    <2>4. \A n \in 1..Len(completed) : completed[n] # s
      BY <1>1 DEF Sweeping
    <2>5. Len(completed') = Cardinality(Complete')
      BY <1>2, <2>2 DEF Sweeping
    <2>6. ASSUME NEW n \in 1..Len(completed')
          PROVE  completed'[n] \in Complete' /\ sweep'[completed'[n]].consecutive <= n
      <3>1. CASE n \in 1..Len(completed)
        <4>1. completed[n] \in Complete /\ completed[n] \in Sweeps \ {s}
          BY <2>4, <3>1 DEF Sweeping, Complete
        <4>. QED
          BY <1>1, <2>2, <2>3, <3>1, <4>1 DEF Sweeping
      <3>2. CASE n = Len(completed) + 1
        BY <1>1, <2>2, <2>3, <3>2
      <3>. QED
        BY <2>2, <3>1, <3>2
    <2>. QED
      BY <2>2, <2>5, <2>6 DEF Sweeping
  <1>. QED
    BY <1>4, <1>5
       DEF CompleteSweep, messages, Filled, HandsFull, OnlyPublished, Published

(* Every step keeps the state well formed: the steps of senders, workers,
   of the queue and of the sweeps in turn. *)
LEMMA WellFormedKept == WellFormed /\ [Next]_vars => WellFormed'
  <1>. SUFFICES ASSUME WellFormed, [Next]_vars PROVE WellFormed'
    OBVIOUS
  <1>. USE BoundsAssumption, QueueAssumption
  <1>1. CASE Publish
    <2>1. PICK m \in Ids, s \in Sweeps, p \in Pages :
            /\ Published = 1..(m - 1) /\ Published' = 1..m
            /\ manifest' = [manifest EXCEPT ![m] = [sweep |-> s, page |-> p]]
            /\ queue' = Append(queue, m)
      BY <1>1, PublishFacts
    <2>2. Filled'
      BY <2>1 DEF Filled, Ids
    <2>3. HandsFull' /\ OnlyPublished'
      <3>1. Published \subseteq Published' /\ m \in Published'
        BY <2>1 DEF Ids
      <3>2. queue # <<>> => queue' # <<>> /\ queue'[1] = queue[1]
        BY <2>1, FirstStays DEF WellFormed, TypeOK
      <3>3. HandsFull'
        BY <1>1, <3>1, <3>2 DEF Publish, WellFormed, HandsFull
      <3>4. OnlyPublished'
        <4>1. dead' \subseteq Published'
          BY <1>1, <3>1 DEF Publish, WellFormed, OnlyPublished
        <4>2. \A n \in 1..Len(queue') : queue'[n] \in Published'
          BY <2>1, <3>1, SentFrom DEF WellFormed, TypeOK, OnlyPublished
        <4>. QED
          BY <4>1, <4>2 DEF OnlyPublished
      <3>. QED
        BY <3>3, <3>4
    <2>4. queue' \in Seq(Ids)
      BY <2>1, SentLast DEF WellFormed, TypeOK
    <2>5. manifest' \in [Ids -> [sweep : 0..MaxSweeps, page : Pages]]
      BY <2>1 DEF WellFormed, TypeOK, Sweeps
    <2>. QED
      BY <1>1, <2>2, <2>3, <2>4, <2>5
         DEF Publish, WellFormed, TypeOK, sweeps, Sweeping, Complete
  <1>2. CASE Reappear
    BY <1>2, QueueStepType
       DEF Reappear, WellFormed, TypeOK, HandsFull, OnlyPublished, Published, sweeps
  <1>3. CASE DeadLetter
    <2>1. PICK m \in Deliverable : queue' = Without(m) /\ dead' = dead \cup {m}
                                   /\ late' = late \cup {m}
      BY <1>3 DEF DeadLetter
    <2>2. m \in Published /\ m \in Ids /\ \E n \in 1..Len(queue) : queue[n] = m
      BY <2>1 DEF WellFormed, TypeOK, Deliverable, OnlyPublished
    <2>3. /\ Without(m) \in Seq(Ids)
          /\ \A n \in 1..Len(Without(m)) : Without(m)[n] \in Published
      BY <2>2, WithoutPublished DEF WellFormed, TypeOK, OnlyPublished
    <2>4. queue' \in Seq(Ids) /\ OnlyPublished'
      BY <1>3, <2>1, <2>2, <2>3 DEF DeadLetter, WellFormed, OnlyPublished, Published
    <2>. QED
      BY <1>3, <2>1, <2>2, <2>4, QueueStepType
         DEF DeadLetter, WellFormed, TypeOK, HandsFull, Published, sweeps
  <1>4. CASE Redrive
    <2>1. PICK m \in dead : /\ dead' = dead \ {m} /\ queue' = Append(queue, m)
                            /\ received' = [received EXCEPT ![m] = 0]
      BY <1>4 DEF Redrive
    <2>2. m \in Ids /\ queue' \in Seq(Ids)
      BY <2>1, SentLast DEF WellFormed, TypeOK
    <2>3. HandsFull'
      <3>1. queue # <<>> => queue' # <<>> /\ queue'[1] = queue[1]
        BY <2>1, <2>2, FirstStays DEF WellFormed, TypeOK
      <3>. QED
        BY <1>4, <3>1 DEF Redrive, WellFormed, HandsFull, Published
    <2>4. OnlyPublished'
      <3>1. Published' = Published
        BY <1>4 DEF Redrive, Published
      <3>2. dead' \subseteq Published
        BY <2>1 DEF WellFormed, OnlyPublished
      <3>3. \A n \in 1..Len(queue') : queue'[n] \in Published
        BY <2>1, <2>2, SentFrom DEF WellFormed, TypeOK, OnlyPublished
      <3>. QED
        BY <3>1, <3>2, <3>3 DEF OnlyPublished
    <2>. QED
      BY <1>4, <2>1, <2>2, <2>3, <2>4, QueueStepType
         DEF Redrive, WellFormed, TypeOK, sweeps
  <1>5. ASSUME NEW w \in Workers, Receive(w)
        PROVE  WellFormed'
    <2>1. PICK m \in Deliverable : /\ received[m] < MaxReceives
                                   /\ received' = [received EXCEPT ![m] = @ + 1]
                                   /\ Hold(w, "working", m)
      BY <1>5 DEF Receive
    <2>2. m \in Published /\ m \in Ids /\ queue # <<>> /\ queue[1] = m
      BY <2>1, EmptySeq DEF Deliverable, WellFormed, TypeOK, OnlyPublished
    <2>3. worker' \in [Workers -> WorkerRecord]
      BY <2>1, <2>2 DEF Hold, WellFormed, TypeOK, WorkerRecord, Ids
    <2>4. HandsFull'
      BY <1>5, <2>1, <2>2
         DEF Receive, Hold, WellFormed, TypeOK, HandsFull, Published
    <2>5. received' \in [Ids -> 0..MaxReceives]
      BY <2>1, <2>2 DEF WellFormed, TypeOK
    <2>. QED
      BY <1>5, <2>3, <2>4, <2>5, QueueStepType
         DEF Receive, WellFormed, TypeOK, OnlyPublished, Published, sweeps
  <1>6. ASSUME NEW w \in Workers, Fail(w)
        PROVE  WellFormed'
    BY <1>6, HoldType, QueueStepType
       DEF Fail, WellFormed, TypeOK, messages, sweeps, OnlyPublished, Published
  <1>7. ASSUME NEW w \in Workers, Delete(w)
        PROVE  WellFormed'
    <2>. DEFINE m == worker[w].has
    <2>1. worker' \in [Workers -> WorkerRecord]
      BY <1>7 DEF Delete, Hold, WellFormed, TypeOK, WorkerRecord
    <2>2. CASE holder = w
      <3>1. queue' = Without(m) /\ holder' = Nobody
        BY <1>7, <2>2 DEF Delete
      <3>2. queue # <<>> /\ queue[1] = m
        BY <1>7, <2>2 DEF Delete, WellFormed, HandsFull
      <3>3. queue' \in Seq(Ids) /\ OnlyPublished'
        <4>1. \E n \in 1..Len(queue) : queue[n] = m
          BY <3>2, EmptySeq DEF WellFormed, TypeOK
        <4>2. /\ Without(m) \in Seq(Ids)
              /\ \A n \in 1..Len(Without(m)) : Without(m)[n] \in Published
          BY <4>1, WithoutPublished DEF WellFormed, TypeOK, OnlyPublished
        <4>. QED
          BY <1>7, <3>1, <4>2 DEF Delete, WellFormed, OnlyPublished, Published
      <3>4. HandsFull'
        BY <1>7, <3>1 DEF Delete, Hold, WellFormed, TypeOK, HandsFull, Published
      <3>. QED
        BY <1>7, <2>1, <3>1, <3>3, <3>4, QueueStepType
           DEF Delete, WellFormed, TypeOK, sweeps
    <2>3. CASE holder # w
      BY <1>7, <2>1, <2>3, QueueStepType
         DEF Delete, Hold, WellFormed, TypeOK, HandsFull, OnlyPublished, Published, sweeps
    <2>. QED
      BY <2>2, <2>3
  <1>8. CASE RecordCheckpoint
    <2>1. PICK s \in Sweeps, clean \in BOOLEAN, v \in Versions :
            /\ sweep[s].state # "complete"
            /\ sweep' = [sweep EXCEPT ![s] = [@ EXCEPT !.state = "in_progress",
                                              !.clean = clean, !.version = v]]
      BY <1>8 DEF RecordCheckpoint
    <2>2. sweep' \in [Sweeps -> SweepRecord]
      BY <2>1 DEF WellFormed, TypeOK, SweepRecord
    <2>3. /\ Complete' = Complete
          /\ \A t \in Sweeps : sweep'[t].consecutive = sweep[t].consecutive
      BY <2>1 DEF WellFormed, TypeOK, SweepRecord, Complete
    <2>4. Sweeping'
      BY <1>8, <2>3 DEF RecordCheckpoint, WellFormed, Sweeping, Complete
    <2>. QED
      BY <1>8, <2>2, <2>4
         DEF RecordCheckpoint, WellFormed, TypeOK, messages, Filled, HandsFull,
             OnlyPublished, Published
  <1>9. CASE UNCHANGED vars
    BY <1>9, QueueStepType
       DEF vars, sweeps, WellFormed, TypeOK, HandsFull, OnlyPublished, Published
  <1>. QED
    BY <1>1, <1>2, <1>3, <1>4, <1>5, <1>6, <1>7, <1>8, <1>9, IngestType,
       CompleteSweepType DEF Next

(* The queue, the ledger, the catalog and the sweeps stay well formed, a   *)
(* dead letter included, however deliveries and workers interleave.        *)
THEOREM TypeCorrect == Spec => []TypeOK
  <1>1. Spec => []WellFormed
    BY WellFormedInitially, WellFormedKept, PTL DEF Spec
  <1>2. WellFormed => TypeOK
    BY DEF WellFormed
  <1>. QED
    BY <1>1, <1>2, PTL

-----------------------------------------------------------------------------
(* First in, first out.  A manifest can only be worked on, and leave marks *)
(* in the ledger and the catalog, when all earlier ones are done with,     *)
(* though their dead letters may come back.                                *)

Done(m)   == ingestion[m].state = "complete" \/ m \in late
Before(m) == \A n \in 1..(m - 1) : Done(n)

InOrder ==
  \A i, j \in 1..Len(queue) : i < j /\ queue[j] <= queue[i] => queue[j] \in late

Accounted ==
  /\ dead \subseteq late
  /\ \A m \in Published :
       m \in dead \/ ingestion[m].state = "complete" \/ \E n \in 1..Len(queue) : queue[n] = m

Held ==
  \A w \in Workers : worker[w].at # "idle" =>
    /\ Before(worker[w].has)
    /\ worker[w].at = "replied" => ingestion[worker[w].has].state = "complete"

Behind ==
  /\ \A m \in Ids : ingestion[m].state # "absent" => m \in Published /\ Before(m)
  /\ \A k \in Skus : item[k].from # 0 => Before(item[k].from)

(* What a complete manifest leaves of its records.                         *)
Kept ==
  \A m \in Ids : ingestion[m].state = "complete" =>
    \A k \in Listed(m) :
      k \in ingestion[m].rejected \/ item[k].from >= m \/ item[k].from \in late

Orderly == WellFormed /\ InOrder /\ Accounted /\ Held /\ Behind /\ Kept

(* The initial states are orderly. *)
LEMMA OrderlyInitially == Init => Orderly
  BY WellFormedInitially
     DEF Init, Orderly, InOrder, Accounted, Held, Behind, Kept, Published

(* A call of a worker: the manifest was complete already, or its records   *)
(* are decided one by one.                                                 *)
Decided(m, outcomes) ==
  LET state == IF RetryRequired(outcomes) THEN "failed" ELSE "complete"
  IN  /\ ~Settled(m)
      /\ ingestion' = [ingestion EXCEPT ![m] =
           [state |-> state, rejected |-> Rejected(@.rejected, outcomes)]]
      /\ item' = [k \in Skus |->
           IF k \in Listed(m) /\ outcomes[k] = "accepted"
             THEN Upserted(item[k], m, k) ELSE item[k]]

(* What one call of the ingestion does: it settles the manifest or decides
   each of its items, and the worker keeps, drops or answers the message. *)
LEMMA IngestFacts ==
  ASSUME WellFormed, NEW w \in Workers, Ingest(w)
  PROVE  /\ worker[w].at = "working" /\ worker[w].has \in Ids
         /\ worker[w].has \in Published
         /\ \/ UNCHANGED <<ingestion, item>> /\ Settled(worker[w].has)
            \/ \E outcomes \in [Listed(worker[w].has) -> Outcomes] :
                 Decided(worker[w].has, outcomes)
         /\ \/ UNCHANGED worker
            \/ Hold(w, "idle", 0)
            \/ /\ Hold(w, "replied", worker[w].has)
               /\ ingestion'[worker[w].has].state = "complete"
  <1>. DEFINE m == worker[w].has
  <1>1. worker[w].at = "working" /\ m \in Ids /\ m \in Published
    BY DEF Ingest, WellFormed, HandsFull, Published
  <1>2. CASE Settled(m)
    BY <1>1, <1>2 DEF Ingest, Settled, Committed
  <1>3. CASE ~Settled(m)
    <2>1. PICK outcomes \in [Listed(m) -> Outcomes] :
            LET state == IF RetryRequired(outcomes) THEN "failed" ELSE "complete"
            IN  /\ ingestion' = [ingestion EXCEPT ![m] =
                     [state |-> state, rejected |-> Rejected(@.rejected, outcomes)]]
                /\ item' = [k \in Skus |->
                     IF k \in Listed(m) /\ outcomes[k] = "accepted"
                       THEN Upserted(item[k], m, k) ELSE item[k]]
                /\ \/ UNCHANGED worker
                   \/ IF Committed(state) THEN Hold(w, "replied", m)
                                          ELSE Hold(w, "idle", 0)
      BY <1>3, Zenon DEF Ingest
    <2>2. Decided(m, outcomes)
      BY <1>3, <2>1, Zenon DEF Decided
    <2>3. \/ UNCHANGED worker
          \/ Hold(w, "idle", 0)
          \/ Hold(w, "replied", m) /\ ingestion'[m].state = "complete"
      BY <1>1, <2>1 DEF Committed, WellFormed, TypeOK
    <2>. QED
      BY <1>1, <2>2, <2>3
  <1>. QED
    BY <1>2, <1>3

(* The item of an accepted record carries the manifest of that record.     *)
LEMMA DecidedFacts ==
  ASSUME WellFormed, NEW m \in Ids,
         NEW outcomes \in [Listed(m) -> Outcomes], Decided(m, outcomes)
  PROVE  /\ ingestion[m].state # "complete"
         /\ \A n \in Ids \ {m} : ingestion'[n] = ingestion[n]
         /\ \A k \in Skus : item'[k].from = m \/ item'[k] = item[k]
         /\ ingestion'[m].state = "complete" =>
              \A k \in Listed(m) : k \in ingestion'[m].rejected \/ item'[k].from = m
  <1>. USE DEF WellFormed, TypeOK
  <1>1. \A k \in Skus : Upserted(item[k], m, k).from = m
    BY DEF Upserted, ItemRecord
  <1>2. ASSUME ingestion'[m].state = "complete", NEW k \in Listed(m)
        PROVE  k \in ingestion'[m].rejected \/ item'[k].from = m
    <2>1. k \in Skus /\ outcomes[k] \in Outcomes /\ outcomes[k] # "transient"
      BY <1>2 DEF Decided, RetryRequired, Listed, Lists
    <2>2. CASE outcomes[k] = "accepted"
      BY <1>1, <2>1, <2>2 DEF Decided
    <2>3. CASE outcomes[k] = "permanent"
      BY <2>1, <2>3 DEF Decided, Rejected
    <2>. QED
      BY <2>1, <2>2, <2>3 DEF Outcomes
  <1>. QED
    BY <1>1, <1>2 DEF Decided, Settled

(* What is done stays done.                                                *)
LEMMA DoneStays ==
  ASSUME WellFormed, [Next]_vars
  PROVE  /\ late \subseteq late'
         /\ \A m \in Ids : ingestion[m].state = "complete" => ingestion'[m] = ingestion[m]
  <1>1. ASSUME NEW w \in Workers, Ingest(w)
        PROVE  /\ late' = late
               /\ \A m \in Ids : ingestion[m].state = "complete" => ingestion'[m] = ingestion[m]
    <2>1. late' = late
      BY <1>1 DEF Ingest
    <2>. QED
      BY <1>1, <2>1, IngestFacts, DecidedFacts
  <1>2. CASE UNCHANGED ingestion /\ late \subseteq late'
    BY <1>2
  <1>. QED
    BY <1>1, <1>2
       DEF Next, vars, Publish, Reappear, DeadLetter, Redrive, Receive, Delete, Fail,
           RecordCheckpoint, CompleteSweep

BeforeNext(m) == \A n \in 1..(m - 1) : ingestion'[n].state = "complete" \/ n \in late'

(* A manifest all of whose predecessors are done keeps that property. *)
LEMMA BeforeStays ==
  ASSUME WellFormed, [Next]_vars
  PROVE  \A m \in 0..MaxManifests : Before(m) => BeforeNext(m)
  <1>1. \A m \in 0..MaxManifests : \A n \in 1..(m - 1) : n \in Ids
    BY BoundsAssumption DEF Ids
  <1>. QED
    BY <1>1, DoneStays DEF Before, BeforeNext, Done

(* A message that leaves the queue: the rest keeps its order.              *)
LEMMA WithoutInOrder ==
  ASSUME queue \in Seq(Ids), InOrder, late \subseteq late',
         NEW m, \E n \in 1..Len(queue) : queue[n] = m, queue' = Without(m)
  PROVE  /\ InOrder'
         /\ \A n \in 1..Len(queue) :
              queue[n] = m \/ \E k \in 1..Len(queue') : queue'[k] = queue[n]
  <1>1. PICK n \in 1..Len(queue) :
          /\ queue[n] = m /\ Len(queue') = Len(queue) - 1
          /\ \A k \in 1..(Len(queue) - 1) : queue'[k] = queue[IF k < n THEN k ELSE k + 1]
    BY WithoutFacts
  <1>2. Len(queue) \in Nat
    OBVIOUS
  <1>3. ASSUME NEW i \in 1..Len(queue'), NEW j \in 1..Len(queue'), i < j,
               queue'[j] <= queue'[i]
        PROVE  queue'[j] \in late'
    <2>. DEFINE at(k) == IF k < n THEN k ELSE k + 1
    <2>1. /\ at(i) \in 1..Len(queue) /\ at(j) \in 1..Len(queue) /\ at(i) < at(j)
          /\ queue'[i] = queue[at(i)] /\ queue'[j] = queue[at(j)]
      BY <1>1, <1>2, <1>3
    <2>. QED
      BY <1>3, <2>1 DEF InOrder
  <1>4. ASSUME NEW l \in 1..Len(queue), queue[l] # m
        PROVE  \E k \in 1..Len(queue') : queue'[k] = queue[l]
    <2>. DEFINE k == IF l < n THEN l ELSE l - 1
    <2>1. k \in 1..Len(queue') /\ l = IF k < n THEN k ELSE k + 1
      BY <1>1, <1>2, <1>4
    <2>2. queue'[k] = queue[l]
      BY <1>1, <2>1
    <2>. QED
      BY <2>1, <2>2
  <1>. QED
    BY <1>3, <1>4 DEF InOrder

(* A message that is sent: the newest manifest, or one that was dead.      *)
LEMMA SentInOrder ==
  ASSUME queue \in Seq(Ids), InOrder, UNCHANGED late, NEW m \in Ids,
         queue' = Append(queue, m),
         m \in late \/ \A n \in 1..Len(queue) : queue[n] < m
  PROVE  /\ InOrder'
         /\ \A n \in 1..Len(queue) : \E k \in 1..Len(queue') : queue'[k] = queue[n]
         /\ \E k \in 1..Len(queue') : queue'[k] = m
  <1>1. /\ Len(queue') = Len(queue) + 1 /\ Len(queue) \in Nat
        /\ \A n \in 1..Len(queue) : queue'[n] = queue[n]
        /\ queue'[Len(queue) + 1] = m
    BY SentLast
  <1>2. ASSUME NEW i \in 1..Len(queue'), NEW j \in 1..Len(queue'), i < j,
               queue'[j] <= queue'[i]
        PROVE  queue'[j] \in late'
    <2>1. i \in 1..Len(queue) /\ queue'[i] = queue[i] /\ queue[i] \in Ids
      BY <1>1, <1>2
    <2>2. CASE j = Len(queue) + 1
      BY <1>1, <1>2, <2>1, <2>2 DEF Ids
    <2>3. CASE j \in 1..Len(queue)
      BY <1>1, <1>2, <2>1, <2>3 DEF InOrder
    <2>. QED
      BY <1>1, <2>2, <2>3
  <1>3. \A n \in 1..Len(queue) : n \in 1..Len(queue')
    BY <1>1
  <1>4. Len(queue) + 1 \in 1..Len(queue')
    BY <1>1
  <1>. QED
    BY <1>1, <1>2, <1>3, <1>4 DEF InOrder

(* The queue is in order, and whatever left it is accounted for.           *)
LEMMA QueueKept ==
  ASSUME Orderly, [Next]_vars
  PROVE  InOrder' /\ Accounted'
  <1>. USE DEF Orderly
  <1>0. queue \in Seq(Ids) /\ Published \subseteq Ids /\ late \subseteq late'
    BY DoneStays DEF WellFormed, TypeOK, Published
  <1>1. CASE Publish
    <2>1. PICK m \in Ids : /\ Published = 1..(m - 1) /\ Published' = 1..m
                           /\ queue' = Append(queue, m)
      BY <1>1, PublishFacts
    <2>2. \A n \in 1..Len(queue) : queue[n] < m
      BY <2>1 DEF WellFormed, OnlyPublished, Ids
    <2>3. UNCHANGED <<late, dead, ingestion>>
      BY <1>1 DEF Publish
    <2>4. /\ InOrder'
          /\ \A n \in 1..Len(queue) : \E k \in 1..Len(queue') : queue'[k] = queue[n]
          /\ \E k \in 1..Len(queue') : queue'[k] = m
      BY <1>0, <2>1, <2>2, <2>3, SentInOrder
    <2>5. Published' = Published \cup {m}
      BY <2>1 DEF Ids
    <2>. QED
      BY SMTT(30), <2>3, <2>4, <2>5 DEF Accounted
  <1>2. CASE Redrive
    <2>1. PICK m \in dead : dead' = dead \ {m} /\ queue' = Append(queue, m)
      BY <1>2 DEF Redrive
    <2>2. UNCHANGED <<late, ingestion, manifest>> /\ m \in late /\ m \in Ids
      BY <1>2, <2>1 DEF Redrive, Accounted, WellFormed, TypeOK
    <2>3. /\ InOrder'
          /\ \A n \in 1..Len(queue) : \E k \in 1..Len(queue') : queue'[k] = queue[n]
          /\ \E k \in 1..Len(queue') : queue'[k] = m
      BY <1>0, <2>1, <2>2, SentInOrder
    <2>. QED
      BY <2>1, <2>2, <2>3 DEF Accounted, Published
  <1>3. CASE DeadLetter
    <2>1. PICK m \in Deliverable : queue' = Without(m) /\ dead' = dead \cup {m}
                                   /\ late' = late \cup {m}
      BY <1>3 DEF DeadLetter
    <2>2. \E n \in 1..Len(queue) : queue[n] = m
      BY <2>1 DEF Deliverable
    <2>3. UNCHANGED <<ingestion, manifest>>
      BY <1>3 DEF DeadLetter
    <2>. QED
      BY <1>0, <2>1, <2>2, <2>3, WithoutInOrder DEF Accounted, Published
  <1>4. ASSUME NEW w \in Workers, Delete(w)
        PROVE  InOrder' /\ Accounted'
    <2>. DEFINE m == worker[w].has
    <2>1. UNCHANGED <<ingestion, manifest, dead, late>>
      BY <1>4 DEF Delete
    <2>2. CASE holder = w
      <3>1. queue # <<>> /\ queue[1] = m /\ ingestion[m].state = "complete"
        BY <1>4, <2>2 DEF Delete, WellFormed, HandsFull, Held
      <3>2. \E n \in 1..Len(queue) : queue[n] = m
        BY <1>0, <3>1, EmptySeq
      <3>3. queue' = Without(m)
        BY <1>4, <2>2 DEF Delete
      <3>. QED
        BY <1>0, <2>1, <3>1, <3>2, <3>3, WithoutInOrder DEF Accounted, Published
    <2>3. CASE holder # w
      BY <1>4, <2>1, <2>3 DEF Delete, InOrder, Accounted, Published
    <2>. QED
      BY <2>2, <2>3
  <1>5. ASSUME UNCHANGED <<queue, dead, late, manifest>>
        PROVE  InOrder' /\ Accounted'
    BY <1>5, <1>0, DoneStays DEF InOrder, Accounted, Published
  <1>. QED
    BY <1>1, <1>2, <1>3, <1>4, <1>5
       DEF Next, vars, messages, Reappear, Receive, Ingest, Fail, RecordCheckpoint,
           CompleteSweep

(* A worker receives a manifest when the earlier ones are done with, and   *)
(* takes it for ingested only when it is.                                  *)
LEMMA HeldKept ==
  ASSUME Orderly, [Next]_vars
  PROVE  Held'
  <1>. USE DEF Orderly
  <1>1. worker \in [Workers -> WorkerRecord] /\ HandsFull /\ Published \subseteq Ids
    BY DEF WellFormed, TypeOK, Published
  <1>2. ASSUME NEW v \in Workers, worker[v].at # "idle"
        PROVE  worker[v].has \in Ids /\ BeforeNext(worker[v].has)
    <2>1. worker[v].has \in Ids /\ Before(worker[v].has)
      BY <1>1, <1>2 DEF Held, HandsFull
    <2>2. worker[v].has \in 0..MaxManifests
      BY <2>1, BoundsAssumption DEF Ids
    <2>. QED
      BY <2>1, <2>2, BeforeStays
  <1>3. ASSUME NEW w \in Workers, Receive(w)
        PROVE  Held'
    <2>1. PICK m \in Deliverable : Hold(w, "working", m)
      BY <1>3 DEF Receive
    <2>2. m \in Published /\ m \in Ids /\ Len(queue) \in Nat /\ queue # <<>> /\ queue[1] = m
      BY <2>1, EmptySeq DEF Deliverable, WellFormed, TypeOK, OnlyPublished
    <2>3. ASSUME NEW n \in 1..(m - 1)
          PROVE  Done(n)
      <3>1. n \in Published
        <4>1. PICK last \in 0..MaxManifests : Published = 1..last
          BY DEF WellFormed, Filled
        <4>. QED
          BY <2>2, <4>1, BoundsAssumption
      <3>2. CASE \E i \in 1..Len(queue) : queue[i] = n
        <4>1. PICK i \in 1..Len(queue) : queue[i] = n
          BY <3>2
        <4>2. 1 < i /\ queue[i] <= queue[1] /\ 1 \in 1..Len(queue)
          BY <2>2, <4>1 DEF Ids
        <4>. QED
          BY <4>1, <4>2 DEF InOrder, Done
      <3>. QED
        BY <3>1, <3>2 DEF Accounted, Done
    <2>4. BeforeNext(m)
      BY <2>2, <2>3, BeforeStays, BoundsAssumption DEF Before, Ids
    <2>5. UNCHANGED ingestion
      BY <1>3 DEF Receive
    <2>6. ASSUME NEW v \in Workers, worker'[v].at # "idle", v # w
          PROVE  worker'[v] = worker[v] /\ BeforeNext(worker[v].has)
      BY <1>1, <1>2, <2>1, <2>6 DEF Hold
    <2>. QED
      BY <1>1, <2>1, <2>4, <2>5, <2>6 DEF Hold, Held, Before, Done, BeforeNext
  <1>4. ASSUME NEW w \in Workers,
               \/ Hold(w, "idle", 0)
               \/ /\ Hold(w, "replied", worker[w].has) /\ worker[w].at # "idle"
                  /\ ingestion'[worker[w].has].state = "complete"
        PROVE  Held'
    <2>. SUFFICES ASSUME NEW v \in Workers, worker'[v].at # "idle"
                  PROVE  /\ BeforeNext(worker'[v].has)
                         /\ worker'[v].at = "replied"
                              => ingestion'[worker'[v].has].state = "complete"
      BY DEF Held, Before, Done, BeforeNext
    <2>1. worker[v].at # "idle" /\ worker'[v].has = worker[v].has
      BY <1>1, <1>4 DEF Hold
    <2>2. BeforeNext(worker[v].has)
      BY <1>2, <2>1
    <2>3. \/ worker'[v] = worker[v]
          \/ Hold(w, "replied", worker[w].has) /\ v = w
      BY <1>1, <1>4 DEF Hold
    <2>4. worker[v].has \in Ids
      BY <1>1, <2>1 DEF HandsFull
    <2>5. CASE worker'[v] = worker[v]
      BY <2>1, <2>2, <2>4, <2>5, DoneStays DEF Held
    <2>6. CASE Hold(w, "replied", worker[w].has) /\ v = w
      <3>1. worker'[w].at = "replied"
        BY <1>1, <2>6 DEF Hold
      <3>. QED
        BY <1>4, <2>1, <2>2, <2>6, <3>1, <1>1 DEF Hold
    <2>. QED
      BY <2>3, <2>5, <2>6
  <1>5. ASSUME UNCHANGED worker
        PROVE  Held'
    <2>. SUFFICES ASSUME NEW v \in Workers, worker[v].at # "idle"
                  PROVE  /\ BeforeNext(worker[v].has)
                         /\ worker[v].at = "replied"
                              => ingestion'[worker[v].has].state = "complete"
      BY <1>5 DEF Held, Before, Done, BeforeNext
    <2>. QED
      BY <1>2, DoneStays DEF Held
  <1>6. ASSUME NEW w \in Workers, Ingest(w) \/ Delete(w) \/ Fail(w)
        PROVE  Held'
    <2>1. CASE Hold(w, "idle", 0)
      BY <1>4, <2>1
    <2>2. CASE Ingest(w)
      BY <1>4, <1>5, <2>2, IngestFacts
    <2>. QED
      BY <1>6, <2>1, <2>2 DEF Delete, Fail
  <1>. QED
    BY <1>3, <1>5, <1>6
       DEF Next, vars, Publish, Reappear, DeadLetter, Redrive, RecordCheckpoint,
           CompleteSweep

(* The ledger and the catalog bear marks of manifests only whose           *)
(* predecessors are done with.                                             *)
LEMMA BehindKept ==
  ASSUME Orderly, [Next]_vars
  PROVE  Behind'
  <1>. USE DEF Orderly
  <1>1. /\ \A m \in Ids : ingestion[m].state # "absent" => m \in Published /\ BeforeNext(m)
        /\ \A k \in Skus : item[k].from # 0 => BeforeNext(item[k].from)
    <2>1. Ids \subseteq 0..MaxManifests /\ \A k \in Skus : item[k].from \in 0..MaxManifests
      BY BoundsAssumption DEF Ids, WellFormed, TypeOK, ItemRecord
    <2>. QED
      BY <2>1, BeforeStays DEF Behind
  <1>2. ASSUME NEW w \in Workers, Ingest(w), NEW outcomes \in [Listed(worker[w].has) -> Outcomes],
               Decided(worker[w].has, outcomes)
        PROVE  Behind'
    <2>. DEFINE n == worker[w].has
    <2>1. n \in Ids /\ n \in Published /\ Before(n) /\ n \in 0..MaxManifests
      BY <1>2, IngestFacts, BoundsAssumption DEF Held, Ids
    <2>2. BeforeNext(n) /\ Published' = Published
      BY <1>2, <2>1, BeforeStays DEF Ingest, Published
    <2>3. /\ \A m \in Ids : m = n \/ ingestion'[m] = ingestion[m]
          /\ \A k \in Skus : item'[k].from = n \/ item'[k] = item[k]
      BY <1>2, <2>1, DecidedFacts
    <2>4. /\ \A m \in Ids : ingestion'[m].state # "absent" => m \in Published' /\ BeforeNext(m)
          /\ \A k \in Skus : item'[k].from # 0 => BeforeNext(item'[k].from)
      BY <1>1, <2>1, <2>2, <2>3
    <2>. QED
      BY <2>4 DEF Behind, Before, Done, BeforeNext
  <1>3. ASSUME UNCHANGED <<ingestion, item>>
        PROVE  Behind'
    <2>1. Published \subseteq Published'
      <3>1. ASSUME Publish PROVE Published \subseteq Published'
        BY <3>1, PublishFacts DEF Ids
      <3>. QED
        BY <3>1 DEF Next, vars, Published, Reappear, DeadLetter, Redrive, Receive, Ingest,
             Delete, Fail, RecordCheckpoint, CompleteSweep
    <2>2. /\ \A m \in Ids : ingestion'[m].state # "absent" => m \in Published' /\ BeforeNext(m)
          /\ \A k \in Skus : item'[k].from # 0 => BeforeNext(item'[k].from)
      BY <1>1, <1>3, <2>1
    <2>. QED
      BY <2>2 DEF Behind, Before, Done, BeforeNext
  <1>4. ASSUME NEW w \in Workers, Ingest(w)
        PROVE  Behind'
    BY <1>2, <1>3, <1>4, IngestFacts
  <1>. QED
    BY <1>3, <1>4
       DEF Next, vars, Publish, Reappear, DeadLetter, Redrive, Receive, Delete, Fail,
           RecordCheckpoint, CompleteSweep

(* What overwrites a record of a complete manifest comes later, or comes   *)
(* back from the dead letters.                                             *)
LEMMA KeptKept ==
  ASSUME Orderly, [Next]_vars
  PROVE  Kept'
  <1>. USE DEF Orderly
  <1>1. late \subseteq late' /\ \A m \in Ids : Listed(m) \subseteq Skus
    BY DoneStays DEF Listed, Lists
  <1>2. ASSUME NEW w \in Workers, Ingest(w), NEW outcomes \in [Listed(worker[w].has) -> Outcomes],
               Decided(worker[w].has, outcomes)
        PROVE  Kept'
    <2>. DEFINE n == worker[w].has
    <2>. SUFFICES ASSUME NEW m \in Ids, ingestion'[m].state = "complete", NEW k \in Listed(m)'
                  PROVE  \/ k \in ingestion'[m].rejected
                         \/ item'[k].from >= m \/ item'[k].from \in late'
      BY DEF Kept
    <2>1. n \in Ids /\ Before(n) /\ UNCHANGED <<manifest, late>>
      BY <1>2, IngestFacts DEF Held, Ingest
    <2>2. /\ ingestion[n].state # "complete"
          /\ m = n \/ ingestion'[m] = ingestion[m]
          /\ \A j \in Skus : item'[j].from = n \/ item'[j] = item[j]
          /\ ingestion'[n].state = "complete" =>
               \A j \in Listed(n) : j \in ingestion'[n].rejected \/ item'[j].from = n
      BY <1>2, <2>1, DecidedFacts
    <2>3. k \in Listed(m) /\ k \in Skus
      BY <1>1, <2>1 DEF Listed
    <2>4. CASE m = n
      BY <2>1, <2>2, <2>3, <2>4 DEF Ids
    <2>5. CASE m # n /\ item'[k] = item[k]
      BY <2>1, <2>2, <2>3, <2>5 DEF Kept
    <2>6. CASE m # n /\ item'[k].from = n
      <3>1. Before(m) /\ ingestion[m].state = "complete"
        BY <2>2, <2>6 DEF Behind
      <3>2. n >= m \/ n \in 1..(m - 1)
        BY <2>1, <2>6 DEF Ids
      <3>. QED
        BY <2>1, <2>2, <2>6, <3>1, <3>2 DEF Before, Done
    <2>. QED
      BY <2>2, <2>3, <2>4, <2>5, <2>6
  <1>3. ASSUME UNCHANGED <<ingestion, item>>
        PROVE  Kept'
    <2>. SUFFICES ASSUME NEW m \in Ids, ingestion[m].state = "complete", NEW k \in Listed(m)'
                  PROVE  \/ k \in ingestion[m].rejected
                         \/ item[k].from >= m \/ item[k].from \in late'
      BY <1>3 DEF Kept
    <2>1. manifest'[m] = manifest[m]
      <3>1. ASSUME Publish PROVE manifest'[m] = manifest[m]
        <4>1. PICK n \in Ids, s \in Sweeps, p \in Pages :
                /\ Published = 1..(n - 1)
                /\ manifest' = [manifest EXCEPT ![n] = [sweep |-> s, page |-> p]]
          BY <3>1, PublishFacts
        <4>2. m \in Published
          BY DEF Behind
        <4>3. m # n
          BY <4>1, <4>2 DEF Ids
        <4>. QED
          BY <4>1, <4>3 DEF WellFormed, TypeOK
      <3>. QED
        BY <3>1 DEF Next, vars, Reappear, DeadLetter, Redrive, Receive, Ingest,
             Delete, Fail, RecordCheckpoint, CompleteSweep
    <2>. QED
      BY <1>1, <2>1 DEF Kept, Listed
  <1>4. ASSUME NEW w \in Workers, Ingest(w)
        PROVE  Kept'
    BY <1>2, <1>3, <1>4, IngestFacts
  <1>. QED
    BY <1>3, <1>4
       DEF Next, vars, Publish, Reappear, DeadLetter, Redrive, Receive, Delete, Fail,
           RecordCheckpoint, CompleteSweep

(* The inductive invariant holds in every reachable state. *)
LEMMA OrderlyAlways == Spec => []Orderly
  <1>1. Orderly /\ [Next]_vars => Orderly'
    <2>. SUFFICES ASSUME Orderly, [Next]_vars PROVE Orderly'
      OBVIOUS
    <2>1. WellFormed'
      BY WellFormedKept DEF Orderly
    <2>. QED
      BY <2>1, QueueKept, HeldKept, BehindKept, KeptKept DEF Orderly
  <1>. QED
    BY <1>1, OrderlyInitially, PTL DEF Spec

(* No manifest leaves the queue before Odoo has ingested it, and a record  *)
(* of an ingested one is in the ledger or in the catalog, for any number   *)
(* of workers that stall, die and answer late.                             *)
THEOREM NothingLost == Spec => []NothingIsLost
  <1>1. Orderly => NothingIsLost
    <2>1. Published \subseteq Ids
      BY DEF Published
    <2>. QED
      BY <2>1 DEF Orderly, Accounted, Kept, NothingIsLost
  <1>. QED
    BY <1>1, OrderlyAlways, PTL

(* Repeated deliveries of an ingested manifest change nothing.             *)
THEOREM RepeatsHarmless == Spec => RepeatIsHarmless
  <1>. DEFINE Same == /\ \A m \in Ids : ingestion[m].state = "complete" => ingestion'[m] = ingestion[m]
                      /\ \A k \in Skus : item'[k] # item[k] =>
                           ingestion[item'[k].from].state # "complete"
  <1>1. Orderly /\ [Next]_vars => [Same]_vars
    <2>. SUFFICES ASSUME Orderly, [Next]_vars PROVE Same
      OBVIOUS
    <2>1. WellFormed
      BY DEF Orderly
    <2>2. ASSUME NEW w \in Workers, Ingest(w)
          PROVE  \A k \in Skus : item'[k] # item[k] =>
                   ingestion[item'[k].from].state # "complete"
      BY <2>1, <2>2, IngestFacts, DecidedFacts
    <2>3. CASE UNCHANGED item
      BY <2>1, <2>3, DoneStays
    <2>. QED
      BY <2>1, <2>2, <2>3, DoneStays
         DEF Next, vars, Publish, Reappear, DeadLetter, Redrive, Receive, Delete, Fail,
             RecordCheckpoint, CompleteSweep
  <1>. QED
    BY <1>1, OrderlyAlways, PTL DEF Spec, RepeatIsHarmless

(* An item of the catalog goes back to an earlier manifest only when that  *)
(* one had been a dead letter.                                             *)
THEOREM ObservedInOrder == Spec => ObservationsInOrder
  <1>. DEFINE Forward == \A k \in Skus : item'[k].from < item[k].from => item'[k].from \in late
  <1>1. Orderly /\ [Next]_vars => [Forward]_vars
    <2>. SUFFICES ASSUME Orderly, [Next]_vars, NEW k \in Skus, item'[k].from < item[k].from
                  PROVE  item'[k].from \in late
      OBVIOUS
    <2>1. WellFormed /\ item[k].from \in Nat
      BY BoundsAssumption DEF Orderly, WellFormed, TypeOK, ItemRecord
    <2>2. ASSUME NEW w \in Workers, Ingest(w)
          PROVE  item'[k].from \in late
      <3>. DEFINE n == worker[w].has
      <3>1. n \in Ids /\ ingestion[n].state # "complete"
            /\ (item'[k].from = n \/ item'[k] = item[k])
        BY <2>1, <2>2, IngestFacts, DecidedFacts
      <3>2. item'[k].from = n /\ n \in 1..(item[k].from - 1)
        BY <2>1, <3>1 DEF Ids
      <3>3. Before(item[k].from)
        BY <2>1, <3>2 DEF Orderly, Behind
      <3>. QED
        BY <3>1, <3>2, <3>3 DEF Before, Done
    <2>3. CASE UNCHANGED item
      BY <2>1, <2>3
    <2>. QED
      BY <2>2, <2>3
         DEF Next, vars, Publish, Reappear, DeadLetter, Redrive, Receive, Delete, Fail,
             RecordCheckpoint, CompleteSweep
  <1>. QED
    BY <1>1, OrderlyAlways, PTL DEF Spec, ObservationsInOrder

-----------------------------------------------------------------------------
(* The contract of the catalog.                                            *)

Follows == [Contract!Next]_(Contract!vars)

(* Steps that neither publish nor ingest are not seen by the catalog.      *)
LEMMA QuietFollows ==
  ASSUME UNCHANGED <<manifest, ingestion, item>>
  PROVE  Follows
  <1>1. UNCHANGED PageOf
    BY DEF PageOf, Published
  <1>2. UNCHANGED <<Ingested, Refused, Catalog>>
    BY DEF Ingested, Refused, Catalog
  <1>. QED
    BY <1>1, <1>2 DEF Follows, Contract!vars

(* A manifest is published on a page once.                                 *)
LEMMA PublishFollows ==
  ASSUME WellFormed, Publish
  PROVE  Follows
  <1>1. PICK m \in Ids, s \in Sweeps, p \in Pages :
          /\ Published = 1..(m - 1) /\ Published' = 1..m
          /\ manifest' = [manifest EXCEPT ![m] = [sweep |-> s, page |-> p]]
    BY PublishFacts
  <1>2. m \notin Published /\ Published' = Published \cup {m} /\ Published \subseteq Ids
    BY <1>1 DEF Ids, Published
  <1>3. /\ manifest'[m].page = p
        /\ \A n \in Published : manifest'[n].page = manifest[n].page
    BY <1>1, <1>2 DEF WellFormed, TypeOK
  <1>4. PageOf' = [n \in DOMAIN PageOf \cup {m} |-> IF n = m THEN p ELSE PageOf[n]]
    BY <1>2, <1>3 DEF PageOf
  <1>5. UNCHANGED <<Ingested, Refused, Catalog>>
    BY DEF Publish, Ingested, Refused, Catalog
  <1>6. Contract!Publish(m, p)
    BY <1>2, <1>4, <1>5 DEF PageOf, Contract!Publish
  <1>. QED
    BY <1>1, <1>6 DEF Follows, Contract!Next

(* Deciding the records of a manifest applies those that are accepted, and *)
(* settles the manifest when the ledger has the others.                    *)
LEMMA DecidedFollows ==
  ASSUME WellFormed, NEW m \in Published, UNCHANGED manifest,
         NEW outcomes \in [Listed(m) -> Outcomes], Decided(m, outcomes)
  PROVE  Follows
  <1>. DEFINE S == {k \in Listed(m) : outcomes[k] = "accepted"}
              page == manifest[m].page
              listed == {k \in Skus : Shows[PageOf[m]][k] # Unlisted}
              state == IF RetryRequired(outcomes) THEN "failed" ELSE "complete"
              R == Rejected(ingestion[m].rejected, outcomes)
  <1>1. m \in Ids /\ Published' = Published /\ UNCHANGED PageOf
    BY DEF Published, PageOf
  <1>2. PageOf[m] = page /\ DOMAIN PageOf = Published /\ listed = Listed(m)
    BY DEF PageOf, Listed, Lists
  <1>3. Listed(m) \subseteq Skus /\ S \subseteq Listed(m) /\ R \subseteq Skus
    BY DEF Listed, Lists, Rejected
  <1>4. ingestion' = [ingestion EXCEPT ![m] = [state |-> state, rejected |-> R]]
    BY Zenon DEF Decided
  <1>5. Catalog' = [k \in Skus |-> IF k \in S THEN Shows[PageOf[m]][k] ELSE Catalog[k]]
    <2>1. ASSUME NEW k \in Skus
          PROVE  item'[k].content = IF k \in S THEN Shows[page][k] ELSE item[k].content
      <3>1. CASE k \in S
        <4>1. item'[k] = Upserted(item[k], m, k)
          BY <3>1 DEF Decided
        <4>2. Upserted(item[k], m, k).content = Shows[page][k]
          BY DEF Upserted, WellFormed, TypeOK, ItemRecord
        <4>. QED
          BY <3>1, <4>1, <4>2
      <3>2. CASE k \notin S
        BY <3>2 DEF Decided
      <3>. QED
        BY <3>1, <3>2
    <2>. QED
      BY <1>2, <2>1 DEF Catalog
  <1>6. /\ Refused' \in [Ids -> SUBSET Skus]
        /\ \A n \in Ids \ {m} : Refused'[n] = Refused[n]
        /\ Refused'[m] = R
    <2>. HIDE DEF state, R
    <2>. QED
      BY <1>1, <1>3, <1>4 DEF Refused, WellFormed, TypeOK, IngestionRecord
  <1>7. state = "complete" <=> listed \subseteq S \cup R
    <2>1. ASSUME NEW k \in Listed(m)
          PROVE  k \notin S \cup R <=> outcomes[k] = "transient"
      <3>1. k \in Skus /\ k \in DOMAIN outcomes /\ outcomes[k] \in Outcomes
        BY DEF Listed, Lists
      <3>2. k \in R <=> IF outcomes[k] # "accepted" THEN outcomes[k] = "permanent"
                                                    ELSE k \in ingestion[m].rejected
        BY <3>1 DEF Rejected
      <3>. QED
        BY <3>1, <3>2 DEF Outcomes
    <2>2. RetryRequired(outcomes) <=> \E k \in Listed(m) : outcomes[k] = "transient"
      BY DEF RetryRequired
    <2>. HIDE DEF S, R
    <2>. QED
      BY <1>2, <2>1, <2>2
  <1>8. Ingested' = IF listed \subseteq S \cup R THEN Ingested \cup {m} ELSE Ingested
    <2>1. m \notin Ingested
      BY DEF Decided, Settled, Ingested
    <2>2. \A n \in Ids : ingestion'[n].state = IF n = m THEN state ELSE ingestion[n].state
      BY <1>1, <1>4 DEF WellFormed, TypeOK
    <2>. HIDE DEF state, S, R
    <2>. QED
      BY <1>1, <1>7, <2>1, <2>2 DEF Ingested
  <1>9. Contract!Apply(m, S)
    <2>1. m \in DOMAIN PageOf \ Ingested
      BY <1>2 DEF Decided, Settled, Ingested
    <2>2. S \subseteq listed
      BY <1>2, <1>3
    <2>3. Ingested' = IF listed \subseteq S \cup Refused'[m] THEN Ingested \cup {m} ELSE Ingested
      BY <1>6, <1>8
    <2>. HIDE DEF S, R, state
    <2>. QED
      BY <1>1, <1>5, <1>6, <2>1, <2>2, <2>3 DEF Contract!Apply
  <1>10. S \in SUBSET Skus
    BY <1>3
  <1>. HIDE DEF S
  <1>11. Contract!Next
    BY <1>1, <1>9, <1>10, Zenon DEF Contract!Next
  <1>. QED
    BY <1>11 DEF Follows

(* A call of a worker, repeated or not.                                    *)
LEMMA IngestFollows ==
  ASSUME WellFormed, NEW w \in Workers, Ingest(w)
  PROVE  Follows
  <1>1. UNCHANGED manifest
    BY DEF Ingest
  <1>. QED
    BY <1>1, IngestFacts, DecidedFollows, QuietFollows

(* Ingestion keeps the contract of the catalog: however often a manifest   *)
(* is delivered and its ingestion called, whatever workers die between,    *)
(* it takes effect as its page shows until it is settled, and never after. *)
THEOREM IngestionKeepsContract == Spec => KeepsContract
  <1>1. Init => Contract!Init
    <2>. SUFFICES ASSUME Init PROVE Contract!Init
      OBVIOUS
    <2>1. Published = {} /\ Ingested = {}
      BY DEF Init, Published, Ingested
    <2>2. PageOf = [m \in {} |-> m]
      BY <2>1 DEF PageOf
    <2>3. Refused = [m \in Ids |-> {}] /\ Catalog = [k \in Skus |-> Unlisted]
      BY DEF Init, Refused, Catalog
    <2>. QED
      BY <2>1, <2>2, <2>3 DEF Contract!Init
  <1>2. Orderly /\ [Next]_vars => Follows
    <2>. SUFFICES ASSUME Orderly, [Next]_vars PROVE Follows
      OBVIOUS
    <2>1. WellFormed
      BY DEF Orderly
    <2>2. CASE Publish
      BY <2>1, <2>2, PublishFollows
    <2>3. ASSUME NEW w \in Workers, Ingest(w) PROVE Follows
      BY <2>1, <2>3, IngestFollows
    <2>4. CASE UNCHANGED <<manifest, ingestion, item>>
      BY <2>4, QuietFollows
    <2>. QED
      BY <2>2, <2>3, <2>4
         DEF Next, vars, Reappear, DeadLetter, Redrive, Receive, Delete, Fail,
             RecordCheckpoint, CompleteSweep
  <1>. QED
    BY <1>1, <1>2, OrderlyAlways, PTL DEF Spec, Follows, KeepsContract, Contract!Spec
=============================================================================
