------------------------ MODULE SparexDiscovery_proofs ------------------------
(***************************************************************************)
(* Proofs about SparexDiscovery, for every portal, every number of sweeps, *)
(* scripts and items, every page limit, lease and cooldown.                *)
(***************************************************************************)
EXTENDS SparexDiscovery, FiniteSetTheorems, TLAPS

-----------------------------------------------------------------------------
(* The inductive invariant.                                                *)

(* A cursor of its kind is work to do.                                     *)
WorkAt(cursor, kind, R) ==
  IF kind = "frontier"
    THEN Rows(R, "active") = {cursor} /\ ~R[cursor].page
    ELSE Rows(R, "active") = {} /\ cursor \in Repairs(R)

(* The rows of a queue: a recorded page has been visited.                  *)
RowsOK(R) ==
  /\ R \in [Urls -> UrlRecord]
  /\ \A u \in Urls : R[u].page => R[u].state = "visited"

(* A run and its queue.  One that is not started is as it will start, one  *)
(* that is completed has no worker.                                        *)
RunOK(x, R) ==
  /\ x.state = "absent" => /\ x.cursor = Seed /\ x.kind = "frontier" /\ x.owner = NoName
                           /\ \A u \in Urls : R[u] = NoRow
  /\ x.state \notin {"absent", "completed"} => WorkAt(x.cursor, x.kind, R)
  /\ x.state = "completed" =>
       /\ x.owner = NoName /\ x.reconciliation = "completed"
       /\ Repairs(R) = {} /\ Rows(R, "active") = {}
       /\ Rows(R, "queued") = {} \/ x.pages >= MaxPages

Typed ==
  /\ run \in [Sweeps -> RunRecord]
  /\ item \in [Items -> ItemRecord]
  /\ session \in [Sessions -> SessionRecord]
  /\ witnessed \in [Sweeps -> SUBSET Items]
  /\ url \in [Sweeps -> [Urls -> UrlRecord]]

Queues == \A r \in Sweeps : RowsOK(url[r]) /\ RunOK(run[r], url[r])

(* A script at work is at work on a run that has been started.             *)
ScriptsHaveRuns ==
  \A s \in Sessions : session[s].at # "idle" => run[session[s].sweep].state # "absent"

IInv == Typed /\ Queues /\ ScriptsHaveRuns

-----------------------------------------------------------------------------
(* Counters.                                                               *)

(* Sets of listing URLs are counted by a natural number.                   *)
LEMMA UrlsCounted ==
  ASSUME NEW S \in SUBSET Urls
  PROVE  Cardinality(S) \in Nat
  BY PortalAssumption, FS_Subset, FS_CardinalityType

(* A clock that runs down stays within its range.                          *)
LEMMA ClockRunsDown ==
  ASSUME NEW m \in Nat, NEW n \in 0..m
  PROVE  Down(n) \in 0..m
  BY DEF Down

-----------------------------------------------------------------------------
(* The queue.                                                              *)

(* What _select_next_discovery_url selects: work, or nothing, and then     *)
(* nothing is left but what the page limit holds back.                     *)
LEMMA SelectionIsWork ==
  ASSUME NEW R, RowsOK(R), Rows(R, "active") = {}, NEW limit \in BOOLEAN, NEW here \in Urls,
         NEW x \in Selections(R, limit, here)
  PROVE  /\ x.cursor \in Urls /\ x.kind \in {"frontier", "repair"} /\ RowsOK(x.rows)
         /\ x.found \in BOOLEAN
         /\ x.found => WorkAt(x.cursor, x.kind, x.rows)
         /\ ~x.found => /\ Repairs(x.rows) = {} /\ Rows(x.rows, "active") = {}
                        /\ Rows(x.rows, "queued") = {} \/ limit
         /\ Repairs(R) # {} => x.found
  <1>1. CASE Repairs(R) # {}
    <2>1. PICK u \in Repairs(R) :
            x = [cursor |-> u, kind |-> "repair", rows |-> R, found |-> TRUE]
      BY <1>1 DEF Selections
    <2>2. /\ x.cursor = u /\ x.kind = "repair" /\ x.rows = R /\ x.found = TRUE
      BY <2>1
    <2>. QED
      BY <1>1, <2>2 DEF Repairs, WorkAt
  <1>2. CASE Repairs(R) = {} /\ ~limit /\ Rows(R, "queued") # {}
    <2>1. PICK u \in Rows(R, "queued") :
            x = [cursor |-> u, kind |-> "frontier", found |-> TRUE,
                 rows |-> [R EXCEPT ![u].state = "active"]]
      BY <1>2 DEF Selections
    <2>. DEFINE new == [R EXCEPT ![u].state = "active"]
    <2>2. u \in Urls /\ R[u].state = "queued" /\ ~R[u].page
      BY DEF Rows, RowsOK, UrlRecord
    <2>3. RowsOK(new) /\ Rows(new, "active") = {u} /\ ~new[u].page
      BY <2>2 DEF RowsOK, UrlRecord, Rows
    <2>. HIDE DEF new
    <2>4. x.cursor = u /\ x.kind = "frontier" /\ x.found = TRUE /\ x.rows = new
      BY <2>1 DEF new
    <2>. QED
      BY <1>2, <2>2, <2>3, <2>4 DEF WorkAt
  <1>3. CASE Repairs(R) = {} /\ ~(~limit /\ Rows(R, "queued") # {})
    <2>1. x = [cursor |-> here, kind |-> "frontier", rows |-> R, found |-> FALSE]
      BY <1>3 DEF Selections
    <2>2. x.cursor = here /\ x.kind = "frontier" /\ x.rows = R /\ x.found = FALSE
      BY <2>1
    <2>. QED
      BY <1>3, <2>2
  <1>. QED
    BY <1>1, <1>2, <1>3

(* The rows after repairs are requested, with the frontier row put back.   *)
LEMMA RequestedRows ==
  ASSUME NEW R, RowsOK(R), NEW us \in SUBSET Urls
  PROVE  LET D == Deferred(Requested(R, us))
         IN  /\ RowsOK(D) /\ Rows(D, "active") = {}
             /\ us # {} => Repairs(D) # {}
  <1>. DEFINE Q == Requested(R, us)
              D == Deferred(Q)
  <1>1. ASSUME NEW u \in Urls
        PROVE  /\ Q[u] \in UrlRecord /\ (Q[u].page => Q[u].state = "visited")
               /\ u \in us => Q[u].repair
    <2>1. R[u] \in UrlRecord /\ (R[u].page => R[u].state = "visited")
      BY DEF RowsOK
    <2>2. CASE u \notin us
      BY <2>1, <2>2 DEF Requested
    <2>3. CASE u \in us
      <3>. DEFINE st == IF R[u].state # "none" THEN R[u].state
                        ELSE IF R[u].page THEN "visited" ELSE "queued"
      <3>1. Q[u] = [R[u] EXCEPT !.repair = TRUE, !.state = st]
        BY <2>3 DEF Requested
      <3>2. st \in {"none", "queued", "active", "visited"} /\ (R[u].page => st = "visited")
        BY <2>1 DEF UrlRecord
      <3>. HIDE DEF Q, st
      <3>. QED
        BY <2>1, <3>1, <3>2 DEF UrlRecord
    <2>. QED
      BY <2>2, <2>3
  <1>. HIDE DEF Q
  <1>2. ASSUME NEW u \in Urls
        PROVE  /\ D[u] \in UrlRecord /\ (D[u].page => D[u].state = "visited")
               /\ D[u].state # "active" /\ (u \in us => D[u].repair)
    <2>1. D[u] = IF Q[u].state = "active" THEN [Q[u] EXCEPT !.state = "queued"] ELSE Q[u]
      BY DEF Deferred
    <2>. HIDE DEF D
    <2>. QED
      BY <1>1, <2>1 DEF UrlRecord
  <1>3. D = [u \in Urls |-> D[u]]
    BY DEF Deferred
  <1>. HIDE DEF D
  <1>4. RowsOK(D) /\ Rows(D, "active") = {} /\ (us # {} => Repairs(D) # {})
    BY <1>2, <1>3 DEF RowsOK, Rows, Repairs
  <1>. QED
    BY <1>4 DEF D, Q

(* The rows after a page is recorded: no row is active, for the page was   *)
(* the one that was, or none was.                                          *)
LEMMA VisitedRows ==
  ASSUME NEW R, RowsOK(R), NEW u \in Urls, NEW repairing \in BOOLEAN, NEW links \in SUBSET Urls,
         Rows(R, "active") \subseteq {u}
  PROVE  LET V == Visited(R, u, repairing, links)
         IN  RowsOK(V) /\ Rows(V, "active") = {}
  <1>. DEFINE V == Visited(R, u, repairing, links)
  <1>1. ASSUME NEW v \in Urls
        PROVE  /\ V[v] \in UrlRecord /\ (V[v].page => V[v].state = "visited")
               /\ V[v].state # "active"
    <2>1. /\ R[v] \in UrlRecord /\ (R[v].page => R[v].state = "visited")
          /\ R[v].state = "active" => v = u
      BY DEF RowsOK, Rows
    <2>2. CASE v = u
      <3>1. V[v] = [state |-> "visited", page |-> TRUE, repair |-> R[u].repair /\ ~repairing]
        BY <2>2 DEF Visited
      <3>2. (R[u].repair /\ ~repairing) \in BOOLEAN
        OBVIOUS
      <3>. HIDE DEF V
      <3>. QED
        BY <3>1, <3>2 DEF UrlRecord
    <2>3. CASE v # u
      <3>1. V[v] = IF v \in links /\ R[v].state = "none" THEN [R[v] EXCEPT !.state = "queued"]
                   ELSE R[v]
        BY <2>3 DEF Visited
      <3>. HIDE DEF V
      <3>. QED
        BY <2>1, <2>3, <3>1 DEF UrlRecord
    <2>. QED
      BY <2>2, <2>3
  <1>2. V = [v \in Urls |-> V[v]]
    BY DEF Visited
  <1>. HIDE DEF V
  <1>3. RowsOK(V) /\ Rows(V, "active") = {}
    BY <1>1, <1>2 DEF RowsOK, Rows
  <1>. QED
    BY <1>3 DEF V

-----------------------------------------------------------------------------
(* What a step does to the parts.                                          *)

(* One run and its queue that change.                                      *)
LEMMA OneRun ==
  ASSUME Typed, Queues, NEW r \in Sweeps, NEW x \in RunRecord, NEW R, RowsOK(R), RunOK(x, R),
         x.state # "absent", run' = [run EXCEPT ![r] = x], url' = [url EXCEPT ![r] = R]
  PROVE  /\ run' \in [Sweeps -> RunRecord] /\ url' \in [Sweeps -> [Urls -> UrlRecord]]
         /\ Queues'
         /\ \A q \in Sweeps : run[q].state # "absent" => run'[q].state # "absent"
  <1>1. R \in [Urls -> UrlRecord]
    BY DEF RowsOK
  <1>2. \A q \in Sweeps : RowsOK(url'[q]) /\ RunOK(run'[q], url'[q])
    BY DEF Typed, Queues
  <1>. QED
    BY <1>1, <1>2 DEF Typed, Queues

(* A script that goes on from a stage that is not idle.                    *)
LEMMA ScriptGoes ==
  ASSUME IInv, NEW s \in Sessions, session[s].at # "idle",
         NEW where \in {"idle", "prepare", "due", "claim", "fetch", "lost"},
         session' = [session EXCEPT ![s].at = where]
           \/ \E r \in Sweeps : session' = [session EXCEPT ![s].at = where, ![s].cursor = run[r].cursor],
         \A q \in Sweeps : run[q].state # "absent" => run'[q].state # "absent"
  PROVE  session' \in [Sessions -> SessionRecord] /\ ScriptsHaveRuns'
  <1>1. PICK c \in Urls :
          session' = [session EXCEPT ![s] = [session[s] EXCEPT !.at = where, !.cursor = c]]
    <2>1. session[s] \in SessionRecord
      BY DEF IInv, Typed
    <2>2. CASE session' = [session EXCEPT ![s].at = where]
      <3>1. session[s].cursor \in Urls
        BY <2>1 DEF SessionRecord
      <3>2. [session[s] EXCEPT !.at = where]
              = [session[s] EXCEPT !.at = where, !.cursor = session[s].cursor]
        BY <2>1 DEF SessionRecord
      <3>. QED
        BY <2>2, <3>1, <3>2
    <2>3. CASE \E r \in Sweeps :
                 session' = [session EXCEPT ![s].at = where, ![s].cursor = run[r].cursor]
      <3>1. PICK r \in Sweeps :
              session' = [session EXCEPT ![s].at = where, ![s].cursor = run[r].cursor]
        BY <2>3
      <3>2. run[r].cursor \in Urls
        BY DEF IInv, Typed, RunRecord
      <3>. QED
        BY <3>1, <3>2 DEF IInv, Typed
    <2>. QED
      BY <2>2, <2>3
  <1>. DEFINE new == [session[s] EXCEPT !.at = where, !.cursor = c]
  <1>2. new \in SessionRecord /\ new.sweep = session[s].sweep /\ new.at = where
    <2>1. session[s] \in SessionRecord
      BY DEF IInv, Typed
    <2>2. where \in {"idle", "configure", "prepare", "due", "claim", "fetch", "lost"}
      OBVIOUS
    <2>. QED
      BY <2>1, <2>2 DEF SessionRecord
  <1>. HIDE DEF new
  <1>3. session' = [session EXCEPT ![s] = new]
    BY <1>1 DEF new
  <1>4. /\ session' \in [Sessions -> SessionRecord]
        /\ \A t \in Sessions : /\ session'[t].sweep = session[t].sweep
                               /\ session'[t].at # "idle" => session[t].at # "idle"
    BY <1>2, <1>3 DEF IInv, Typed
  <1>5. \A t \in Sessions : session[t].sweep \in Sweeps
    BY DEF IInv, Typed, SessionRecord
  <1>. QED
    BY <1>4, <1>5 DEF IInv, ScriptsHaveRuns

(* The scripts stay, and so do the runs that they are at work on.          *)
LEMMA ScriptsStay ==
  ASSUME IInv, UNCHANGED session,
         \A q \in Sweeps : run[q].state # "absent" => run'[q].state # "absent"
  PROVE  session' \in [Sessions -> SessionRecord] /\ ScriptsHaveRuns'
  <1>1. \A t \in Sessions : session[t].sweep \in Sweeps
    BY DEF IInv, Typed, SessionRecord
  <1>. QED
    BY <1>1 DEF IInv, Typed, ScriptsHaveRuns

(* Repairs that are requested of a started run.                            *)
LEMMA RepairsQueued ==
  ASSUME Typed, Queues, NEW r \in Sweeps, run[r].state # "absent",
         NEW us \in SUBSET Urls, us # {}, QueueRepairs(r, us)
  PROVE  /\ run' \in [Sweeps -> RunRecord] /\ url' \in [Sweeps -> [Urls -> UrlRecord]]
         /\ Queues'
         /\ \A q \in Sweeps : run[q].state # "absent" => run'[q].state # "absent"
  <1>. DEFINE R == url[r]
              fresh == {u \in us : R[u].state = "none"}
              a == Cardinality({u \in fresh : ~R[u].page})
              b == Cardinality({u \in fresh : R[u].page})
              c == RepairsCounted(R, us)
              D == Deferred(Requested(R, us))
  <1>1. PICK x \in Selections(D, FALSE, run[r].cursor) :
          /\ url' = [url EXCEPT ![r] = x.rows]
          /\ run' = [run EXCEPT ![r].state   = "ready",
                                ![r].cursor  = x.cursor,
                                ![r].kind    = x.kind,
                                ![r].queued  = @ + a,
                                ![r].visited = @ + b,
                                ![r].repairs = @ + c]
    BY DEF QueueRepairs
  <1>2. a \in Nat /\ b \in Nat /\ c \in Nat
    BY UrlsCounted DEF RepairsCounted
  <1>3. RowsOK(R) /\ run[r] \in RunRecord /\ run[r].cursor \in Urls
    BY DEF Queues, Typed, RunRecord
  <1>. HIDE DEF a, b, c, R
  <1>4. RowsOK(D) /\ Rows(D, "active") = {} /\ Repairs(D) # {}
    BY <1>3, RequestedRows
  <1>. HIDE DEF D
  <1>5. /\ x.cursor \in Urls /\ x.kind \in {"frontier", "repair"} /\ RowsOK(x.rows)
        /\ WorkAt(x.cursor, x.kind, x.rows)
    BY <1>3, <1>4, SelectionIsWork
  <1>. DEFINE n1 == run[r].queued + a
              n2 == run[r].visited + b
              n3 == run[r].repairs + c
              cur == x.cursor
              kind == x.kind
              new == [run[r] EXCEPT !.state = "ready", !.cursor = cur, !.kind = kind,
                                    !.queued = n1, !.visited = n2, !.repairs = n3]
  <1>6. run' = [run EXCEPT ![r] = new]
    BY <1>1 DEF Typed
  <1>7. n1 \in Nat /\ n2 \in Nat /\ n3 \in Nat
    BY <1>2, <1>3 DEF RunRecord
  <1>. HIDE DEF n1, n2, n3, cur, kind
  <1>8. new \in RunRecord /\ new.state = "ready" /\ new.cursor = x.cursor /\ new.kind = x.kind
    <2>1. cur \in Urls /\ kind \in {"frontier", "repair"}
      BY <1>5 DEF cur, kind
    <2>2. new \in RunRecord /\ new.state = "ready" /\ new.cursor = cur /\ new.kind = kind
      BY <1>3, <1>7, <2>1 DEF RunRecord
    <2>. QED
      BY <2>2 DEF cur, kind
  <1>. HIDE DEF new
  <1>9. RunOK(new, x.rows)
    BY <1>5, <1>8 DEF RunOK
  <1>. QED
    BY <1>1, <1>5, <1>6, <1>8, <1>9, OneRun

(* What Odoo records of a page of a sweep keeps the items' types.          *)
LEMMA ItemsObserved ==
  ASSUME NEW I \in [Items -> ItemRecord], NEW r \in Sweeps, NEW u \in Urls,
         NEW seen \in [Items -> Sightings]
  PROVE  Observed(I, r, u, seen) \in [Items -> ItemRecord]
  <1>1. ASSUME NEW i \in Items
        PROVE  [reconciliation |-> "current",
                state |-> IF seen[i] = "review" THEN "review" ELSE "verified",
                candidate |-> seen[i] = "candidate", seen |-> r, page |-> u] \in ItemRecord
    <2>1. r \in 0..MaxSweeps /\ (seen[i] = "candidate") \in BOOLEAN
      BY BoundsAssumption DEF Sweeps
    <2>. QED
      BY <2>1 DEF ItemRecord
  <1>. QED
    BY <1>1 DEF Observed

(* Starting and ending the reconciliation keep the items' types.           *)
LEMMA ItemsReconciled ==
  ASSUME NEW I \in [Items -> ItemRecord], NEW r
  PROVE  Reset(I, r) \in [Items -> ItemRecord] /\ Reconciled(I, r) \in [Items -> ItemRecord]
  <1>1. Reset(I, r) \in [Items -> ItemRecord]
    BY DEF Reset, ItemRecord
  <1>2. Reconciled(I, r) \in [Items -> ItemRecord]
    BY DEF Reconciled, ItemRecord
  <1>. QED
    BY <1>1, <1>2

-----------------------------------------------------------------------------
(* The steps keep the invariant.                                           *)

(* The initial states satisfy the invariant: no run is started.            *)
LEMMA IInvInitially == Init => IInv
  <1>. SUFFICES ASSUME Init PROVE IInv
    OBVIOUS
  <1>1. 1 \in Sweeps /\ 0 \in 0..Lease /\ 0 \in 0..Cooldown /\ 0 \in 0..MaxSweeps
    BY BoundsAssumption DEF Sweeps
  <1>2. Unstarted \in RunRecord /\ NoRow \in UrlRecord
    BY <1>1, PortalAssumption DEF Unstarted, RunRecord, NoRow, UrlRecord
  <1>3. EarlierItem \in ItemRecord /\ NoItem \in ItemRecord
    BY <1>1, PortalAssumption DEF EarlierItem, NoItem, ItemRecord
  <1>4. [at |-> "idle", sweep |-> 1, cursor |-> Seed] \in SessionRecord
    BY <1>1, PortalAssumption DEF SessionRecord
  <1>5. Typed
    BY <1>2, <1>3, <1>4 DEF Init, Typed
  <1>6. Queues
    BY <1>2 DEF Init, Queues, RowsOK, RunOK, Unstarted, NoRow
  <1>. QED
    BY <1>5, <1>6 DEF Init, IInv, ScriptsHaveRuns

(* A run that is started has its seed to fetch.                            *)
LEMMA StartKeeps == ASSUME IInv, NEW s \in Sessions, Start(s) PROVE IInv'
  <1>1. PICK r \in Sweeps :
          /\ session' = [session EXCEPT ![s] = [at |-> "configure", sweep |-> r, cursor |-> Seed]]
          /\ IF run[r].state = "absent"
               THEN /\ run' = [run EXCEPT ![r].state = "ready"]
                    /\ url' = [url EXCEPT ![r][Seed] = Active]
               ELSE UNCHANGED <<run, url>>
    BY DEF Start
  <1>2. /\ run' \in [Sweeps -> RunRecord] /\ url' \in [Sweeps -> [Urls -> UrlRecord]]
        /\ Queues' /\ run'[r].state # "absent"
        /\ \A q \in Sweeps : run[q].state # "absent" => run'[q].state # "absent"
    <2>1. CASE run[r].state # "absent"
      BY <1>1, <2>1 DEF IInv, Typed, Queues
    <2>2. CASE run[r].state = "absent"
      <3>. DEFINE x == [run[r] EXCEPT !.state = "ready"]
                  R == [url[r] EXCEPT ![Seed] = Active]
      <3>1. /\ run[r] \in RunRecord /\ run[r].cursor = Seed /\ run[r].kind = "frontier"
            /\ url[r] \in [Urls -> UrlRecord] /\ \A u \in Urls : url[r][u] = NoRow
        BY <2>2 DEF IInv, Typed, Queues, RunOK
      <3>2. x \in RunRecord /\ x.state = "ready" /\ x.cursor = Seed /\ x.kind = "frontier"
        BY <3>1 DEF RunRecord
      <3>3. RowsOK(R) /\ Rows(R, "active") = {Seed} /\ ~R[Seed].page
        BY <3>1, PortalAssumption DEF RowsOK, UrlRecord, Rows, Active, NoRow
      <3>4. run' = [run EXCEPT ![r] = x] /\ url' = [url EXCEPT ![r] = R]
        BY <1>1, <2>2 DEF IInv, Typed
      <3>. HIDE DEF x, R
      <3>5. RunOK(x, R)
        BY <3>2, <3>3 DEF RunOK, WorkAt
      <3>6. run'[r] = x
        BY <3>4 DEF IInv, Typed
      <3>. QED
        BY <3>2, <3>3, <3>4, <3>5, <3>6, OneRun DEF IInv
    <2>. QED
      BY <2>1, <2>2
  <1>3. [at |-> "configure", sweep |-> r, cursor |-> Seed] \in SessionRecord
    BY PortalAssumption DEF SessionRecord
  <1>4. /\ session' \in [Sessions -> SessionRecord]
        /\ \A t \in Sessions : session[t].sweep \in Sweeps
    BY <1>1, <1>3 DEF IInv, Typed, SessionRecord
  <1>5. ScriptsHaveRuns'
    BY <1>1, <1>2, <1>4 DEF IInv, Typed, ScriptsHaveRuns
  <1>. QED
    BY <1>2, <1>4, <1>5 DEF Start, IInv, Typed

(* A script that is configured, or that is killed.                         *)
LEMMA QuietKeeps ==
  ASSUME IInv, NEW s \in Sessions, Configure(s) \/ Crash(s)
  PROVE  IInv'
  <1>1. PICK where \in {"idle", "prepare"} :
          session[s].at # "idle" /\ session' = [session EXCEPT ![s].at = where]
    BY DEF Configure, Crash, GoTo, At
  <1>2. UNCHANGED <<run, url, item, witnessed>>
    BY DEF Configure, Crash
  <1>3. session' \in [Sessions -> SessionRecord] /\ ScriptsHaveRuns'
    BY <1>1, <1>2, ScriptGoes
  <1>. QED
    BY <1>2, <1>3 DEF IInv, Typed, Queues

(* The reconciliation is started.                                          *)
LEMMA PrepareKeeps == ASSUME IInv, NEW s \in Sessions, Prepare(s) PROVE IInv'
  <1>. DEFINE r == session[s].sweep
              x == [run[r] EXCEPT !.reconciliation = "in_progress"]
  <1>1. r \in Sweeps /\ session[s].at = "prepare" /\ run[r].state # "absent"
    BY DEF Prepare, At, IInv, Typed, SessionRecord, ScriptsHaveRuns
  <1>2. /\ run' \in [Sweeps -> RunRecord] /\ url' \in [Sweeps -> [Urls -> UrlRecord]]
        /\ Queues'
        /\ \A q \in Sweeps : run[q].state # "absent" => run'[q].state # "absent"
        /\ item' \in [Items -> ItemRecord]
    <2>1. CASE UNCHANGED <<item, run>>
      BY <2>1 DEF Prepare, IInv, Typed, Queues
    <2>2. CASE /\ run[r].reconciliation = "pending" /\ item' = Reset(item, r)
               /\ run' = [run EXCEPT ![r].reconciliation = "in_progress"]
      <3>1. run[r] \in RunRecord /\ RowsOK(url[r]) /\ RunOK(run[r], url[r])
        BY <1>1 DEF IInv, Typed, Queues
      <3>2. /\ x \in RunRecord /\ x.state = run[r].state /\ x.cursor = run[r].cursor
            /\ x.kind = run[r].kind /\ x.owner = run[r].owner /\ x.pages = run[r].pages
        BY <3>1 DEF RunRecord
      <3>3. run' = [run EXCEPT ![r] = x] /\ url' = [url EXCEPT ![r] = url[r]]
        BY <2>2 DEF Prepare, IInv, Typed
      <3>. HIDE DEF x
      <3>4. RunOK(x, url[r])
        BY <1>1, <2>2, <3>1, <3>2 DEF RunOK
      <3>5. item' \in [Items -> ItemRecord]
        BY <2>2, ItemsReconciled DEF IInv, Typed
      <3>. HIDE DEF r
      <3>. QED
        BY <1>1, <3>1, <3>2, <3>3, <3>4, <3>5, OneRun DEF IInv
    <2>. QED
      BY <2>1, <2>2 DEF Prepare
  <1>3. session' = [session EXCEPT ![s].at = "due"]
    BY DEF Prepare, GoTo
  <1>. HIDE DEF r, x
  <1>4. session' \in [Sessions -> SessionRecord] /\ ScriptsHaveRuns'
    BY <1>1, <1>2, <1>3, ScriptGoes
  <1>. QED
    BY <1>2, <1>4 DEF Prepare, IInv, Typed

(* Due repairs are queued, or none are.                                    *)
LEMMA QueueDueKeeps == ASSUME IInv, NEW s \in Sessions, QueueDue(s) PROVE IInv'
  <1>. DEFINE r == session[s].sweep
  <1>1. r \in Sweeps /\ session[s].at = "due" /\ run[r].state # "absent"
    BY DEF QueueDue, At, IInv, Typed, SessionRecord, ScriptsHaveRuns
  <1>2. /\ run' \in [Sweeps -> RunRecord] /\ url' \in [Sweeps -> [Urls -> UrlRecord]]
        /\ Queues'
        /\ \A q \in Sweeps : run[q].state # "absent" => run'[q].state # "absent"
    <2>1. CASE UNCHANGED <<run, url>>
      BY <2>1 DEF IInv, Typed, Queues
    <2>2. CASE \E us \in SUBSET DuePages(r) : us # {} /\ QueueRepairs(r, us)
      <3>1. PICK us \in SUBSET Urls : us # {} /\ QueueRepairs(r, us)
        BY <2>2 DEF DuePages
      <3>. HIDE DEF r
      <3>. QED
        BY <1>1, <3>1, RepairsQueued DEF IInv
    <2>. QED
      BY <2>1, <2>2 DEF QueueDue
  <1>3. session' = [session EXCEPT ![s].at = "claim"]
    BY DEF QueueDue, GoTo
  <1>. HIDE DEF r
  <1>4. session' \in [Sessions -> SessionRecord] /\ ScriptsHaveRuns'
    BY <1>1, <1>2, <1>3, ScriptGoes
  <1>. QED
    BY <1>2, <1>4 DEF QueueDue, IInv, Typed

(* An administrator requests repairs of a started run.                     *)
LEMMA RequestRepairsKeeps == ASSUME IInv, RequestRepairs PROVE IInv'
  <1>1. PICK r \in Sweeps : \E us \in SUBSET Urls :
          run[r].state # "absent" /\ us # {} /\ QueueRepairs(r, us)
    BY DEF RequestRepairs, MayQueue
  <1>2. /\ run' \in [Sweeps -> RunRecord] /\ url' \in [Sweeps -> [Urls -> UrlRecord]]
        /\ Queues'
        /\ \A q \in Sweeps : run[q].state # "absent" => run'[q].state # "absent"
    BY <1>1, RepairsQueued DEF IInv
  <1>3. session' \in [Sessions -> SessionRecord] /\ ScriptsHaveRuns'
    BY <1>2, ScriptsStay DEF RequestRepairs
  <1>. QED
    BY <1>2, <1>3 DEF RequestRepairs, IInv, Typed

(* Leases and cooldowns run down.                                          *)
LEMMA TickKeeps == ASSUME IInv, Tick PROVE IInv'
  <1>1. ASSUME NEW r \in Sweeps
        PROVE  /\ run'[r] \in RunRecord /\ RunOK(run'[r], url[r])
               /\ run'[r].state = run[r].state
    <2>. DEFINE l == Down(run[r].lease)
                c == Down(run[r].cooling)
    <2>1. run[r] \in RunRecord /\ RunOK(run[r], url[r])
      BY DEF IInv, Typed, Queues
    <2>2. l \in 0..Lease /\ c \in 0..Cooldown
      BY <2>1, BoundsAssumption, ClockRunsDown DEF RunRecord
    <2>3. run'[r] = [run[r] EXCEPT !.lease = l, !.cooling = c]
      BY DEF Tick
    <2>. HIDE DEF l, c
    <2>4. /\ run'[r] \in RunRecord
          /\ run'[r].state = run[r].state /\ run'[r].cursor = run[r].cursor
          /\ run'[r].kind = run[r].kind /\ run'[r].owner = run[r].owner
          /\ run'[r].pages = run[r].pages /\ run'[r].reconciliation = run[r].reconciliation
      BY <2>1, <2>2, <2>3 DEF RunRecord
    <2>. QED
      BY <2>1, <2>4 DEF RunOK
  <1>2. run' \in [Sweeps -> RunRecord] /\ Queues'
    BY <1>1 DEF Tick, IInv, Queues
  <1>3. session' \in [Sessions -> SessionRecord] /\ ScriptsHaveRuns'
    BY <1>1, ScriptsStay DEF Tick
  <1>. QED
    BY <1>2, <1>3 DEF Tick, IInv, Typed

(* A lease is granted: the run keeps its cursor, and it is not completed.  *)
LEMMA ClaimKeeps == ASSUME IInv, NEW s \in Sessions, Claim(s) PROVE IInv'
  <1>. DEFINE r == session[s].sweep
              x == [run[r] EXCEPT !.state = "running", !.owner = Name[s], !.lease = Lease,
                                  !.cooling = 0]
  <1>1. r \in Sweeps /\ session[s].at = "claim" /\ run[r].state # "absent"
    BY DEF Claim, At, IInv, Typed, SessionRecord, ScriptsHaveRuns
  <1>2. /\ run' \in [Sweeps -> RunRecord] /\ url' \in [Sweeps -> [Urls -> UrlRecord]]
        /\ Queues'
        /\ \A q \in Sweeps : run[q].state # "absent" => run'[q].state # "absent"
    <2>1. CASE UNCHANGED run
      BY <2>1 DEF Claim, IInv, Typed, Queues
    <2>2. CASE /\ Claimable(r, Name[s])
               /\ run' = [run EXCEPT ![r].state = "running", ![r].owner = Name[s],
                                     ![r].lease = Lease, ![r].cooling = 0]
      <3>1. run[r] \in RunRecord /\ RowsOK(url[r]) /\ RunOK(run[r], url[r])
        BY <1>1 DEF IInv, Typed, Queues
      <3>2. Lease \in 0..Lease /\ 0 \in 0..Cooldown /\ Name[s] \in Names
        BY BoundsAssumption DEF Names
      <3>3. /\ x \in RunRecord /\ x.state = "running" /\ x.cursor = run[r].cursor
            /\ x.kind = run[r].kind
        BY <3>1, <3>2 DEF RunRecord
      <3>4. run' = [run EXCEPT ![r] = x] /\ url' = [url EXCEPT ![r] = url[r]]
        BY <2>2 DEF Claim, IInv, Typed
      <3>5. run[r].state # "completed"
        BY <2>2 DEF Claimable
      <3>. HIDE DEF x
      <3>6. RunOK(x, url[r])
        BY <1>1, <3>1, <3>3, <3>5 DEF RunOK
      <3>. HIDE DEF r
      <3>. QED
        BY <1>1, <3>1, <3>3, <3>4, <3>6, OneRun DEF IInv
    <2>. QED
      BY <2>1, <2>2 DEF Claim
  <1>3. \/ session' = [session EXCEPT ![s].at = "idle"]
        \/ session' = [session EXCEPT ![s].at = "fetch", ![s].cursor = run[r].cursor]
    BY DEF Claim, GoTo
  <1>. HIDE DEF r, x
  <1>4. session' \in [Sessions -> SessionRecord] /\ ScriptsHaveRuns'
    <2>1. PICK where \in {"idle", "fetch"} :
            session' = [session EXCEPT ![s].at = where]
              \/ \E q \in Sweeps :
                   session' = [session EXCEPT ![s].at = where, ![s].cursor = run[q].cursor]
      BY <1>1, <1>3
    <2>. QED
      BY <1>1, <1>2, <2>1, ScriptGoes
  <1>. QED
    BY <1>2, <1>4 DEF Claim, IInv, Typed

(* A lease is given back: the run keeps its cursor.                        *)
LEMMA ReleasedRun ==
  ASSUME Typed, Queues, NEW r \in Sweeps, run[r].owner # NoName,
         NEW st \in {run[r].state, "cooldown", "ready"}, NEW c \in 0..Cooldown,
         run[r].state # "absent", run[r].state # "completed",
         run' = [run EXCEPT ![r] = [Released(r) EXCEPT !.state = st, !.cooling = c]],
         UNCHANGED url
  PROVE  /\ run' \in [Sweeps -> RunRecord] /\ url' \in [Sweeps -> [Urls -> UrlRecord]]
         /\ Queues'
         /\ \A q \in Sweeps : run[q].state # "absent" => run'[q].state # "absent"
  <1>. DEFINE x == [Released(r) EXCEPT !.state = st, !.cooling = c]
  <1>1. run[r] \in RunRecord /\ RowsOK(url[r]) /\ RunOK(run[r], url[r])
    BY DEF Typed, Queues
  <1>2. /\ 0 \in 0..Lease
        /\ st \in {"absent", "ready", "running", "cooldown", "completed"}
        /\ st \notin {"absent", "completed"}
    BY <1>1, BoundsAssumption DEF RunRecord
  <1>3. x = [run[r] EXCEPT !.owner = NoName, !.lease = 0, !.state = st, !.cooling = c]
    BY <1>1 DEF Released, RunRecord
  <1>. HIDE DEF x
  <1>4. x \in RunRecord /\ x.state = st /\ x.cursor = run[r].cursor /\ x.kind = run[r].kind
    BY <1>1, <1>2, <1>3 DEF RunRecord
  <1>5. RunOK(x, url[r])
    BY <1>1, <1>2, <1>4 DEF RunOK
  <1>6. run' = [run EXCEPT ![r] = x] /\ url' = [url EXCEPT ![r] = url[r]]
    BY DEF x, Typed
  <1>. QED
    BY <1>1, <1>2, <1>4, <1>5, <1>6, OneRun

(* A failure gives the lease back.                                         *)
LEMMA FailKeeps == ASSUME IInv, NEW s \in Sessions, Fail(s) PROVE IInv'
  <1>. DEFINE r == session[s].sweep
  <1>1. /\ r \in Sweeps /\ session[s].at # "idle" /\ run[r].state # "absent"
        /\ RunOK(run[r], url[r]) /\ Name[s] # NoName
    BY SessionsAssumption DEF Fail, IInv, Typed, SessionRecord, ScriptsHaveRuns, Queues
  <1>2. /\ run' \in [Sweeps -> RunRecord] /\ url' \in [Sweeps -> [Urls -> UrlRecord]]
        /\ Queues'
        /\ \A q \in Sweeps : run[q].state # "absent" => run'[q].state # "absent"
    <2>1. CASE UNCHANGED run
      BY <2>1 DEF Fail, IInv, Typed, Queues
    <2>2. CASE ~UNCHANGED run
      <3>1. run[r].owner # NoName /\ run[r].state # "completed"
        BY <1>1, <2>2 DEF Fail, MayFail, RunOK
      <3>2. PICK st \in {"cooldown", "ready"}, c \in {0, Cooldown} :
              run' = [run EXCEPT ![r] = [Released(r) EXCEPT !.state = st, !.cooling = c]]
        BY <2>2 DEF Fail
      <3>3. c \in 0..Cooldown
        BY <3>2, BoundsAssumption
      <3>4. UNCHANGED url
        BY DEF Fail
      <3>. HIDE DEF r
      <3>. QED
        BY <1>1, <3>1, <3>2, <3>3, <3>4, ReleasedRun DEF IInv
    <2>. QED
      BY <2>1, <2>2
  <1>3. session' = [session EXCEPT ![s].at = "idle"]
    BY DEF Fail, GoTo
  <1>. HIDE DEF r
  <1>4. session' \in [Sessions -> SessionRecord] /\ ScriptsHaveRuns'
    BY <1>1, <1>2, <1>3, ScriptGoes
  <1>. QED
    BY <1>2, <1>4 DEF Fail, IInv, Typed

(* The run after a page, with the next selection x: at work on it, or      *)
(* completed.                                                              *)
LEMMA AdvancedRun ==
  ASSUME Typed, Queues, NEW r \in Sweeps, run[r].state = "running",
         NEW links \in SUBSET Urls,
         NEW x \in Selections(Visited(url[r], run[r].cursor, run[r].kind = "repair", links),
                              LimitReached(r), run[r].cursor)
  PROVE  LET new == Advanced(r, run[r].cursor, links, x)
         IN  /\ new \in RunRecord /\ RowsOK(x.rows) /\ RunOK(new, x.rows)
             /\ new.state = IF x.found THEN "ready" ELSE "completed"
             /\ new.reconciliation = IF x.found THEN run[r].reconciliation ELSE "completed"
             /\ new.kind = x.kind /\ new.owner = NoName
             /\ new.pages = run[r].pages + One(run[r].kind = "frontier")
  <1>. DEFINE u == run[r].cursor
              R == url[r]
              repairing == run[r].kind = "repair"
              V == Visited(R, u, repairing, links)
              limit == LimitReached(r)
  <1>1. /\ run[r] \in RunRecord /\ RowsOK(R) /\ RunOK(run[r], R)
        /\ u \in Urls /\ run[r].kind \in {"frontier", "repair"}
    BY DEF Typed, Queues, RunRecord
  <1>2. /\ Rows(R, "active") \subseteq {u} /\ repairing \in BOOLEAN /\ limit \in BOOLEAN
        /\ ~repairing => run[r].kind = "frontier"
    BY <1>1 DEF RunOK, WorkAt, LimitReached
  <1>. HIDE DEF u, R, repairing, limit
  <1>3. RowsOK(V) /\ Rows(V, "active") = {}
    BY <1>1, <1>2, VisitedRows
  <1>4. x \in Selections(V, limit, u)
    BY DEF u, R, repairing, limit
  <1>. HIDE DEF V
  <1>5. /\ x.cursor \in Urls /\ x.kind \in {"frontier", "repair"} /\ RowsOK(x.rows)
        /\ x.found \in BOOLEAN
        /\ x.found => WorkAt(x.cursor, x.kind, x.rows)
        /\ ~x.found => /\ Repairs(x.rows) = {} /\ Rows(x.rows, "active") = {}
                       /\ Rows(x.rows, "queued") = {} \/ limit
    BY <1>1, <1>2, <1>3, <1>4, SelectionIsWork
  <1>. DEFINE st == IF x.found THEN "ready" ELSE "completed"
              q == QueuedAfter(run[r].queued, R, u, links)
              v == run[r].visited + One(Waiting(R, u) \/ R[u].state = "none")
              n == IF run[r].repairs - One(R[u].repair) < 0 THEN 0
                   ELSE run[r].repairs - One(R[u].repair)
              p == run[r].pages + One(~repairing)
              rec == IF x.found THEN run[r].reconciliation ELSE "completed"
              new == Advanced(r, u, links, x)
  <1>6. q \in Nat /\ v \in Nat /\ n \in Nat /\ p \in Nat
    <2>1. Cardinality(NewLinks(R, u, links)) \in Nat
      BY UrlsCounted DEF NewLinks
    <2>2. \A b : One(b) \in {0, 1}
      BY DEF One
    <2>3. /\ run[r].queued \in Nat /\ run[r].visited \in Nat /\ run[r].repairs \in Nat
          /\ run[r].pages \in Nat
      BY <1>1 DEF RunRecord
    <2>4. q \in Nat
      BY <2>1, <2>2, <2>3 DEF QueuedAfter
    <2>. QED
      BY <2>2, <2>3, <2>4
  <1>7. new = [run[r] EXCEPT !.owner = NoName, !.lease = 0, !.state = st, !.cursor = x.cursor,
                 !.kind = x.kind, !.queued = q, !.visited = v, !.repairs = n, !.pages = p,
                 !.reconciliation = rec]
    BY <1>1 DEF Advanced, Released, RunRecord, R, repairing
  <1>8. limit => p >= MaxPages
    BY <1>2 DEF limit, LimitReached, repairing, One
  <1>9. /\ st \in {"ready", "completed"} /\ 0 \in 0..Lease
        /\ rec \in {"pending", "in_progress", "completed"}
    BY <1>1, BoundsAssumption DEF RunRecord
  <1>. DEFINE cur == x.cursor
              kind == x.kind
  <1>10. /\ new \in RunRecord /\ new.state = st /\ new.cursor = x.cursor /\ new.kind = x.kind
         /\ new.owner = NoName /\ new.pages = p /\ new.reconciliation = rec
    <2>1. new = [run[r] EXCEPT !.owner = NoName, !.lease = 0, !.state = st, !.cursor = cur,
                   !.kind = kind, !.queued = q, !.visited = v, !.repairs = n, !.pages = p,
                   !.reconciliation = rec]
      BY <1>7
    <2>2. cur \in Urls /\ kind \in {"frontier", "repair"}
      BY <1>5
    <2>. HIDE DEF new, st, q, v, n, p, rec, cur, kind
    <2>3. /\ new \in RunRecord /\ new.state = st /\ new.cursor = cur /\ new.kind = kind
          /\ new.owner = NoName /\ new.pages = p /\ new.reconciliation = rec
      BY <1>1, <1>6, <1>9, <2>1, <2>2 DEF RunRecord
    <2>. QED
      BY <2>3 DEF cur, kind
  <1>11. RunOK(new, x.rows)
    <2>. HIDE DEF new, q, v, n, p
    <2>. QED
      BY <1>5, <1>8, <1>10 DEF RunOK
  <1>12. p = run[r].pages + One(run[r].kind = "frontier")
    BY <1>1 DEF repairing, One
  <1>. HIDE DEF new, q, v, n, p
  <1>13. /\ new \in RunRecord /\ RowsOK(x.rows) /\ RunOK(new, x.rows)
         /\ new.state = IF x.found THEN "ready" ELSE "completed"
         /\ new.reconciliation = IF x.found THEN run[r].reconciliation ELSE "completed"
         /\ new.kind = x.kind /\ new.owner = NoName
         /\ new.pages = run[r].pages + One(run[r].kind = "frontier")
    BY <1>5, <1>10, <1>11, <1>12
  <1>. QED
    BY <1>13 DEF u, new

(* A page is recorded, or its lease only given back.                       *)
LEMMA RecordKeeps == ASSUME IInv, NEW s \in Sessions, Record(s) PROVE IInv'
  <1>. DEFINE r == session[s].sweep
              u == session[s].cursor
              repairing == run[r].kind = "repair"
  <1>1. /\ r \in Sweeps /\ session[s].at # "idle" /\ run[r].state = "running"
        /\ u = run[r].cursor /\ u \in Urls /\ run[r].owner # NoName
    BY SessionsAssumption DEF Record, Accepted, IInv, Typed, SessionRecord
  <1>2. /\ run' \in [Sweeps -> RunRecord] /\ url' \in [Sweeps -> [Urls -> UrlRecord]]
        /\ Queues'
        /\ \A q \in Sweeps : run[q].state # "absent" => run'[q].state # "absent"
        /\ item' \in [Items -> ItemRecord] /\ witnessed' \in [Sweeps -> SUBSET Items]
    <2>1. CASE run' = [run EXCEPT ![r] = Released(r)] /\ UNCHANGED <<url, item, witnessed>>
      <3>1. run[r] \in RunRecord
        BY <1>1 DEF IInv, Typed
      <3>2. Released(r) = [Released(r) EXCEPT !.state = run[r].state, !.cooling = run[r].cooling]
        BY <3>1 DEF Released, RunRecord
      <3>3. run[r].cooling \in 0..Cooldown
        BY <3>1 DEF RunRecord
      <3>. HIDE DEF r
      <3>4. /\ run' \in [Sweeps -> RunRecord] /\ url' \in [Sweeps -> [Urls -> UrlRecord]]
            /\ Queues'
            /\ \A q \in Sweeps : run[q].state # "absent" => run'[q].state # "absent"
        BY <1>1, <2>1, <3>2, <3>3, ReleasedRun DEF IInv
      <3>. QED
        BY <2>1, <3>4 DEF IInv, Typed
    <2>2. CASE \E links \in SUBSET Urls, seen \in [Items -> Sightings] :
               \E x \in Selections(Visited(url[r], u, repairing, links), LimitReached(r), u) :
                 /\ run' = [run EXCEPT ![r] = Advanced(r, u, links, x)]
                 /\ url' = [url EXCEPT ![r] = x.rows]
                 /\ item' = IF Settles(r, x)
                              THEN Reconciled(Observed(item, r, u, seen), r)
                              ELSE Observed(item, r, u, seen)
                 /\ witnessed' = [witnessed EXCEPT
                      ![r] = @ \cup {i \in Items : seen[i] # "unlisted"}]
      <3>1. PICK links \in SUBSET Urls, seen \in [Items -> Sightings] :
               \E x \in Selections(Visited(url[r], u, repairing, links), LimitReached(r), u) :
                 /\ run' = [run EXCEPT ![r] = Advanced(r, u, links, x)]
                 /\ url' = [url EXCEPT ![r] = x.rows]
                 /\ item' = IF Settles(r, x)
                              THEN Reconciled(Observed(item, r, u, seen), r)
                              ELSE Observed(item, r, u, seen)
                 /\ witnessed' = [witnessed EXCEPT
                      ![r] = @ \cup {i \in Items : seen[i] # "unlisted"}]
        BY <2>2
      <3>2. PICK x \in Selections(Visited(url[r], u, repairing, links), LimitReached(r), u) :
                 /\ run' = [run EXCEPT ![r] = Advanced(r, u, links, x)]
                 /\ url' = [url EXCEPT ![r] = x.rows]
                 /\ item' = IF Settles(r, x)
                              THEN Reconciled(Observed(item, r, u, seen), r)
                              ELSE Observed(item, r, u, seen)
                 /\ witnessed' = [witnessed EXCEPT
                      ![r] = @ \cup {i \in Items : seen[i] # "unlisted"}]
        BY <3>1
      <3>. HIDE DEF r, u
      <3>3. /\ Advanced(r, u, links, x) \in RunRecord /\ RowsOK(x.rows)
            /\ RunOK(Advanced(r, u, links, x), x.rows)
            /\ Advanced(r, u, links, x).state # "absent"
        BY <1>1, <3>2, AdvancedRun DEF IInv
      <3>4. /\ run' \in [Sweeps -> RunRecord] /\ url' \in [Sweeps -> [Urls -> UrlRecord]]
            /\ Queues'
            /\ \A q \in Sweeps : run[q].state # "absent" => run'[q].state # "absent"
        BY <1>1, <3>2, <3>3, OneRun DEF IInv
      <3>5. item' \in [Items -> ItemRecord]
        BY <1>1, <3>1, <3>2, ItemsObserved, ItemsReconciled DEF IInv, Typed
      <3>6. witnessed' \in [Sweeps -> SUBSET Items]
        BY <3>2 DEF IInv, Typed
      <3>. QED
        BY <3>4, <3>5, <3>6
    <2>. QED
      BY <2>1, <2>2 DEF Record
  <1>3. PICK where \in {"claim", "idle", "lost"} : session' = [session EXCEPT ![s].at = where]
    BY DEF Record, Onward, GoTo
  <1>. HIDE DEF r, u
  <1>4. session' \in [Sessions -> SessionRecord] /\ ScriptsHaveRuns'
    BY <1>1, <1>2, <1>3, ScriptGoes
  <1>. QED
    BY <1>2, <1>4 DEF IInv, Typed

(* Every step keeps the invariant.                                         *)
LEMMA IInvKept == IInv /\ [Next]_vars => IInv'
  <1>. SUFFICES ASSUME IInv, [Next]_vars PROVE IInv'
    OBVIOUS
  <1>1. CASE RequestRepairs
    BY <1>1, RequestRepairsKeeps
  <1>2. CASE Tick
    BY <1>2, TickKeeps
  <1>3. ASSUME NEW s \in Sessions, Step(s)
        PROVE  IInv'
    BY <1>3, StartKeeps, QuietKeeps, PrepareKeeps, QueueDueKeeps, ClaimKeeps, RecordKeeps,
       FailKeeps DEF Step, Work
  <1>4. ASSUME NEW s \in Sessions, Crash(s)
        PROVE  IInv'
    BY <1>4, QuietKeeps
  <1>5. CASE UNCHANGED vars
    BY <1>5 DEF vars, IInv, Typed, Queues, ScriptsHaveRuns
  <1>. QED
    BY <1>1, <1>2, <1>3, <1>4, <1>5 DEF Next

(* The invariant holds in every reachable state.                           *)
LEMMA Invariant == Spec => []IInv
  BY IInvInitially, IInvKept, PTL DEF Spec

-----------------------------------------------------------------------------
(* The theorems.                                                           *)

(* Runs, queues, items and scripts keep their types; in particular no      *)
(* counter of a run falls below zero, whatever rows are revisited.         *)
THEOREM TypeCorrect == Spec => []TypeOK
  <1>1. IInv => TypeOK
    BY DEF IInv, Typed, TypeOK
  <1>. QED
    BY <1>1, Invariant, PTL

(* The cursor of an unfinished run is always work to do, through page      *)
(* visits, failures, lost answers and repairs requested in between.        *)
THEOREM CursorStaysWork == Spec => []CursorIsWork
  <1>1. IInv => CursorIsWork
    BY DEF IInv, Queues, RunOK, WorkAt, CursorIsWork, Started
  <1>. QED
    BY <1>1, Invariant, PTL

(* A completed run leaves nothing to repair and nothing to visit, but for  *)
(* what the page limit held back.                                          *)
THEOREM CompletedIsExhaustive == Spec => []SweepIsExhaustive
  <1>1. IInv => SweepIsExhaustive
    BY DEF IInv, Queues, RunOK, SweepIsExhaustive
  <1>. QED
    BY <1>1, Invariant, PTL

(* While a lease is live, only a script of its owner moves the run: every  *)
(* method of another either checks the lease or the owner first            *)
(* (claim_discovery_checkpoint, record_discovery_page,                     *)
(* record_discovery_failure, queue_discovery_page_repairs).                *)
THEOREM LeaseKeepsOthersOut == Spec => LeaseExcludes
  <1>. DEFINE Moves(r) == Busy(r) /\ Position(run'[r]) # Position(run[r])
              Owner(r) == \E s \in Sessions : /\ Name[s] = run[r].owner /\ session[s].sweep = r
                                              /\ Step(s)
  <1>1. ASSUME IInv, [Next]_vars, NEW r \in Sweeps, Moves(r)
        PROVE  Owner(r)
    <2>1. /\ run[r].owner # NoName /\ run[r].lease > 0
          /\ run \in [Sweeps -> RunRecord] /\ run[r] \in RunRecord
      BY <1>1 DEF Busy, IInv, Typed
    <2>2. CASE UNCHANGED run
      BY <1>1, <2>2
    <2>3. ASSUME NEW q \in Sweeps, NEW us, ~Busy(q), QueueRepairs(q, us)
          PROVE  FALSE
      <3>1. q # r
        BY <1>1, <2>3
      <3>2. run'[r] = run[r]
        BY <2>1, <2>3, <3>1 DEF QueueRepairs
      <3>. QED
        BY <1>1, <3>2
    <2>4. CASE RequestRepairs
      BY <2>3, <2>4 DEF RequestRepairs, MayQueue
    <2>5. CASE Tick
      <3>1. run'[r] = [run[r] EXCEPT !.lease = Down(@), !.cooling = Down(@)]
        BY <2>5 DEF Tick
      <3>2. Position(run'[r]) = Position(run[r])
        BY <2>1, <3>1 DEF Position, RunRecord
      <3>. QED
        BY <1>1, <3>2
    <2>6. ASSUME NEW s \in Sessions, Step(s)
          PROVE  Owner(r)
      <3>1. session[s].sweep \in Sweeps /\ session[s] \in SessionRecord
        BY <1>1 DEF IInv, Typed, SessionRecord
      <3>2. CASE Start(s)
        <4>1. PICK q \in Sweeps :
                \/ run[q].state = "absent" /\ run' = [run EXCEPT ![q].state = "ready"]
                \/ UNCHANGED run
          BY <3>2 DEF Start
        <4>2. q = r => run[q].state # "absent"
          BY <1>1, <2>1 DEF IInv, Queues, RunOK
        <4>3. run'[r] = run[r]
          BY <2>1, <4>1, <4>2
        <4>. QED
          BY <1>1, <4>3
      <3>3. CASE Prepare(s)
        <4>1. \/ UNCHANGED run
              \/ run' = [run EXCEPT ![session[s].sweep].reconciliation = "in_progress"]
          BY <3>3 DEF Prepare
        <4>2. \/ run'[r] = run[r]
              \/ run'[r] = [run[r] EXCEPT !.reconciliation = "in_progress"]
          BY <2>1, <4>1
        <4>3. Position(run'[r]) = Position(run[r])
          BY <2>1, <4>2 DEF Position, RunRecord
        <4>. QED
          BY <1>1, <4>3
      <3>4. CASE QueueDue(s)
        BY <1>1, <2>2, <2>3, <3>1, <3>4 DEF QueueDue
      <3>5. CASE Claim(s)
        <4>1. session[s].sweep = r /\ Claimable(r, Name[s])
          BY <1>1, <2>1, <3>1, <3>5 DEF Claim
        <4>. QED
          BY <1>1, <2>6, <4>1 DEF Claimable
      <3>6. CASE Record(s)
        <4>1. session[s].sweep = r
          BY <1>1, <2>1, <3>1, <3>6 DEF Record
        <4>. QED
          BY <2>6, <3>6, <4>1 DEF Record, Accepted
      <3>7. CASE Fail(s)
        <4>1. session[s].sweep = r /\ MayFail(s, r)
          BY <1>1, <2>1, <3>1, <3>7 DEF Fail
        <4>. QED
          BY <2>6, <4>1 DEF MayFail
      <3>8. CASE Configure(s)
        BY <2>2, <3>8 DEF Configure
      <3>. QED
        BY <2>6, <3>2, <3>3, <3>4, <3>5, <3>6, <3>7, <3>8 DEF Step, Work
    <2>7. ASSUME NEW s \in Sessions, Crash(s)
          PROVE  Owner(r)
      BY <2>2, <2>7 DEF Crash
    <2>. QED
      BY <1>1, <2>2, <2>4, <2>5, <2>6, <2>7 DEF Next, vars
  <1>2. IInv /\ [Next]_vars =>
          [\A r \in Sweeps : Moves(r) => Owner(r)]_vars
    BY <1>1
  <1>. QED
    BY <1>2, Invariant, PTL DEF Spec, LeaseExcludes

-----------------------------------------------------------------------------
(* Reconciliation by the only sweep.                                       *)

(* As long as r is the only run that was started, the items it has         *)
(* recorded are those that say so, and once it has settled the items they  *)
(* stay settled, whatever repairs come after.                              *)
Settled(r) ==
  \A i \in Items : item[i].reconciliation # "absent" =>
    item[i].reconciliation = IF i \in witnessed[r] THEN "current" ELSE "stale"

Alone(r) ==
  Started \subseteq {r} =>
    /\ \A i \in Items : i \in witnessed[r] <=> item[i].seen = r
    /\ run[r].reconciliation = "completed" => Settled(r)

AllAlone == \A r \in Sweeps : Alone(r)

(* No step takes a run back to where it was not started, and only a page   *)
(* completes a reconciliation.                                             *)
LEMMA RunsGoOn ==
  ASSUME IInv, [Next]_vars, NEW q \in Sweeps
  PROVE  /\ run[q].state # "absent" => run'[q].state # "absent"
         /\ (\A s \in Sessions : ~Record(s)) /\ run'[q].reconciliation = "completed"
              => run[q].reconciliation = "completed"
  <1>. DEFINE Goes == /\ run[q].state # "absent" => run'[q].state # "absent"
                      /\ run'[q].reconciliation = "completed" => run[q].reconciliation = "completed"
  <1>0. /\ run \in [Sweeps -> RunRecord] /\ run[q] \in RunRecord
        /\ \A s \in Sessions : session[s].sweep \in Sweeps
    BY DEF IInv, Typed, SessionRecord
  <1>1. CASE UNCHANGED run
    BY <1>1
  <1>2. ASSUME NEW r \in Sweeps, NEW us, QueueRepairs(r, us)
        PROVE  Goes
    <2>. DEFINE R == url[r]
                fresh == {u \in us : R[u].state = "none"}
                a == Cardinality({u \in fresh : ~R[u].page})
                b == Cardinality({u \in fresh : R[u].page})
                d == RepairsCounted(R, us)
    <2>1. PICK x :
            run' = [run EXCEPT ![r].state = "ready", ![r].cursor = x.cursor, ![r].kind = x.kind,
                               ![r].queued = @ + a, ![r].visited = @ + b, ![r].repairs = @ + d]
      BY <1>2 DEF QueueRepairs
    <2>. HIDE DEF a, b, d
    <2>2. CASE q = r
      <3>1. run'[q] = [run[q] EXCEPT !.state = "ready", !.cursor = x.cursor, !.kind = x.kind,
                                     !.queued = @ + a, !.visited = @ + b, !.repairs = @ + d]
        BY <1>0, <2>1, <2>2
      <3>. QED
        BY <1>0, <3>1 DEF RunRecord
    <2>3. CASE q # r
      BY <1>0, <2>1, <2>3
    <2>. QED
      BY <2>2, <2>3
  <1>3. CASE RequestRepairs
    BY <1>2, <1>3 DEF RequestRepairs
  <1>4. CASE Tick
    <2>1. run'[q] = [run[q] EXCEPT !.lease = Down(@), !.cooling = Down(@)]
      BY <1>4 DEF Tick
    <2>. QED
      BY <1>0, <2>1 DEF RunRecord
  <1>5. ASSUME NEW s \in Sessions, Start(s) \/ Prepare(s) \/ Claim(s) \/ Fail(s), ~UNCHANGED run
        PROVE  Goes
    <2>1. PICK r \in Sweeps :
            \/ run' = [run EXCEPT ![r].state = "ready"]
            \/ run' = [run EXCEPT ![r].reconciliation = "in_progress"]
            \/ run' = [run EXCEPT ![r].state = "running", ![r].owner = Name[s],
                                  ![r].lease = Lease, ![r].cooling = 0]
            \/ \E st \in {"cooldown", "ready"}, c \in {0, Cooldown} :
                 run' = [run EXCEPT ![r] = [Released(r) EXCEPT !.state = st, !.cooling = c]]
      <3>1. CASE Start(s)
        BY <1>5, <3>1 DEF Start
      <3>2. CASE Prepare(s)
        BY <1>0, <1>5, <3>2 DEF Prepare
      <3>3. CASE Claim(s)
        BY <1>0, <1>5, <3>3 DEF Claim
      <3>4. CASE Fail(s)
        <4>1. \E st \in {"cooldown", "ready"}, c \in {0, Cooldown} :
                run' = [run EXCEPT ![session[s].sweep] =
                          [Released(session[s].sweep) EXCEPT !.state = st, !.cooling = c]]
          BY <1>5, <3>4 DEF Fail
        <4>. QED
          BY <1>0, <4>1
      <3>. QED
        BY <1>5, <3>1, <3>2, <3>3, <3>4
    <2>2. CASE q # r
      BY <1>0, <2>1, <2>2
    <2>3. CASE q = r
      <3>1. CASE run' = [run EXCEPT ![r].state = "ready"]
        BY <1>0, <2>3, <3>1 DEF RunRecord
      <3>2. CASE run' = [run EXCEPT ![r].reconciliation = "in_progress"]
        BY <1>0, <2>3, <3>2 DEF RunRecord
      <3>3. CASE run' = [run EXCEPT ![r].state = "running", ![r].owner = Name[s],
                                    ![r].lease = Lease, ![r].cooling = 0]
        BY <1>0, <2>3, <3>3 DEF RunRecord
      <3>4. CASE \E st \in {"cooldown", "ready"}, c \in {0, Cooldown} :
                   run' = [run EXCEPT ![r] = [Released(r) EXCEPT !.state = st, !.cooling = c]]
        BY <1>0, <2>3, <3>4 DEF RunRecord, Released
      <3>. QED
        BY <2>1, <3>1, <3>2, <3>3, <3>4
    <2>. QED
      BY <2>2, <2>3
  <1>6. ASSUME NEW s \in Sessions, Record(s)
        PROVE  run[q].state # "absent" => run'[q].state # "absent"
    <2>. DEFINE r == session[s].sweep
    <2>1. /\ r \in Sweeps /\ run[r].state = "running" /\ session[s].cursor = run[r].cursor
      BY <1>0, <1>6 DEF Record, Accepted
    <2>2. CASE run' = [run EXCEPT ![r] = Released(r)]
      BY <1>0, <2>1, <2>2 DEF Released, RunRecord
    <2>3. CASE url[r][session[s].cursor].page /\ run[r].kind # "repair"
      BY <1>6, <2>2, <2>3 DEF Record
    <2>4. CASE ~(url[r][session[s].cursor].page /\ run[r].kind # "repair")
      <3>. DEFINE u == session[s].cursor
                  Choices(links) == Selections(Visited(url[r], u, run[r].kind = "repair", links),
                                            LimitReached(r), u)
      <3>1. \E links \in SUBSET Urls, seen \in [Items -> Sightings] : \E x \in Choices(links) :
              run' = [run EXCEPT ![r] = Advanced(r, u, links, x)]
        BY <1>6, <2>4, Zenon DEF Record
      <3>2. PICK links \in SUBSET Urls : \E x \in Choices(links) :
              run' = [run EXCEPT ![r] = Advanced(r, u, links, x)]
        BY <3>1, Zenon
      <3>3. PICK x \in Choices(links) : run' = [run EXCEPT ![r] = Advanced(r, u, links, x)]
        BY <3>2, Zenon
      <3>4. u = run[r].cursor
        BY <2>1
      <3>. HIDE DEF u, r
      <3>5. Advanced(r, u, links, x).state # "absent"
        BY <2>1, <3>3, <3>4, AdvancedRun DEF IInv
      <3>. QED
        BY <1>0, <2>1, <3>3, <3>5
    <2>. QED
      BY <2>3, <2>4
  <1>. QED
    BY <1>0, <1>1, <1>2, <1>3, <1>4, <1>5, <1>6
    DEF Next, Step, Work, Configure, QueueDue, Crash, vars

(* What a sweep that is alone records, and settles when it ends.           *)
LEMMA RecordKeepsAlone ==
  ASSUME IInv, AllAlone, NEW s \in Sessions, Record(s), NEW q \in Sweeps, Started \subseteq {q}
  PROVE  /\ \A i \in Items : i \in witnessed'[q] <=> item'[i].seen = q
         /\ run'[q].reconciliation = "completed" => Settled(q)'
  <1>. DEFINE u == session[s].cursor
  <1>1. /\ session[s].sweep \in Sweeps /\ run[session[s].sweep].state = "running"
        /\ u = run[session[s].sweep].cursor
    BY DEF Record, Accepted, IInv, Typed, SessionRecord
  <1>2. session[s].sweep = q
    BY <1>1 DEF Started
  <1>3. /\ run \in [Sweeps -> RunRecord] /\ run[q] \in RunRecord
        /\ item \in [Items -> ItemRecord] /\ witnessed \in [Sweeps -> SUBSET Items]
    BY DEF IInv, Typed
  <1>4. /\ \A i \in Items : i \in witnessed[q] <=> item[i].seen = q
        /\ run[q].reconciliation = "completed" => Settled(q)
    BY DEF AllAlone, Alone
  <1>5. CASE run' = [run EXCEPT ![q] = Released(q)] /\ UNCHANGED <<url, item, witnessed>>
    <2>1. run'[q].reconciliation = run[q].reconciliation
      BY <1>3, <1>5 DEF Released, RunRecord
    <2>. QED
      BY <1>4, <1>5, <2>1 DEF Settled
  <1>6. CASE \E links \in SUBSET Urls, seen \in [Items -> Sightings] :
             \E x \in Selections(Visited(url[q], u, run[q].kind = "repair", links),
                                 LimitReached(q), u) :
               /\ run' = [run EXCEPT ![q] = Advanced(q, u, links, x)]
               /\ item' = IF Settles(q, x) THEN Reconciled(Observed(item, q, u, seen), q)
                                           ELSE Observed(item, q, u, seen)
               /\ witnessed' = [witnessed EXCEPT
                    ![q] = @ \cup {i \in Items : seen[i] # "unlisted"}]
    <2>1. PICK links \in SUBSET Urls, seen \in [Items -> Sightings] :
             \E x \in Selections(Visited(url[q], u, run[q].kind = "repair", links),
                                 LimitReached(q), u) :
               /\ run' = [run EXCEPT ![q] = Advanced(q, u, links, x)]
               /\ item' = IF Settles(q, x) THEN Reconciled(Observed(item, q, u, seen), q)
                                           ELSE Observed(item, q, u, seen)
               /\ witnessed' = [witnessed EXCEPT
                    ![q] = @ \cup {i \in Items : seen[i] # "unlisted"}]
      BY <1>6
    <2>2. PICK x \in Selections(Visited(url[q], u, run[q].kind = "repair", links),
                                LimitReached(q), u) :
               /\ run' = [run EXCEPT ![q] = Advanced(q, u, links, x)]
               /\ item' = IF Settles(q, x) THEN Reconciled(Observed(item, q, u, seen), q)
                                           ELSE Observed(item, q, u, seen)
               /\ witnessed' = [witnessed EXCEPT
                    ![q] = @ \cup {i \in Items : seen[i] # "unlisted"}]
      BY <2>1
    <2>. DEFINE O == Observed(item, q, u, seen)
    <2>3. ASSUME NEW i \in Items
          PROVE  /\ seen[i] # "unlisted" => O[i].seen = q /\ O[i].reconciliation = "current"
                 /\ seen[i] = "unlisted" => O[i] = item[i]
                 /\ O[i] \in ItemRecord
      <3>1. O \in [Items -> ItemRecord]
        BY <1>1, <1>2, <1>3, ItemsObserved, <2>1 DEF IInv, Typed, RunRecord
      <3>2. O[i] \in ItemRecord
        BY <3>1
      <3>. QED
        BY <3>2 DEF Observed
    <2>. HIDE DEF O, u
    <2>4. item' = IF Settles(q, x) THEN Reconciled(O, q) ELSE O
      BY <2>2 DEF O
    <2>5. run'[q].reconciliation = IF x.found THEN run[q].reconciliation ELSE "completed"
      BY ZenonT(60), <1>1, <1>2, <1>3, <2>2, AdvancedRun DEF IInv
    <2>6. ASSUME NEW i \in Items
          PROVE  i \in witnessed'[q] <=> seen[i] # "unlisted" \/ i \in witnessed[q]
      BY <1>3, <2>2
    <2>7. ASSUME NEW i \in Items
          PROVE  i \in witnessed'[q] <=> O[i].seen = q
      BY <1>4, <2>3, <2>6
    <2>8. CASE Settles(q, x)
      <3>1. ASSUME NEW i \in Items
            PROVE  /\ item'[i].seen = O[i].seen
                   /\ item'[i].reconciliation # "absent" =>
                        item'[i].reconciliation = IF O[i].seen = q THEN "current" ELSE "stale"
        <4>1. item'[i] = IF O[i].reconciliation = "absent" THEN O[i]
                         ELSE IF O[i].seen = q THEN [O[i] EXCEPT !.reconciliation = "current"]
                         ELSE [O[i] EXCEPT !.reconciliation = "stale", !.state = "review",
                                           !.candidate = FALSE]
          BY <2>4, <2>8 DEF Reconciled
        <4>. QED
          BY <2>3, <4>1 DEF ItemRecord
      <3>. QED
        BY <2>7, <3>1 DEF Settled
    <2>9. CASE ~Settles(q, x)
      <3>1. item' = O
        BY <2>4, <2>9
      <3>2. ASSUME run'[q].reconciliation = "completed"
            PROVE  run[q].reconciliation = "completed"
        BY <2>5, <2>9, <3>2 DEF Settles
      <3>3. ASSUME run'[q].reconciliation = "completed"
            PROVE  Settled(q)'
        BY <1>4, <2>3, <2>6, <3>1, <3>2, <3>3 DEF Settled
      <3>. QED
        BY <2>7, <3>1, <3>3
    <2>. QED
      BY <2>8, <2>9
  <1>. QED
    BY <1>2, <1>5, <1>6 DEF Record

(* Every step keeps what the only sweep has settled.                       *)
LEMMA AloneKept == IInv /\ AllAlone /\ [Next]_vars => AllAlone'
  <1>. SUFFICES ASSUME IInv, AllAlone, [Next]_vars, NEW q \in Sweeps, Started' \subseteq {q}
                PROVE  /\ \A i \in Items : i \in witnessed'[q] <=> item'[i].seen = q
                       /\ run'[q].reconciliation = "completed" => Settled(q)'
    BY DEF AllAlone, Alone
  <1>1. Started \subseteq {q}
    BY RunsGoOn DEF Started
  <1>2. /\ \A i \in Items : i \in witnessed[q] <=> item[i].seen = q
        /\ run[q].reconciliation = "completed" => Settled(q)
    BY <1>1 DEF AllAlone, Alone
  <1>3. CASE \E s \in Sessions : Record(s)
    BY <1>1, <1>3, RecordKeepsAlone
  <1>4. CASE (\A s \in Sessions : ~Record(s)) /\ UNCHANGED <<item, witnessed>>
    <2>1. run'[q].reconciliation = "completed" => run[q].reconciliation = "completed"
      BY <1>4, RunsGoOn
    <2>. QED
      BY <1>2, <1>4, <2>1 DEF Settled
  <1>5. ASSUME NEW s \in Sessions, Prepare(s), ~UNCHANGED <<item, witnessed>>
        PROVE  /\ \A i \in Items : i \in witnessed'[q] <=> item'[i].seen = q
               /\ run'[q].reconciliation # "completed"
    <2>1. /\ session[s].sweep \in Sweeps /\ run[session[s].sweep].state # "absent"
          /\ run \in [Sweeps -> RunRecord] /\ run[q] \in RunRecord
          /\ item \in [Items -> ItemRecord]
      BY <1>5 DEF Prepare, At, IInv, Typed, SessionRecord, ScriptsHaveRuns
    <2>2. session[s].sweep = q
      BY <1>1, <2>1 DEF Started
    <2>3. /\ item' = Reset(item, q) /\ UNCHANGED witnessed
          /\ run' = [run EXCEPT ![q].reconciliation = "in_progress"]
      BY <1>5, <2>2 DEF Prepare
    <2>4. \A i \in Items : item'[i].seen = item[i].seen
      BY <2>1, <2>3 DEF Reset, ItemRecord
    <2>. QED
      BY <1>2, <2>1, <2>3, <2>4 DEF RunRecord
  <1>. QED
    BY <1>3, <1>4, <1>5
    DEF Next, Step, Work, RequestRepairs, Tick, Start, Configure, QueueDue, Claim, Fail, Crash, vars

(* When the sweep that completes is the only one that was ever started,    *)
(* every known item is settled by what this sweep recorded: current if a   *)
(* page of it showed the item, stale otherwise.  (With a second sweep this *)
(* fails: its pages overwrite last_seen_run_id.)                           *)
THEOREM OnlySweepReconciles ==
  Spec => [](\A r \in Sweeps : Started = {r} => CompletedIsReconciled)
  <1>1. Init => AllAlone
    <2>1. ASSUME Init, NEW r \in Sweeps
          PROVE  run[r].reconciliation # "completed" /\ witnessed[r] = {}
      BY <2>1 DEF Init, Unstarted
    <2>2. ASSUME Init, NEW r \in Sweeps, NEW i \in Items
          PROVE  item[i].seen # r
      <3>1. item[i] \in {EarlierItem, NoItem} /\ r # 0
        BY <2>2, BoundsAssumption DEF Init, Sweeps
      <3>. QED
        BY <3>1 DEF EarlierItem, NoItem
    <2>. QED
      BY <2>1, <2>2 DEF AllAlone, Alone
  <1>2. IInv /\ AllAlone => \A r \in Sweeps : Started = {r} => CompletedIsReconciled
    <2>. SUFFICES ASSUME IInv, AllAlone, NEW r \in Sweeps, Started = {r},
                         run[Latest].state = "completed"
                  PROVE  \A i \in Items : item[i].reconciliation # "absent" =>
                           item[i].reconciliation =
                             IF i \in witnessed[Latest] THEN "current" ELSE "stale"
      BY DEF CompletedIsReconciled
    <2>1. Latest = r
      <3>1. r \in Started /\ \A p \in Started : p <= r
        BY DEF Sweeps
      <3>. QED
        BY <3>1 DEF Latest
    <2>2. run[r].reconciliation = "completed"
      BY <2>1 DEF IInv, Queues, RunOK
    <2>. QED
      BY <2>1, <2>2 DEF AllAlone, Alone, Settled
  <1>. QED
    BY <1>1, <1>2, AloneKept, Invariant, PTL DEF Spec

-----------------------------------------------------------------------------
(* The contract of a sweep.  Beyond the invariant above it needs that a    *)
(* visited page has been recorded, that a repair is of a known page, and   *)
(* that a frontier cursor is within the page limit.                        *)

Exact(R) ==
  \A u \in Urls : /\ R[u].state = "visited" => R[u].page
                  /\ R[u].repair => R[u].state # "none"

Spare(x) == x.state # "completed" /\ x.kind = "frontier" => x.pages < MaxPages

Tight == \A r \in Sweeps : Exact(url[r]) /\ Spare(run[r])

(* Selecting the next page adds and settles nothing.  It finds a repair if *)
(* one is owed, and a new page only within the limit.                      *)
LEMMA SelectedRows ==
  ASSUME NEW R \in [Urls -> UrlRecord], Exact(R), NEW limit \in BOOLEAN, NEW here,
         NEW x \in Selections(R, limit, here)
  PROVE  /\ Exact(x.rows) /\ Known(x.rows) = Known(R)
         /\ Fetched(x.rows) = Fetched(R) /\ Repairs(x.rows) = Repairs(R)
         /\ x.found => (Repairs(R) = {} => x.kind = "frontier") /\ (x.kind = "frontier" => ~limit)
         /\ Repairs(R) # {} => x.kind = "repair"
         /\ x.found <=> Repairs(R) # {} \/ (~limit /\ Rows(R, "queued") # {})
  <1>1. CASE Repairs(R) # {}
    <2>1. PICK u \in Repairs(R) :
            x = [cursor |-> u, kind |-> "repair", rows |-> R, found |-> TRUE]
      BY <1>1 DEF Selections
    <2>2. x.kind = "repair" /\ x.rows = R /\ x.found = TRUE
      BY <2>1
    <2>. QED
      BY <1>1, <2>2
  <1>2. CASE Repairs(R) = {} /\ ~limit /\ Rows(R, "queued") # {}
    <2>1. PICK u \in Rows(R, "queued") :
            x = [cursor |-> u, kind |-> "frontier", found |-> TRUE,
                 rows |-> [R EXCEPT ![u].state = "active"]]
      BY <1>2 DEF Selections
    <2>. DEFINE new == [R EXCEPT ![u].state = "active"]
    <2>2. u \in Urls /\ R[u].state = "queued"
      BY DEF Rows
    <2>3. \A v \in Urls :
             /\ new[v].page = R[v].page /\ new[v].repair = R[v].repair
             /\ new[v].state = IF v = u THEN "active" ELSE R[v].state
      BY <2>2 DEF UrlRecord
    <2>. HIDE DEF new
    <2>4. Exact(new) /\ Known(new) = Known(R) /\ Fetched(new) = Fetched(R)
            /\ Repairs(new) = Repairs(R)
      BY <2>2, <2>3 DEF Exact, Known, Fetched, Repairs
    <2>5. x.kind = "frontier" /\ x.found = TRUE /\ x.rows = new
      BY <2>1 DEF new
    <2>. QED
      BY <1>2, <2>4, <2>5
  <1>3. CASE Repairs(R) = {} /\ ~(~limit /\ Rows(R, "queued") # {})
    <2>1. x = [cursor |-> here, kind |-> "frontier", rows |-> R, found |-> FALSE]
      BY <1>3 DEF Selections
    <2>2. x.kind = "frontier" /\ x.rows = R /\ x.found = FALSE
      BY <2>1
    <2>. QED
      BY <1>3, <2>2
  <1>. QED
    BY <1>1, <1>2, <1>3

(* Requested repairs are owed, and their pages known.                      *)
LEMMA AskedRows ==
  ASSUME NEW R, RowsOK(R), Exact(R), NEW us \in SUBSET Urls
  PROVE  LET D == Deferred(Requested(R, us))
         IN  /\ Exact(D) /\ Known(D) = Known(R) \cup us
             /\ Fetched(D) = Fetched(R) /\ Repairs(D) = Repairs(R) \cup us
  <1>. DEFINE Q == Requested(R, us)
              D == Deferred(Q)
  <1>1. ASSUME NEW u \in Urls
        PROVE  /\ Q[u] \in UrlRecord /\ Q[u].page = R[u].page
               /\ Q[u].repair <=> R[u].repair \/ u \in us
               /\ Q[u].state # "none" <=> R[u].state # "none" \/ u \in us
               /\ Q[u].state = "visited" => Q[u].page
    <2>1. R[u] \in UrlRecord /\ (R[u].state = "visited" => R[u].page)
      BY DEF RowsOK, Exact
    <2>2. CASE u \notin us
      BY <2>1, <2>2 DEF Requested
    <2>3. CASE u \in us
      <3>. DEFINE st == IF R[u].state # "none" THEN R[u].state
                        ELSE IF R[u].page THEN "visited" ELSE "queued"
      <3>1. Q[u] = [R[u] EXCEPT !.repair = TRUE, !.state = st]
        BY <2>3 DEF Requested
      <3>2. /\ st \in {"queued", "active", "visited"} /\ st # "none"
            /\ st = "visited" => R[u].page
        BY <2>1 DEF UrlRecord
      <3>. HIDE DEF Q, st
      <3>. QED
        BY <2>1, <2>3, <3>1, <3>2 DEF UrlRecord
    <2>. QED
      BY <2>2, <2>3
  <1>. HIDE DEF Q
  <1>2. ASSUME NEW u \in Urls
        PROVE  /\ D[u].page = Q[u].page /\ D[u].repair = Q[u].repair
               /\ D[u].state # "none" <=> Q[u].state # "none"
               /\ D[u].state = "visited" <=> Q[u].state = "visited"
    <2>1. D[u] = IF Q[u].state = "active" THEN [Q[u] EXCEPT !.state = "queued"] ELSE Q[u]
      BY DEF Deferred
    <2>. HIDE DEF D
    <2>. QED
      BY <1>1, <2>1 DEF UrlRecord
  <1>. HIDE DEF D
  <1>3. Exact(D)
    BY <1>1, <1>2 DEF Exact
  <1>4. Known(D) = Known(R) \cup us /\ Fetched(D) = Fetched(R) /\ Repairs(D) = Repairs(R) \cup us
    BY <1>1, <1>2 DEF Known, Fetched, Repairs
  <1>. QED
    BY <1>3, <1>4 DEF D, Q

(* A recorded page is fetched, its links are known, and its repair is      *)
(* settled if that was what it was fetched for.                            *)
LEMMA FetchedRows ==
  ASSUME NEW R, RowsOK(R), Exact(R), NEW u \in Urls, NEW repairing \in BOOLEAN,
         NEW links \in SUBSET Urls
  PROVE  LET V == Visited(R, u, repairing, links)
         IN  /\ Exact(V) /\ Known(V) = Known(R) \cup links \cup {u}
             /\ Fetched(V) = Fetched(R) \cup {u}
             /\ Repairs(V) = IF repairing THEN Repairs(R) \ {u} ELSE Repairs(R)
  <1>. DEFINE V == Visited(R, u, repairing, links)
  <1>1. ASSUME NEW v \in Urls
        PROVE  /\ V[v].state = "visited" => V[v].page
               /\ V[v].repair <=> R[v].repair /\ ~(v = u /\ repairing)
               /\ V[v].page <=> R[v].page \/ v = u
               /\ V[v].state # "none" <=> R[v].state # "none" \/ v \in links \/ v = u
    <2>1. R[v] \in UrlRecord /\ (R[v].state = "visited" => R[v].page)
      BY DEF RowsOK, Exact
    <2>2. CASE v = u
      <3>. DEFINE owed == R[u].repair /\ ~repairing
      <3>1. V[v] = [state |-> "visited", page |-> TRUE, repair |-> owed]
        BY <2>2 DEF Visited
      <3>. HIDE DEF V
      <3>2. V[v].state = "visited" /\ V[v].page = TRUE /\ V[v].repair = owed
        <4>. HIDE DEF owed
        <4>. QED
          BY <3>1
      <3>3. V[v].repair <=> R[v].repair /\ ~(v = u /\ repairing)
        BY <2>2, <3>2, Zenon
      <3>. HIDE DEF owed
      <3>. QED
        BY <2>2, <3>2, <3>3
    <2>3. CASE v # u
      <3>1. V[v] = IF v \in links /\ R[v].state = "none" THEN [R[v] EXCEPT !.state = "queued"]
                   ELSE R[v]
        BY <2>3 DEF Visited
      <3>. HIDE DEF V
      <3>. QED
        BY <2>1, <2>3, <3>1 DEF UrlRecord
    <2>. QED
      BY <2>2, <2>3
  <1>. HIDE DEF V
  <1>2. Exact(V)
    <2>1. \A v \in Urls : R[v].repair => R[v].state # "none"
      BY DEF Exact
    <2>. QED
      BY <1>1, <2>1 DEF Exact
  <1>3. Known(V) = Known(R) \cup links \cup {u} /\ Fetched(V) = Fetched(R) \cup {u}
    BY <1>1 DEF Known, Fetched
  <1>4. Repairs(V) = IF repairing THEN Repairs(R) \ {u} ELSE Repairs(R)
    BY <1>1 DEF Repairs
  <1>. QED
    BY <1>2, <1>3, <1>4 DEF V

(* Where no row is active, nothing is queued when all known pages are      *)
(* fetched.                                                                *)
LEMMA NothingQueued ==
  ASSUME NEW R, RowsOK(R), Exact(R), Rows(R, "active") = {}
  PROVE  Rows(R, "queued") = {} <=> Known(R) \subseteq Fetched(R)
  <1>1. \A u \in Urls : /\ R[u].state \in {"none", "queued", "active", "visited"}
                        /\ R[u].page <=> R[u].state = "visited"
                        /\ R[u].state # "active"
    BY DEF RowsOK, Exact, UrlRecord, Rows
  <1>. QED
    BY <1>1 DEF Rows, Known, Fetched

(* What a script or a timer does to a run without a page: the sweep is     *)
(* where it was, and whoever holds it keeps or loses it.                   *)
Follows == [Contract!Next]_(Contract!vars)

HeldBy(x) == IF x.owner # NoName /\ x.lease > 0 THEN x.owner ELSE NoName

Stays(x, y) == Stage(y) = Stage(x) /\ y.pages = x.pages /\ y.kind = x.kind

(* Sweeps that stay where they are satisfy the contract, and the invariant *)
(* it needs.                                                               *)
LEMMA DropFollows ==
  ASSUME Tight, UNCHANGED url,
         \A r \in Sweeps : /\ Stays(run[r], run'[r])
                           /\ HeldBy(run'[r]) \in {HeldBy(run[r]), NoName}
  PROVE  Tight' /\ Follows
  <1>1. Tight'
    <2>1. ASSUME NEW r \in Sweeps
          PROVE  Exact(url'[r]) /\ Spare(run'[r])
      <3>1. Exact(url[r]) /\ Spare(run[r]) /\ Stays(run[r], run'[r])
        BY DEF Tight
      <3>. QED
        BY <3>1 DEF Spare, Stays, Stage
    <2>. QED
      BY <2>1 DEF Tight
  <1>. DEFINE S == {r \in Sweeps : HeldBy(run'[r]) = NoName}
  <1>2. /\ StageOf' = StageOf /\ KnownOf' = KnownOf /\ FetchedOf' = FetchedOf
        /\ OwedOf' = OwedOf /\ SpentOf' = SpentOf
    BY DEF StageOf, KnownOf, FetchedOf, OwedOf, SpentOf, Stays
  <1>3. HeldOf' = [r \in Sweeps |-> IF r \in S THEN NoName ELSE HeldOf[r]]
    <2>1. /\ HeldOf = [r \in Sweeps |-> HeldBy(run[r])]
          /\ HeldOf' = [r \in Sweeps |-> HeldBy(run'[r])]
      BY DEF HeldOf, HeldBy, Busy
    <2>. QED
      BY <2>1
  <1>4. Contract!Drop(S)
    BY <1>2, <1>3 DEF Contract!Drop
  <1>5. Contract!Next
    <2>1. S \in SUBSET Sweeps
      OBVIOUS
    <2>. HIDE DEF S
    <2>. QED
      BY <1>4, <2>1, Zenon DEF Contract!Next
  <1>. QED
    BY <1>1, <1>5 DEF Follows

(* One run that changes, seen through the contract.                        *)
LEMMA MappedRun ==
  ASSUME Typed, NEW r \in Sweeps, NEW x, NEW R,
         run' = [run EXCEPT ![r] = x], url' = [url EXCEPT ![r] = R]
  PROVE  /\ StageOf' = [StageOf EXCEPT ![r] = Stage(x)]
         /\ KnownOf' = [KnownOf EXCEPT ![r] = Known(R)]
         /\ FetchedOf' = [FetchedOf EXCEPT ![r] = Fetched(R)]
         /\ OwedOf' = [OwedOf EXCEPT ![r] = Repairs(R)]
         /\ SpentOf' = [SpentOf EXCEPT ![r] = x.pages]
         /\ HeldOf' = [HeldOf EXCEPT ![r] = HeldBy(x)]
         /\ Tight /\ Exact(R) /\ Spare(x) => Tight'
  <1>1. \A q \in Sweeps : /\ run'[q] = IF q = r THEN x ELSE run[q]
                          /\ url'[q] = IF q = r THEN R ELSE url[q]
    BY DEF Typed
  <1>2. StageOf' = [StageOf EXCEPT ![r] = Stage(x)]
    <2>1. /\ StageOf = [q \in Sweeps |-> Stage(run[q])]
          /\ StageOf' = [q \in Sweeps |-> Stage(run'[q])]
      BY DEF StageOf
    <2>. QED
      BY <1>1, <2>1
  <1>3. KnownOf' = [KnownOf EXCEPT ![r] = Known(R)]
    <2>1. /\ KnownOf = [q \in Sweeps |-> Known(url[q])]
          /\ KnownOf' = [q \in Sweeps |-> Known(url'[q])]
      BY DEF KnownOf
    <2>. QED
      BY <1>1, <2>1
  <1>4. FetchedOf' = [FetchedOf EXCEPT ![r] = Fetched(R)]
    <2>1. /\ FetchedOf = [q \in Sweeps |-> Fetched(url[q])]
          /\ FetchedOf' = [q \in Sweeps |-> Fetched(url'[q])]
      BY DEF FetchedOf
    <2>. QED
      BY <1>1, <2>1
  <1>5. OwedOf' = [OwedOf EXCEPT ![r] = Repairs(R)]
    <2>1. /\ OwedOf = [q \in Sweeps |-> Repairs(url[q])]
          /\ OwedOf' = [q \in Sweeps |-> Repairs(url'[q])]
      BY DEF OwedOf
    <2>. QED
      BY <1>1, <2>1
  <1>6. SpentOf' = [SpentOf EXCEPT ![r] = x.pages]
    <2>1. /\ SpentOf = [q \in Sweeps |-> run[q].pages]
          /\ SpentOf' = [q \in Sweeps |-> run'[q].pages]
      BY DEF SpentOf
    <2>. QED
      BY <1>1, <2>1
  <1>7. HeldOf' = [HeldOf EXCEPT ![r] = HeldBy(x)]
    <2>1. /\ HeldOf = [q \in Sweeps |-> HeldBy(run[q])]
          /\ HeldOf' = [q \in Sweeps |-> HeldBy(run'[q])]
      BY DEF HeldOf, HeldBy, Busy
    <2>. QED
      BY <1>1, <2>1
  <1>8. Tight /\ Exact(R) /\ Spare(x) => Tight'
    BY <1>1 DEF Tight
  <1>. QED
    BY <1>2, <1>3, <1>4, <1>5, <1>6, <1>7, <1>8

(* What a sweep is before a step.                                          *)
LEMMA MappedNow ==
  ASSUME NEW r \in Sweeps
  PROVE  /\ StageOf[r] = Stage(run[r]) /\ KnownOf[r] = Known(url[r])
         /\ FetchedOf[r] = Fetched(url[r]) /\ OwedOf[r] = Repairs(url[r])
         /\ SpentOf[r] = run[r].pages /\ HeldOf[r] = HeldBy(run[r])
         /\ StageOf = [StageOf EXCEPT ![r] = Stage(run[r])]
         /\ FetchedOf = [FetchedOf EXCEPT ![r] = Fetched(url[r])]
         /\ KnownOf = [KnownOf EXCEPT ![r] = Known(url[r])]
         /\ OwedOf = [OwedOf EXCEPT ![r] = Repairs(url[r])]
         /\ SpentOf = [SpentOf EXCEPT ![r] = run[r].pages]
         /\ HeldOf = [HeldOf EXCEPT ![r] = HeldBy(run[r])]
  BY DEF StageOf, KnownOf, FetchedOf, OwedOf, SpentOf, HeldOf, HeldBy, Busy

(* A started run is an open sweep that knows its seed.                     *)
LEMMA StartFollows ==
  ASSUME IInv, Tight, NEW s \in Sessions, Start(s)
  PROVE  Tight' /\ Follows
  <1>1. PICK r \in Sweeps :
          IF run[r].state = "absent"
            THEN /\ run' = [run EXCEPT ![r].state = "ready"]
                 /\ url' = [url EXCEPT ![r][Seed] = Active]
            ELSE UNCHANGED <<run, url>>
    BY DEF Start
  <1>2. CASE run[r].state # "absent"
    BY <1>1, <1>2, DropFollows DEF Stays
  <1>3. CASE run[r].state = "absent"
    <2>. DEFINE x == [run[r] EXCEPT !.state = "ready"]
                R == [url[r] EXCEPT ![Seed] = Active]
    <2>1. /\ run[r] \in RunRecord /\ url[r] \in [Urls -> UrlRecord]
          /\ \A u \in Urls : url[r][u] = NoRow
          /\ Exact(url[r]) /\ Spare(run[r]) /\ Seed \in Urls
      BY <1>3, PortalAssumption DEF IInv, Typed, Queues, RunOK, Tight
    <2>2. /\ x.state = "ready" /\ x.kind = run[r].kind /\ x.pages = run[r].pages
          /\ x.owner = run[r].owner /\ x.lease = run[r].lease
      BY <2>1 DEF RunRecord
    <2>3. \A u \in Urls : R[u] = IF u = Seed THEN Active ELSE NoRow
      BY <2>1
    <2>4. run' = [run EXCEPT ![r] = x] /\ url' = [url EXCEPT ![r] = R]
      BY <1>1, <1>3 DEF IInv, Typed
    <2>. HIDE DEF x, R
    <2>5. \A u \in Urls : /\ R[u].state = IF u = Seed THEN "active" ELSE "none"
                          /\ R[u].page = FALSE /\ R[u].repair = FALSE
                          /\ url[r][u].page = FALSE /\ url[r][u].repair = FALSE
      BY <2>1, <2>3 DEF Active, NoRow
    <2>6. /\ Exact(R) /\ Known(R) = {Seed} /\ Fetched(R) = Fetched(url[r])
          /\ Repairs(R) = Repairs(url[r])
      BY <2>1, <2>5 DEF Exact, Known, Fetched, Repairs
    <2>7. Spare(x)
      BY <1>3, <2>1, <2>2 DEF Spare
    <2>8. /\ StageOf' = [StageOf EXCEPT ![r] = "open"]
          /\ KnownOf' = [KnownOf EXCEPT ![r] = {Seed}]
          /\ UNCHANGED <<FetchedOf, OwedOf, SpentOf, HeldOf>>
          /\ Tight'
      <3>1. Stage(x) = "open" /\ HeldBy(x) = HeldBy(run[r])
        BY <2>2 DEF Stage, HeldBy
      <3>2. /\ StageOf' = [StageOf EXCEPT ![r] = Stage(x)]
            /\ KnownOf' = [KnownOf EXCEPT ![r] = Known(R)]
            /\ FetchedOf' = [FetchedOf EXCEPT ![r] = Fetched(R)]
            /\ OwedOf' = [OwedOf EXCEPT ![r] = Repairs(R)]
            /\ SpentOf' = [SpentOf EXCEPT ![r] = x.pages]
            /\ HeldOf' = [HeldOf EXCEPT ![r] = HeldBy(x)]
            /\ Tight /\ Exact(R) /\ Spare(x) => Tight'
        BY <2>4, MappedRun DEF IInv
      <3>3. UNCHANGED <<FetchedOf, OwedOf, SpentOf, HeldOf>>
        BY <2>2, <2>6, <3>1, <3>2, MappedNow
      <3>. QED
        BY <2>6, <2>7, <3>1, <3>2, <3>3
    <2>9. StageOf[r] = "absent"
      BY <1>3 DEF StageOf, Stage
    <2>10. Contract!Open(r)
      BY <2>8, <2>9 DEF Contract!Open
    <2>11. Contract!Next
      BY <2>10, Zenon DEF Contract!Next
    <2>. QED
      BY <2>8, <2>11 DEF Follows
  <1>. QED
    BY <1>2, <1>3

(* Repairs that are queued are owed, and open the sweep.                   *)
LEMMA AskFollows ==
  ASSUME IInv, Tight, NEW r \in Sweeps, run[r].state # "absent", ~Busy(r),
         NEW us \in SUBSET Urls, us # {}, QueueRepairs(r, us)
  PROVE  Tight' /\ Follows
  <1>. DEFINE R == url[r]
              D == Deferred(Requested(R, us))
              fresh == {u \in us : R[u].state = "none"}
              a == run[r].queued + Cardinality({u \in fresh : ~R[u].page})
              b == run[r].visited + Cardinality({u \in fresh : R[u].page})
              c == run[r].repairs + RepairsCounted(R, us)
  <1>1. PICK x \in Selections(D, FALSE, run[r].cursor) :
          /\ url' = [url EXCEPT ![r] = x.rows]
          /\ run' = [run EXCEPT ![r].state = "ready", ![r].cursor = x.cursor, ![r].kind = x.kind,
                                ![r].queued = a, ![r].visited = b, ![r].repairs = c]
    BY DEF QueueRepairs, IInv, Typed
  <1>. HIDE DEF a, b, c
  <1>2. /\ run[r] \in RunRecord /\ RowsOK(R) /\ Exact(R)
        /\ Known(R) = KnownOf[r] /\ Fetched(R) = FetchedOf[r] /\ Repairs(R) = OwedOf[r]
    BY MappedNow DEF IInv, Typed, Queues, Tight
  <1>. HIDE DEF R
  <1>3. /\ Exact(D) /\ Known(D) = KnownOf[r] \cup us
        /\ Fetched(D) = FetchedOf[r] /\ Repairs(D) = OwedOf[r] \cup us
    BY <1>2, AskedRows
  <1>4. D \in [Urls -> UrlRecord]
    BY <1>2, RequestedRows DEF RowsOK
  <1>. HIDE DEF D
  <1>5. /\ Exact(x.rows) /\ Known(x.rows) = KnownOf[r] \cup us
        /\ Fetched(x.rows) = FetchedOf[r] /\ Repairs(x.rows) = OwedOf[r] \cup us
        /\ x.kind = "repair"
    <2>1. x \in Selections(D, FALSE, run[r].cursor) /\ Repairs(D) # {}
      BY <1>1, <1>3
    <2>2. /\ Exact(x.rows) /\ Known(x.rows) = Known(D) /\ Fetched(x.rows) = Fetched(D)
          /\ Repairs(x.rows) = Repairs(D) /\ x.kind = "repair"
      BY <1>3, <1>4, <2>1, SelectedRows
    <2>. QED
      BY <1>3, <2>2
  <1>. DEFINE cur == x.cursor
              kind == x.kind
              new == [run[r] EXCEPT !.state = "ready", !.cursor = cur, !.kind = kind,
                                    !.queued = a, !.visited = b, !.repairs = c]
  <1>6. run' = [run EXCEPT ![r] = new]
    BY <1>1 DEF IInv, Typed
  <1>. HIDE DEF cur, kind
  <1>7. /\ new.state = "ready" /\ new.kind = kind /\ new.pages = run[r].pages
        /\ new.owner = run[r].owner /\ new.lease = run[r].lease
    BY <1>2 DEF RunRecord
  <1>. HIDE DEF new
  <1>8. Spare(new) /\ Stage(new) = "open" /\ HeldBy(new) = HeldOf[r] /\ new.pages = SpentOf[r]
    BY <1>5, <1>7, MappedNow DEF kind, Spare, Stage, HeldBy
  <1>9. /\ StageOf' = [StageOf EXCEPT ![r] = "open"]
        /\ KnownOf' = [KnownOf EXCEPT ![r] = @ \cup us]
        /\ OwedOf' = [OwedOf EXCEPT ![r] = @ \cup us]
        /\ UNCHANGED <<FetchedOf, SpentOf, HeldOf>>
        /\ Tight'
    <2>1. /\ StageOf' = [StageOf EXCEPT ![r] = "open"]
          /\ KnownOf' = [KnownOf EXCEPT ![r] = KnownOf[r] \cup us]
          /\ OwedOf' = [OwedOf EXCEPT ![r] = OwedOf[r] \cup us]
          /\ FetchedOf' = [FetchedOf EXCEPT ![r] = FetchedOf[r]]
          /\ SpentOf' = [SpentOf EXCEPT ![r] = SpentOf[r]]
          /\ HeldOf' = [HeldOf EXCEPT ![r] = HeldOf[r]]
          /\ Tight'
      <3>1. url' = [url EXCEPT ![r] = x.rows]
        BY <1>1
      <3>2. /\ StageOf' = [StageOf EXCEPT ![r] = Stage(new)]
            /\ KnownOf' = [KnownOf EXCEPT ![r] = Known(x.rows)]
            /\ FetchedOf' = [FetchedOf EXCEPT ![r] = Fetched(x.rows)]
            /\ OwedOf' = [OwedOf EXCEPT ![r] = Repairs(x.rows)]
            /\ SpentOf' = [SpentOf EXCEPT ![r] = new.pages]
            /\ HeldOf' = [HeldOf EXCEPT ![r] = HeldBy(new)]
            /\ Tight /\ Exact(x.rows) /\ Spare(new) => Tight'
        BY <1>6, <3>1, MappedRun DEF IInv
      <3>. QED
        BY <1>5, <1>8, <3>2
    <2>2. /\ FetchedOf = [FetchedOf EXCEPT ![r] = FetchedOf[r]]
          /\ SpentOf = [SpentOf EXCEPT ![r] = SpentOf[r]]
          /\ HeldOf = [HeldOf EXCEPT ![r] = HeldOf[r]]
      BY DEF FetchedOf, SpentOf, HeldOf
    <2>. QED
      BY <2>1, <2>2
  <1>10. StageOf[r] # "absent" /\ HeldOf[r] = NoName
    BY MappedNow DEF Stage, HeldBy, Busy
  <1>11. Contract!Ask(r, us)
    BY <1>9, <1>10 DEF Contract!Ask
  <1>12. Contract!Next
    BY <1>11, Zenon DEF Contract!Next
  <1>. QED
    BY <1>9, <1>12 DEF Follows

(* One run that changes without a page.                                    *)
LEMMA RunStays ==
  ASSUME IInv, Tight, UNCHANGED url, NEW r \in Sweeps, NEW x, Stays(run[r], x),
         HeldBy(x) \in {HeldBy(run[r]), NoName}, run' = [run EXCEPT ![r] = x]
  PROVE  Tight' /\ Follows
  <1>1. \A q \in Sweeps : /\ Stays(run[q], run'[q])
                          /\ HeldBy(run'[q]) \in {HeldBy(run[q]), NoName}
    BY DEF IInv, Typed, Stays
  <1>. QED
    BY <1>1, DropFollows

(* A granted claim takes the sweep, a refused one leaves it.               *)
LEMMA ClaimFollows ==
  ASSUME IInv, Tight, NEW s \in Sessions, Claim(s)
  PROVE  Tight' /\ Follows
  <1>. DEFINE r == session[s].sweep
              x == [run[r] EXCEPT !.state = "running", !.owner = Name[s], !.lease = Lease,
                                  !.cooling = 0]
  <1>1. /\ r \in Sweeps /\ run[r] \in RunRecord /\ run[r].state # "absent"
        /\ Name[s] \in Names /\ Name[s] # NoName
    BY SessionsAssumption
    DEF Claim, At, IInv, Typed, SessionRecord, ScriptsHaveRuns, Names
  <1>2. CASE UNCHANGED run
    BY <1>2, DropFollows DEF Claim, Stays
  <1>3. CASE /\ Claimable(r, Name[s])
             /\ run' = [run EXCEPT ![r].state = "running", ![r].owner = Name[s],
                                   ![r].lease = Lease, ![r].cooling = 0]
    <2>1. run' = [run EXCEPT ![r] = x] /\ url' = [url EXCEPT ![r] = url[r]]
      BY <1>3 DEF Claim, IInv, Typed
    <2>2. /\ x.state = "running" /\ x.owner = Name[s] /\ x.lease = Lease
          /\ x.kind = run[r].kind /\ x.pages = run[r].pages
      BY <1>1 DEF RunRecord
    <2>3. /\ run[r].state # "completed" /\ HeldBy(run[r]) \in {NoName, Name[s]}
      BY <1>3 DEF Claimable, HeldBy, Busy
    <2>. HIDE DEF x, r
    <2>4. /\ Exact(url[r]) /\ Spare(run[r])
      BY <1>1 DEF Tight
    <2>5. Stage(x) = "open" /\ Stage(run[r]) = "open" /\ HeldBy(x) = Name[s] /\ Spare(x)
      BY <1>1, <2>2, <2>3, <2>4, BoundsAssumption DEF Stage, HeldBy, Spare
    <2>6. /\ StageOf' = [StageOf EXCEPT ![r] = Stage(x)]
          /\ KnownOf' = [KnownOf EXCEPT ![r] = Known(url[r])]
          /\ FetchedOf' = [FetchedOf EXCEPT ![r] = Fetched(url[r])]
          /\ OwedOf' = [OwedOf EXCEPT ![r] = Repairs(url[r])]
          /\ SpentOf' = [SpentOf EXCEPT ![r] = x.pages]
          /\ HeldOf' = [HeldOf EXCEPT ![r] = HeldBy(x)]
          /\ Tight /\ Exact(url[r]) /\ Spare(x) => Tight'
      BY <1>1, <2>1, MappedRun DEF IInv
    <2>7. /\ UNCHANGED <<StageOf, KnownOf, FetchedOf, OwedOf, SpentOf>>
          /\ HeldOf' = [HeldOf EXCEPT ![r] = Name[s]] /\ Tight'
      BY <1>1, <2>2, <2>4, <2>5, <2>6, MappedNow
    <2>8. StageOf[r] = "open" /\ HeldOf[r] \in {NoName, Name[s]}
      BY <1>1, <2>3, <2>5, MappedNow
    <2>9. Contract!Take(r, Name[s])
      BY <2>7, <2>8 DEF Contract!Take
    <2>10. Contract!Next
      BY <1>1, <2>9, Zenon DEF Contract!Next
    <2>. QED
      BY <2>7, <2>10 DEF Follows
  <1>. QED
    BY <1>2, <1>3 DEF Claim

(* A failure ends the claim of the script that reports it, and no other.   *)
LEMMA FailFollows ==
  ASSUME IInv, Tight, NEW s \in Sessions, Fail(s)
  PROVE  Tight' /\ Follows
  <1>. DEFINE r == session[s].sweep
  <1>1. /\ r \in Sweeps /\ run[r] \in RunRecord /\ run[r].state # "absent" /\ Name[s] # NoName
        /\ RunOK(run[r], url[r])
    BY SessionsAssumption DEF Fail, IInv, Typed, SessionRecord, ScriptsHaveRuns, Queues
  <1>2. CASE UNCHANGED run
    BY <1>2, DropFollows DEF Fail, Stays
  <1>3. CASE ~UNCHANGED run
    <2>1. run[r].owner # NoName
      BY <1>1, <1>3 DEF Fail, MayFail
    <2>2. PICK st \in {"cooldown", "ready"}, c \in {0, Cooldown} :
            run' = [run EXCEPT ![r] = [Released(r) EXCEPT !.state = st, !.cooling = c]]
      BY <1>3 DEF Fail
    <2>. DEFINE x == [Released(r) EXCEPT !.state = st, !.cooling = c]
    <2>3. /\ x.state = st /\ x.owner = NoName /\ x.kind = run[r].kind
          /\ x.pages = run[r].pages
      BY <1>1 DEF Released, RunRecord
    <2>4. run' = [run EXCEPT ![r] = x] /\ UNCHANGED url
      BY <2>2 DEF Fail
    <2>. HIDE DEF x, r
    <2>5. run[r].state \notin {"absent", "completed"}
      BY <1>1, <2>1 DEF RunOK
    <2>6. Stays(run[r], x) /\ HeldBy(x) = NoName
      BY <2>3, <2>5 DEF Stays, Stage, HeldBy
    <2>. QED
      BY <1>1, <2>4, <2>6, RunStays
  <1>. QED
    BY <1>2, <1>3

(* The clock takes sweeps from workers that are too slow.                  *)
LEMMA TickFollows ==
  ASSUME IInv, Tight, Tick
  PROVE  Tight' /\ Follows
  <1>1. ASSUME NEW r \in Sweeps
        PROVE  /\ Stays(run[r], run'[r])
               /\ HeldBy(run'[r]) \in {HeldBy(run[r]), NoName}
    <2>. DEFINE l == Down(run[r].lease)
                c == Down(run[r].cooling)
    <2>1. run[r] \in RunRecord /\ (l > 0 => run[r].lease > 0)
      BY DEF IInv, Typed, RunRecord, Down
    <2>2. run'[r] = [run[r] EXCEPT !.lease = l, !.cooling = c]
      BY DEF Tick
    <2>. HIDE DEF l, c
    <2>3. /\ run'[r].state = run[r].state /\ run'[r].pages = run[r].pages
          /\ run'[r].kind = run[r].kind /\ run'[r].owner = run[r].owner /\ run'[r].lease = l
      BY <2>1, <2>2 DEF RunRecord
    <2>. QED
      BY <2>1, <2>3 DEF Stays, Stage, HeldBy
  <1>. QED
    BY <1>1, DropFollows DEF Tick

(* The reconciliation of a sweep's items leaves the sweep alone.           *)
LEMMA PrepareFollows ==
  ASSUME IInv, Tight, NEW s \in Sessions, Prepare(s)
  PROVE  Tight' /\ Follows
  <1>. DEFINE r == session[s].sweep
              x == [run[r] EXCEPT !.reconciliation = "in_progress"]
  <1>1. r \in Sweeps /\ run[r] \in RunRecord
    BY DEF IInv, Typed, SessionRecord
  <1>2. CASE UNCHANGED run
    BY <1>2, DropFollows DEF Prepare, Stays
  <1>3. CASE run' = [run EXCEPT ![r].reconciliation = "in_progress"]
    <2>1. run' = [run EXCEPT ![r] = x] /\ UNCHANGED url
      BY <1>3 DEF Prepare, IInv, Typed
    <2>2. /\ x.state = run[r].state /\ x.pages = run[r].pages /\ x.kind = run[r].kind
          /\ x.owner = run[r].owner /\ x.lease = run[r].lease
      BY <1>1 DEF RunRecord
    <2>. HIDE DEF x, r
    <2>3. Stays(run[r], x) /\ HeldBy(x) = HeldBy(run[r])
      BY <2>2 DEF Stays, Stage, HeldBy
    <2>. QED
      BY <1>1, <2>1, <2>3, RunStays
  <1>. QED
    BY <1>2, <1>3 DEF Prepare

(* A recorded page is a page fetched: for a repair that was owed, or for   *)
(* the first time and within the limit.  The sweep is completed exactly    *)
(* when nothing is left to fetch.                                          *)
LEMMA PageFollows ==
  ASSUME IInv, Tight, NEW r \in Sweeps, run[r].state = "running",
         NEW links \in SUBSET Urls,
         NEW x \in Selections(Visited(url[r], run[r].cursor, run[r].kind = "repair", links),
                              LimitReached(r), run[r].cursor),
         run' = [run EXCEPT ![r] = Advanced(r, run[r].cursor, links, x)],
         url' = [url EXCEPT ![r] = x.rows]
  PROVE  Tight' /\ Follows
  <1>. DEFINE u == run[r].cursor
              R == url[r]
              repairing == run[r].kind = "repair"
              V == Visited(R, u, repairing, links)
              limit == LimitReached(r)
              new == Advanced(r, u, links, x)
              spent == run[r].pages + One(run[r].kind = "frontier")
  <1>1. /\ run[r] \in RunRecord /\ RowsOK(R) /\ RunOK(run[r], R) /\ Exact(R) /\ Spare(run[r])
        /\ u \in Urls /\ run[r].kind \in {"frontier", "repair"} /\ run[r].pages \in Nat
        /\ MaxPages \in Nat
    BY BoundsAssumption DEF IInv, Typed, Queues, RunRecord, Tight
  <1>2. WorkAt(u, run[r].kind, R)
    BY <1>1 DEF RunOK
  <1>3. /\ repairing \in BOOLEAN /\ limit \in BOOLEAN /\ (limit <=> spent >= MaxPages)
        /\ spent \in Nat
    BY <1>1 DEF LimitReached, One
  <1>4. /\ new.state = IF x.found THEN "ready" ELSE "completed"
        /\ new.kind = x.kind /\ new.owner = NoName /\ new.pages = spent
    BY AdvancedRun DEF IInv
  <1>5. /\ x \in Selections(V, limit, u)
        /\ run' = [run EXCEPT ![r] = new] /\ url' = [url EXCEPT ![r] = x.rows]
    OBVIOUS
  <1>6. /\ OwedOf[r] = Repairs(R) /\ KnownOf[r] = Known(R) /\ FetchedOf[r] = Fetched(R)
        /\ SpentOf[r] = run[r].pages
    BY MappedNow
  <1>. HIDE DEF u, R, V, limit, new, spent
  <1>7. /\ Rows(R, "active") \subseteq {u} /\ u \in Known(R)
        /\ repairing => u \in Repairs(R)
        /\ ~repairing => run[r].kind = "frontier" /\ u \notin Fetched(R) /\ run[r].pages < MaxPages
    <2>1. CASE run[r].kind = "frontier"
      <3>1. Rows(R, "active") = {u} /\ ~R[u].page
        BY <1>2, <2>1 DEF WorkAt
      <3>2. u \in Known(R) /\ u \notin Fetched(R)
        BY <1>1, <3>1 DEF Rows, Known, Fetched
      <3>3. run[r].pages < MaxPages
        BY <1>1, <2>1 DEF Spare
      <3>. QED
        BY <2>1, <3>1, <3>2, <3>3
    <2>2. CASE run[r].kind = "repair"
      <3>1. Rows(R, "active") = {} /\ u \in Repairs(R)
        BY <1>2, <2>2 DEF WorkAt
      <3>2. u \in Known(R)
        BY <1>1, <3>1 DEF Exact, Repairs, Known
      <3>. QED
        BY <2>2, <3>1, <3>2
    <2>. QED
      BY <1>1, <2>1, <2>2
  <1>. HIDE DEF repairing
  <1>8. RowsOK(V) /\ Rows(V, "active") = {}
    BY <1>1, <1>3, <1>7, VisitedRows DEF V
  <1>9. /\ Exact(V) /\ Known(V) = Known(R) \cup links
        /\ Fetched(V) = Fetched(R) \cup {u}
        /\ Repairs(V) = IF repairing THEN Repairs(R) \ {u} ELSE Repairs(R)
    <2>1. /\ Exact(V) /\ Known(V) = Known(R) \cup links \cup {u}
          /\ Fetched(V) = Fetched(R) \cup {u}
          /\ Repairs(V) = IF repairing THEN Repairs(R) \ {u} ELSE Repairs(R)
      BY <1>1, <1>3, FetchedRows DEF V
    <2>. QED
      BY <1>7, <2>1
  <1>10. /\ Exact(x.rows) /\ Known(x.rows) = Known(V)
         /\ Fetched(x.rows) = Fetched(V) /\ Repairs(x.rows) = Repairs(V)
         /\ x.found => (Repairs(V) = {} => x.kind = "frontier") /\ (x.kind = "frontier" => ~limit)
         /\ Repairs(V) # {} => x.kind = "repair"
         /\ x.found <=> Repairs(V) # {} \/ (~limit /\ Rows(V, "queued") # {})
    <2>1. V \in [Urls -> UrlRecord]
      BY <1>8 DEF RowsOK
    <2>2. limit \in BOOLEAN /\ x \in Selections(V, limit, u) /\ Exact(V)
      BY <1>3, <1>5, <1>9
    <2>. QED
      BY <2>1, <2>2, SelectedRows, Zenon
  <1>11. Rows(V, "queued") = {} <=> Known(V) \subseteq Fetched(V)
    BY <1>8, <1>9, NothingQueued
  <1>12. Spare(new)
    BY <1>1, <1>3, <1>4, <1>10 DEF Spare
  <1>13. Stage(new) = IF Repairs(V) = {} /\ (Known(V) \subseteq Fetched(V) \/ spent >= MaxPages)
                        THEN "completed" ELSE "open"
    BY <1>3, <1>4, <1>10, <1>11 DEF Stage
  <1>14. HeldBy(new) = NoName
    BY <1>4 DEF HeldBy
  <1>15. /\ StageOf' = [StageOf EXCEPT ![r] = Stage(new)]
         /\ KnownOf' = [KnownOf EXCEPT ![r] = Known(V)]
         /\ FetchedOf' = [FetchedOf EXCEPT ![r] = Fetched(V)]
         /\ OwedOf' = [OwedOf EXCEPT ![r] = Repairs(V)]
         /\ SpentOf' = [SpentOf EXCEPT ![r] = spent]
         /\ HeldOf' = [HeldOf EXCEPT ![r] = NoName]
         /\ Tight'
    <2>1. /\ StageOf' = [StageOf EXCEPT ![r] = Stage(new)]
          /\ KnownOf' = [KnownOf EXCEPT ![r] = Known(x.rows)]
          /\ FetchedOf' = [FetchedOf EXCEPT ![r] = Fetched(x.rows)]
          /\ OwedOf' = [OwedOf EXCEPT ![r] = Repairs(x.rows)]
          /\ SpentOf' = [SpentOf EXCEPT ![r] = new.pages]
          /\ HeldOf' = [HeldOf EXCEPT ![r] = HeldBy(new)]
          /\ Tight /\ Exact(x.rows) /\ Spare(new) => Tight'
      BY <1>5, MappedRun DEF IInv
    <2>. QED
      BY <1>4, <1>10, <1>12, <1>14, <2>1
  <1>16. /\ OwedOf'[r] = Repairs(V) /\ KnownOf'[r] = Known(V) /\ FetchedOf'[r] = Fetched(V)
         /\ SpentOf'[r] = spent
    BY <1>15 DEF OwedOf, KnownOf, FetchedOf, SpentOf
  <1>17. StageOf[r] = "open"
    BY MappedNow DEF Stage
  <1>18. Contract!New(r, u) \/ Contract!Repair(r, u)
    <2>1. CASE repairing
      <3>1. spent = SpentOf[r]
        BY <1>1, <1>6, <2>1 DEF spent, repairing, One
      <3>2. SpentOf = [SpentOf EXCEPT ![r] = SpentOf[r]]
        BY DEF SpentOf
      <3>3. UNCHANGED SpentOf
        BY <1>15, <3>1, <3>2
      <3>4. OwedOf' = [OwedOf EXCEPT ![r] = @ \ {u}]
        BY <1>6, <1>9, <1>15, <2>1
      <3>5. u \in OwedOf[r]
        BY <1>6, <1>7, <2>1
      <3>. QED
        BY <3>3, <3>4, <3>5 DEF Contract!Repair
    <2>2. CASE ~repairing
      <3>1. spent = SpentOf[r] + 1
        BY <1>6, <1>7, <2>2 DEF spent, One
      <3>2. OwedOf = [OwedOf EXCEPT ![r] = OwedOf[r]]
        BY DEF OwedOf
      <3>3. UNCHANGED OwedOf
        BY <1>6, <1>9, <1>15, <2>2, <3>2
      <3>4. SpentOf' = [SpentOf EXCEPT ![r] = @ + 1]
        BY <1>15, <3>1
      <3>5. u \notin FetchedOf[r] /\ SpentOf[r] < MaxPages
        BY <1>6, <1>7, <2>2
      <3>. QED
        BY <3>3, <3>4, <3>5 DEF Contract!New
    <2>. QED
      BY <2>1, <2>2
  <1>19. Contract!Fetch(r, u, links)
    <2>1. u \in KnownOf[r]
      BY <1>6, <1>7
    <2>2. /\ KnownOf' = [KnownOf EXCEPT ![r] = @ \cup links]
          /\ FetchedOf' = [FetchedOf EXCEPT ![r] = @ \cup {u}]
      BY <1>6, <1>9, <1>15
    <2>3. StageOf' = [StageOf EXCEPT ![r] =
            IF OwedOf'[r] = {} /\ (KnownOf'[r] \subseteq FetchedOf'[r] \/ SpentOf'[r] >= MaxPages)
            THEN "completed" ELSE "open"]
      BY <1>13, <1>15, <1>16
    <2>. QED
      BY <1>15, <1>17, <1>18, <2>1, <2>2, <2>3 DEF Contract!Fetch
  <1>20. Contract!Next
    BY <1>1, <1>19, Zenon DEF Contract!Next
  <1>. QED
    BY <1>15, <1>20 DEF Follows

(* The whole handler: the page, or only the lease given back.              *)
LEMMA RecordFollows ==
  ASSUME IInv, Tight, NEW s \in Sessions, Record(s)
  PROVE  Tight' /\ Follows
  <1>. DEFINE r == session[s].sweep
              u == session[s].cursor
              repairing == run[r].kind = "repair"
  <1>1. /\ r \in Sweeps /\ run[r] \in RunRecord /\ run[r].state = "running" /\ u = run[r].cursor
    BY DEF Record, Accepted, IInv, Typed, SessionRecord
  <1>2. CASE run' = [run EXCEPT ![r] = Released(r)] /\ UNCHANGED url
    <2>1. /\ Released(r).state = run[r].state /\ Released(r).kind = run[r].kind
          /\ Released(r).pages = run[r].pages /\ Released(r).owner = NoName
      BY <1>1 DEF Released, RunRecord
    <2>. HIDE DEF r
    <2>2. Stays(run[r], Released(r)) /\ HeldBy(Released(r)) = NoName
      BY <2>1 DEF Stays, Stage, HeldBy
    <2>. QED
      BY <1>1, <1>2, <2>2, RunStays
  <1>3. CASE \E links \in SUBSET Urls :
             \E x \in Selections(Visited(url[r], u, repairing, links), LimitReached(r), u) :
               /\ run' = [run EXCEPT ![r] = Advanced(r, u, links, x)]
               /\ url' = [url EXCEPT ![r] = x.rows]
    <2>1. PICK links \in SUBSET Urls :
             \E x \in Selections(Visited(url[r], u, repairing, links), LimitReached(r), u) :
               /\ run' = [run EXCEPT ![r] = Advanced(r, u, links, x)]
               /\ url' = [url EXCEPT ![r] = x.rows]
      BY <1>3
    <2>2. PICK x \in Selections(Visited(url[r], u, repairing, links), LimitReached(r), u) :
               /\ run' = [run EXCEPT ![r] = Advanced(r, u, links, x)]
               /\ url' = [url EXCEPT ![r] = x.rows]
      BY <2>1
    <2>. HIDE DEF r, u
    <2>. QED
      BY <1>1, <2>2, PageFollows
  <1>. QED
    BY <1>2, <1>3 DEF Record

(* Every step is a step of the contract.                                   *)
LEMMA NextFollows ==
  ASSUME IInv, Tight, [Next]_vars
  PROVE  Tight' /\ Follows
  <1>1. CASE RequestRepairs
    <2>1. PICK r \in Sweeps, us \in SUBSET Urls : MayQueue(r) /\ us # {} /\ QueueRepairs(r, us)
      BY <1>1 DEF RequestRepairs
    <2>. QED
      BY <2>1, AskFollows DEF MayQueue
  <1>2. CASE UNCHANGED <<run, url>>
    BY <1>2, DropFollows DEF Stays
  <1>3. ASSUME NEW s \in Sessions, QueueDue(s)
        PROVE  Tight' /\ Follows
    <2>. DEFINE r == session[s].sweep
    <2>1. r \in Sweeps /\ run[r].state # "absent"
      BY <1>3 DEF QueueDue, At, IInv, Typed, SessionRecord, ScriptsHaveRuns
    <2>2. CASE ~Busy(r) /\ \E us \in SUBSET DuePages(r) : us # {} /\ QueueRepairs(r, us)
      <3>1. PICK us \in SUBSET Urls : us # {} /\ QueueRepairs(r, us)
        BY <2>2 DEF DuePages
      <3>. HIDE DEF r
      <3>. QED
        BY <2>1, <2>2, <3>1, AskFollows
    <2>. QED
      BY <1>2, <1>3, <2>2 DEF QueueDue
  <1>4. ASSUME NEW s \in Sessions, Step(s)
        PROVE  Tight' /\ Follows
    BY <1>2, <1>3, <1>4, StartFollows, PrepareFollows, ClaimFollows, RecordFollows, FailFollows
    DEF Step, Work, Configure
  <1>5. ASSUME NEW s \in Sessions, Crash(s)
        PROVE  Tight' /\ Follows
    BY <1>2, <1>5 DEF Crash
  <1>. QED
    BY <1>1, <1>2, <1>4, <1>5, TickFollows DEF Next, vars

(* The sweeps keep their contract, however scripts overlap, die, repeat a  *)
(* page or have repairs put between: every page that a sweep comes to know *)
(* is fetched once within the page limit and again for each repair, nobody *)
(* takes it from who holds it, and it is completed exactly when nothing is *)
(* left to fetch (record_discovery_page, queue_discovery_page_repairs,     *)
(* claim_discovery_checkpoint).                                            *)
THEOREM SweepsKeepContract == Spec => KeepsContract
  <1>1. Init => Tight /\ Contract!Init
    <2>. SUFFICES ASSUME Init PROVE Tight /\ Contract!Init
      OBVIOUS
    <2>1. ASSUME NEW r \in Sweeps
          PROVE  /\ Exact(url[r]) /\ Spare(run[r]) /\ Stage(run[r]) = "absent"
                 /\ Known(url[r]) = {} /\ Fetched(url[r]) = {} /\ Repairs(url[r]) = {}
                 /\ run[r].pages = 0 /\ HeldBy(run[r]) = NoName
      <3>1. run[r] = Unstarted /\ \A u \in Urls : url[r][u] = NoRow
        BY DEF Init
      <3>. QED
        BY <3>1, BoundsAssumption
        DEF Unstarted, NoRow, Exact, Spare, Stage, Known, Fetched, Repairs, HeldBy
    <2>2. /\ StageOf = [r \in Sweeps |-> "absent"] /\ SpentOf = [r \in Sweeps |-> 0]
          /\ KnownOf = [r \in Sweeps |-> {}] /\ FetchedOf = [r \in Sweeps |-> {}]
          /\ OwedOf = [r \in Sweeps |-> {}] /\ HeldOf = [r \in Sweeps |-> NoName]
      BY <2>1 DEF StageOf, SpentOf, KnownOf, FetchedOf, OwedOf, HeldOf, HeldBy, Busy
    <2>. QED
      BY <2>1, <2>2 DEF Tight, Contract!Init
  <1>2. IInv /\ Tight /\ [Next]_vars => Tight' /\ Follows
    BY NextFollows
  <1>. QED
    BY <1>1, <1>2, Invariant, PTL DEF Spec, Follows, KeepsContract, Contract!Spec
=============================================================================
