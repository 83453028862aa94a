--------------------------- MODULE SparexDiscovery ---------------------------
(***************************************************************************)
(* The Sparex listing crawl of southern_parts_intelligence: its discovery  *)
(* runs (sweeps) with their cursor and lease, the queue of listing URLs,   *)
(* the recorded pages, the catalog items a sweep reconciles, and the       *)
(* checkpoint scripts (sessions) that claim, fetch and record pages.       *)
(*                                                                         *)
(* Every method of southern.sparex.discovery.run is one transaction under  *)
(* a row lock and is one action here; a method that raises changes nothing *)
(* and ends the script that called it.  Times are kept as the time left.   *)
(* The content of a listing page is chosen freely at every visit.  The     *)
(* priorities that order the queue are left out: any waiting URL of the    *)
(* right kind may come next.                                               *)
(***************************************************************************)
EXTENDS Integers, FiniteSets

CONSTANTS
  Urls,        (* listing URLs of the portal                               *)
  Seed,        (* the seed URL of every sweep                              *)
  Items,       (* exact Sparex SKUs                                        *)
  MaxSweeps,   (* bound: discovery runs that are ever started              *)
  MaxPages,    (* max_pages_total                                          *)
  Sessions,    (* checkpoint scripts                                       *)
  ByHand,      (* those an operator starts with a run key of their choice  *)
  Name,        (* the --worker-id of each session                          *)
  NoName,      (* an empty lease_owner                                     *)
  Lease,       (* lease_seconds of a claim (180 s)                         *)
  Cooldown     (* the 60 minutes after a portal warning                    *)

ASSUME PortalAssumption   == Seed \in Urls /\ IsFiniteSet(Urls)
ASSUME SessionsAssumption ==
  ByHand \subseteq Sessions /\ \A s \in Sessions : Name[s] # NoName
ASSUME BoundsAssumption   ==
  /\ MaxSweeps \in Nat \ {0} /\ MaxPages \in Nat \ {0}
  /\ Lease \in Nat \ {0} /\ Cooldown \in Nat

VARIABLES
  run,        (* the discovery runs                                        *)
  url,        (* the URL rows and recorded pages of each run               *)
  item,       (* the discovery items, shared by all runs                   *)
  session,    (* the scripts                                               *)
  witnessed   (* history: the items each run has recorded on some page     *)

vars == <<run, url, item, session, witnessed>>

-----------------------------------------------------------------------------
(* Records.                                                                *)

Sweeps == 1..MaxSweeps
Names  == {Name[s] : s \in Sessions}

RunRecord ==
  [state : {"absent", "ready", "running", "cooldown", "completed"},
   cursor : Urls, kind : {"frontier", "repair"},
   owner : Names \cup {NoName}, lease : 0..Lease, cooling : 0..Cooldown,
   queued : Nat, visited : Nat, repairs : Nat, pages : Nat,
   reconciliation : {"pending", "in_progress", "completed"}]

(* A row of the URL queue, "none" when there is none, and whether a page   *)
(* has been recorded for it.                                               *)
UrlRecord == [state : {"none", "queued", "active", "visited"},
              repair : BOOLEAN, page : BOOLEAN]

(* seen is last_seen_run_id (0: a sweep before those modelled), page is    *)
(* last_seen_page_id.                                                      *)
ItemRecord ==
  [reconciliation : {"absent", "pending", "current", "stale"},
   state : {"verified", "review"}, candidate : BOOLEAN,
   seen : 0..MaxSweeps, page : Urls]

SessionRecord ==
  [at : {"idle", "configure", "prepare", "due", "claim", "fetch", "lost"},
   sweep : Sweeps, cursor : Urls]

Started  == {r \in Sweeps : run[r].state # "absent"}
Busy(r)  == run[r].owner # NoName /\ run[r].lease > 0
Rows(R, s) == {u \in Urls : R[u].state = s}
Repairs(R) == {u \in Urls : R[u].repair}

Unstarted ==
  [state |-> "absent", cursor |-> Seed, kind |-> "frontier", owner |-> NoName,
   lease |-> 0, cooling |-> 0, queued |-> 0, visited |-> 0, repairs |-> 0,
   pages |-> 0, reconciliation |-> "pending"]
NoRow  == [state |-> "none", repair |-> FALSE, page |-> FALSE]
Active == [NoRow EXCEPT !.state = "active"]

(* Items an earlier sweep left current and ready to publish, and items no  *)
(* sweep has seen.                                                         *)
EarlierItem == [reconciliation |-> "current", state |-> "verified",
                candidate |-> TRUE, seen |-> 0, page |-> Seed]
NoItem      == [reconciliation |-> "absent", state |-> "review",
                candidate |-> FALSE, seen |-> 0, page |-> Seed]

Init ==
  /\ run = [r \in Sweeps |-> Unstarted]
  /\ url = [r \in Sweeps |-> [u \in Urls |-> NoRow]]
  /\ item \in [Items -> {EarlierItem, NoItem}]
  /\ session = [s \in Sessions |-> [at |-> "idle", sweep |-> 1, cursor |-> Seed]]
  /\ witnessed = [r \in Sweeps |-> {}]

-----------------------------------------------------------------------------
(* The queue of a run.                                                     *)

(* Mutated form: the page limit also stops repairs.                        *)
SelectionsWithinLimit(R, limit, here) ==
  IF limit THEN {[cursor |-> here, kind |-> "frontier", rows |-> R, found |-> FALSE]}
  ELSE IF Repairs(R) # {}
    THEN {[cursor |-> u, kind |-> "repair", rows |-> R, found |-> TRUE] : u \in Repairs(R)}
  ELSE IF Rows(R, "queued") # {}
    THEN {[cursor |-> u, kind |-> "frontier", found |-> TRUE,
           rows |-> [R EXCEPT ![u].state = "active"]] : u \in Rows(R, "queued")}
  ELSE {[cursor |-> here, kind |-> "frontier", rows |-> R, found |-> FALSE]}

(* _select_next_discovery_url: repairs first, then the queue unless the    *)
(* page limit is reached.  With nothing selected the cursor stays here.    *)
Selections(R, limit, here) ==
  IF Repairs(R) # {}
    THEN {[cursor |-> u, kind |-> "repair", rows |-> R, found |-> TRUE] : u \in Repairs(R)}
  ELSE IF ~limit /\ Rows(R, "queued") # {}
    THEN {[cursor |-> u, kind |-> "frontier", found |-> TRUE,
           rows |-> [R EXCEPT ![u].state = "active"]] : u \in Rows(R, "queued")}
  ELSE {[cursor |-> here, kind |-> "frontier", rows |-> R, found |-> FALSE]}

(* The rows of R after repairs of the URLs us are requested.               *)
Requested(R, us) ==
  [u \in Urls |->
     IF u \notin us THEN R[u]
     ELSE [R[u] EXCEPT !.repair = TRUE,
             !.state = IF @ # "none" THEN @ ELSE IF R[u].page THEN "visited" ELSE "queued"]]

(* Mutated form of Deferred: the interrupted frontier row stays active.    *)
DeferredNothing(R) == R

(* The interrupted frontier row goes back to the queue.                    *)
Deferred(R) ==
  [u \in Urls |-> IF R[u].state = "active" THEN [R[u] EXCEPT !.state = "queued"] ELSE R[u]]

RepairsCounted(R, us) == Cardinality(us \ Repairs(R))

(* queue_discovery_page_repairs on run r with the selection x.             *)
QueueRepairs(r, us) ==
  LET R == url[r]
      fresh == {u \in us : R[u].state = "none"}
  IN  \E x \in Selections(Deferred(Requested(R, us)), FALSE, run[r].cursor) :
        /\ url' = [url EXCEPT ![r] = x.rows]
        /\ run' = [run EXCEPT
             ![r].state   = "ready",
             ![r].cursor  = x.cursor,
             ![r].kind    = x.kind,
             ![r].queued  = @ + Cardinality({u \in fresh : ~R[u].page}),
             ![r].visited = @ + Cardinality({u \in fresh : R[u].page}),
             ![r].repairs = @ + RepairsCounted(R, us)]

-----------------------------------------------------------------------------
(* Reconciliation of the items with a sweep.                               *)

(* prepare_reconciliation_run on the items.                                *)
Reset(I, r) ==
  [i \in Items |->
     IF I[i].reconciliation = "absent" THEN I[i]
     ELSE [I[i] EXCEPT !.reconciliation = IF I[i].seen = r THEN "current" ELSE "pending",
                       !.candidate = FALSE]]

(* _complete_reconciliation on the items.                                  *)
Reconciled(I, r) ==
  [i \in Items |->
     IF I[i].reconciliation = "absent" THEN I[i]
     ELSE IF I[i].seen = r THEN [I[i] EXCEPT !.reconciliation = "current"]
     ELSE [I[i] EXCEPT !.reconciliation = "stale", !.state = "review", !.candidate = FALSE]]

(* What a listing page shows of an item, with what Odoo knows of it:       *)
(* only a verified observation of a ready product is a candidate.          *)
Sightings == {"unlisted", "review", "verified", "candidate"}

Observed(I, r, u, seen) ==
  [i \in Items |->
     IF seen[i] = "unlisted" THEN I[i]
     ELSE [reconciliation |-> "current",
           state |-> IF seen[i] = "review" THEN "review" ELSE "verified",
           candidate |-> seen[i] = "candidate", seen |-> r, page |-> u]]

-----------------------------------------------------------------------------
(* A checkpoint script.                                                    *)

At(s, where) == session[s].at = where
GoTo(s, where) == session' = [session EXCEPT ![s].at = where]

Latest == IF Started = {} THEN 0 ELSE CHOOSE r \in Started : \A q \in Started : q <= r

(* resolve_discovery_run_key of a dispatched session; an operator names    *)
(* any run key.                                                            *)
Keys(s) ==
  IF s \in ByHand THEN Started \cup {Latest + 1}
  ELSE IF Latest > 0 /\ run[Latest].state # "completed" THEN {Latest}
  ELSE {Latest + 1}

(* _existing_run or start_discovery_run.                                   *)
Start(s) ==
  /\ At(s, "idle")
  /\ \E r \in Keys(s) \cap Sweeps :
       /\ session' = [session EXCEPT ![s] = [at |-> "configure", sweep |-> r, cursor |-> Seed]]
       /\ IF run[r].state = "absent"
            THEN /\ run' = [run EXCEPT ![r].state = "ready"]
                 /\ url' = [url EXCEPT ![r][Seed] = Active]
            ELSE UNCHANGED <<run, url>>
  /\ UNCHANGED <<item, witnessed>>

(* configure_discovery_checkpoint: refused while a lease is live.          *)
Configure(s) ==
  /\ At(s, "configure")
  /\ GoTo(s, IF Busy(session[s].sweep) THEN "idle" ELSE "prepare")
  /\ UNCHANGED <<run, url, item, witnessed>>

(* prepare_reconciliation_run, once for each run.                          *)
Prepare(s) ==
  LET r == session[s].sweep
  IN  /\ At(s, "prepare")
      /\ GoTo(s, "due")
      /\ IF run[r].reconciliation = "pending"
           THEN /\ item' = Reset(item, r)
                /\ run' = [run EXCEPT ![r].reconciliation = "in_progress"]
           ELSE UNCHANGED <<item, run>>
      /\ UNCHANGED <<url, witnessed>>

(* The pages whose last evidence of some item is still under review.  The  *)
(* 24 hours they must have been left alone are not modelled.               *)
DuePages(r) ==
  {u \in Urls : url[r][u].page /\
     \E i \in Items : item[i].seen = r /\ item[i].page = u /\ item[i].state = "review"}

(* queue_due_discovery_page_repairs.                                       *)
QueueDue(s) ==
  LET r == session[s].sweep
  IN  /\ At(s, "due")
      /\ GoTo(s, "claim")
      /\ \/ UNCHANGED <<run, url>>
         \/ /\ ~Busy(r)
            /\ \E us \in SUBSET DuePages(r) : us # {} /\ QueueRepairs(r, us)
      /\ UNCHANGED <<item, witnessed>>

(* Mutated form: a run whose worker was lost is never claimed again.       *)
ClaimableUnlessRunning(r, name) == run[r].state = "ready"

(* Whether claim_discovery_checkpoint grants the run to a worker.          *)
Claimable(r, name) ==
  /\ run[r].state # "completed"
  /\ ~(run[r].state = "cooldown" /\ run[r].cooling > 0)
  /\ ~(Busy(r) /\ run[r].owner # name)

Claim(s) ==
  LET r == session[s].sweep
  IN  /\ At(s, "claim")
      /\ IF Claimable(r, Name[s])
           THEN /\ run' = [run EXCEPT ![r].state = "running", ![r].owner = Name[s],
                                      ![r].lease = Lease, ![r].cooling = 0]
                /\ session' = [session EXCEPT ![s].at = "fetch", ![s].cursor = run[r].cursor]
           ELSE GoTo(s, "idle") /\ UNCHANGED run
      /\ UNCHANGED <<url, item, witnessed>>

-----------------------------------------------------------------------------
(* record_discovery_page.                                                  *)

(* The page of session s is recorded: it owns the running claim and        *)
(* fetched the present cursor.                                             *)
Accepted(s) ==
  LET r == session[s].sweep
  IN  /\ session[s].at \in {"fetch", "lost"}
      /\ run[r].state = "running" /\ run[r].owner = Name[s]
      /\ run[r].cursor = session[s].cursor

Released(r) == [run[r] EXCEPT !.owner = NoName, !.lease = 0]

(* The rows after page u is recorded with the links it shows.              *)
Visited(R, u, repairing, links) ==
  [v \in Urls |->
     IF v = u THEN [state |-> "visited", page |-> TRUE,
                    repair |-> R[u].repair /\ ~repairing]
     ELSE IF v \in links /\ R[v].state = "none" THEN [R[v] EXCEPT !.state = "queued"]
     ELSE R[v]]

NewLinks(R, u, links) == {v \in links \ {u} : R[v].state = "none"}

Waiting(R, u) == R[u].state \in {"queued", "active"}

One(condition) == IF condition THEN 1 ELSE 0

(* Mutated form: nothing keeps the count from falling below zero.          *)
QueuedUnclamped(q, R, u, links) ==
  q - One(Waiting(R, u)) + Cardinality(NewLinks(R, u, links))

(* queued_url_count after the page.                                        *)
QueuedAfter(q, R, u, links) ==
  LET n == q - One(Waiting(R, u)) + Cardinality(NewLinks(R, u, links))
  IN  IF n < 0 THEN 0 ELSE n

(* The run after page u, where x is the next selection.                    *)
Advanced(r, u, links, x) ==
  LET repairing == run[r].kind = "repair"
  IN  [Released(r) EXCEPT
         !.state   = IF x.found THEN "ready" ELSE "completed",
         !.cursor  = x.cursor,
         !.kind    = x.kind,
         !.queued  = QueuedAfter(@, url[r], u, links),
         !.visited = @ + One(Waiting(url[r], u) \/ url[r][u].state = "none"),
         !.repairs = IF @ - One(url[r][u].repair) < 0 THEN 0 ELSE @ - One(url[r][u].repair),
         !.pages   = @ + One(~repairing),
         !.reconciliation = IF x.found THEN @ ELSE "completed"]

(* The page limit after page u.                                            *)
LimitReached(r) == run[r].pages + One(run[r].kind = "frontier") >= MaxPages

(* Mutated form: a run that ends with a repair leaves its items pending.   *)
SettlesUnlessRepairing(r, x) ==
  ~x.found /\ run[r].reconciliation # "completed" /\ run[r].kind = "frontier"

(* Whether the page completes the run and so settles the items.            *)
Settles(r, x) == ~x.found /\ run[r].reconciliation # "completed"

(* The script goes on to the next page, or ends because the run is         *)
(* complete or its checkpoint is full; or the answer is lost and it will   *)
(* send the page again.                                                    *)
Onward(s) == \E next \in {"claim", "idle", "lost"} : GoTo(s, next)

(* The whole handler.  A frontier page that is already recorded only gives *)
(* the lease back.                                                         *)
Record(s) ==
  LET r == session[s].sweep
      u == session[s].cursor
      R == url[r]
      repairing == run[r].kind = "repair"
  IN  /\ Accepted(s)
      /\ Onward(s)
      /\ IF R[u].page /\ ~repairing
           THEN /\ run' = [run EXCEPT ![r] = Released(r)]
                /\ UNCHANGED <<url, item, witnessed>>
           ELSE \E links \in SUBSET Urls, seen \in [Items -> Sightings] :
                \E x \in Selections(Visited(R, u, repairing, links), LimitReached(r), u) :
                  /\ run' = [run EXCEPT ![r] = Advanced(r, u, links, x)]
                  /\ url' = [url EXCEPT ![r] = x.rows]
                  /\ item' = IF Settles(r, x)
                               THEN Reconciled(Observed(item, r, u, seen), r)
                               ELSE Observed(item, r, u, seen)
                  /\ witnessed' = [witnessed EXCEPT
                       ![r] = @ \cup {i \in Items : seen[i] # "unlisted"}]

(* Mutated form: whoever reports a failure ends the claim.                 *)
MayFailAnyone(s, r) == run[r].owner # NoName

MayFail(s, r) == run[r].owner = Name[s]

(* The script raises, for a portal warning, another error or a page Odoo   *)
(* refused, and calls record_discovery_failure, which refuses a session    *)
(* that does not own the lease.                                            *)
Fail(s) ==
  LET r == session[s].sweep
  IN  /\ session[s].at \in {"fetch", "lost"}
      /\ GoTo(s, "idle")
      /\ IF MayFail(s, r)
           THEN \E warned \in BOOLEAN :
                  run' = [run EXCEPT ![r] =
                    [Released(r) EXCEPT !.state = IF warned THEN "cooldown" ELSE "ready",
                                        !.cooling = IF warned THEN Cooldown ELSE 0]]
           ELSE UNCHANGED run
      /\ UNCHANGED <<url, item, witnessed>>

(* A script is killed: by the dispatch worker's time limit or its host.    *)
Crash(s) ==
  /\ ~At(s, "idle")
  /\ GoTo(s, "idle")
  /\ UNCHANGED <<run, url, item, witnessed>>

(* Mutated form: repairs are queued under the nose of a worker.            *)
MayQueueAlways(r) == run[r].state # "absent"

MayQueue(r) == run[r].state # "absent" /\ ~Busy(r)

(* An administrator requests repairs.                                      *)
RequestRepairs ==
  /\ UNCHANGED <<item, session, witnessed>>
  /\ \E r \in Sweeps, us \in SUBSET Urls :
       MayQueue(r) /\ us # {} /\ QueueRepairs(r, us)

Down(n) == IF n = 0 THEN 0 ELSE n - 1

Tick ==
  /\ \E r \in Sweeps : run[r].lease > 0 \/ run[r].cooling > 0
  /\ run' = [r \in Sweeps |-> [run[r] EXCEPT !.lease = Down(@), !.cooling = Down(@)]]
  /\ UNCHANGED <<url, item, session, witnessed>>

Work(s) ==
  \/ Configure(s) \/ Prepare(s) \/ QueueDue(s)
  \/ Claim(s) \/ Record(s) \/ Fail(s)

Step(s) == Start(s) \/ Work(s)

Next == RequestRepairs \/ Tick \/ \E s \in Sessions : Step(s) \/ Crash(s)

Spec == Init /\ [][Next]_vars

(* Time passes, and a script that was started goes on until it ends or is  *)
(* killed.  Nothing makes Odoo dispatch another one: see SweepCompletes.   *)
FairSpec == Spec /\ WF_vars(Tick) /\ \A s \in Sessions \ ByHand : WF_vars(Work(s))

-----------------------------------------------------------------------------
(* Properties.                                                             *)

(* Types of the variables.                                                 *)
TypeOK ==
  /\ run \in [Sweeps -> RunRecord]
  /\ url \in [Sweeps -> [Urls -> UrlRecord]]
  /\ item \in [Items -> ItemRecord]
  /\ session \in [Sessions -> SessionRecord]
  /\ witnessed \in [Sweeps -> SUBSET Items]

(* The cursor of an unfinished run is work to do: a frontier cursor is the *)
(* one active row and has no page yet, a repair cursor is a requested      *)
(* repair and no row is active.  A cursor on a recorded page would hand    *)
(* out the same page for ever, a forgotten active row would never be       *)
(* fetched.                                                                *)
CursorIsWork ==
  \A r \in Started :
    run[r].state # "completed" =>
      IF run[r].kind = "frontier"
        THEN Rows(url[r], "active") = {run[r].cursor} /\ ~url[r][run[r].cursor].page
        ELSE Rows(url[r], "active") = {} /\ run[r].cursor \in Repairs(url[r])

(* A completed run has nothing left to repair, and nothing left to visit   *)
(* unless the page limit stopped it.                                       *)
SweepIsExhaustive ==
  \A r \in Sweeps :
    run[r].state = "completed" =>
      /\ Repairs(url[r]) = {}
      /\ Rows(url[r], "active") = {}
      /\ Rows(url[r], "queued") = {} \/ run[r].pages >= MaxPages

(* When a sweep is complete every known item is settled: current when that *)
(* sweep recorded it, stale otherwise.  This holds of one sweep at a time  *)
(* (MaxSweeps = 1 in the run): a second one that is begun under another    *)
(* run key before the first is complete overwrites last_seen_run_id.       *)
CompletedIsReconciled ==
  Latest > 0 /\ run[Latest].state = "completed" =>
    \A i \in Items : item[i].reconciliation # "absent" =>
      item[i].reconciliation = IF i \in witnessed[Latest] THEN "current" ELSE "stale"

(* While a lease is live nothing but a step of a script of the worker that *)
(* owns it moves the run: no claim, repair request or late report of       *)
(* another takes it away ("duplicate workers cannot overlap").             *)
Position(R) == <<R.state, R.cursor, R.kind, R.pages, R.owner>>

LeaseExcludes ==
  [][\A r \in Sweeps :
       Busy(r) /\ Position(run'[r]) # Position(run[r]) =>
         \E s \in Sessions : /\ Name[s] = run[r].owner /\ session[s].sweep = r
                             /\ Step(s)]_vars

(* What the sweeps promise to whoever reads their catalog, however scripts *)
(* overlap, die, repeat a page or have repairs put between: every page a   *)
(* sweep comes to know is fetched once, within the page limit, and again   *)
(* for each repair, and a sweep ends exactly when nothing is left of that  *)
(* (docs/SPAREX_CATALOG_DISCOVERY.md: each cursor is advanced only after   *)
(* the archived page is recorded).                                         *)
Known(R)   == {u \in Urls : R[u].state # "none"}
Fetched(R) == {u \in Urls : R[u].page}
Stage(x)   == IF x.state \in {"absent", "completed"} THEN x.state ELSE "open"

StageOf   == [r \in Sweeps |-> Stage(run[r])]
KnownOf   == [r \in Sweeps |-> Known(url[r])]
FetchedOf == [r \in Sweeps |-> Fetched(url[r])]
OwedOf    == [r \in Sweeps |-> Repairs(url[r])]
SpentOf   == [r \in Sweeps |-> run[r].pages]
HeldOf    == [r \in Sweeps |-> IF Busy(r) THEN run[r].owner ELSE NoName]

Contract == INSTANCE SweepContract
  WITH Pages <- Urls, First <- Seed, Budget <- MaxPages, Workers <- Names,
       Nobody <- NoName, stage <- StageOf, known <- KnownOf, fetched <- FetchedOf,
       owed <- OwedOf, spent <- SpentOf, held <- HeldOf

KeepsContract == Contract!Spec

(* What delays a sweep: kills, portal failures, requests for repairs, and  *)
(* scripts too slow for their lease.                                       *)
Overrun == Tick /\ \E s \in Sessions : Accepted(s) /\ run[session[s].sweep].lease = 1

Disturbance ==
  \/ Overrun
  \/ RequestRepairs
  \/ \E s \in Sessions : \/ Crash(s) /\ ~Step(s)
                         \/ Accepted(s) /\ Fail(s)
                         \/ QueueDue(s) /\ run' # run

(* Odoo goes on dispatching discovery scripts.  That is for people to see  *)
(* to: the schedule is on and the cron active, an idle workflow selects    *)
(* discovery and not only releases, and whoever is called after a failed   *)
(* script (workflow in error) or the third warning of a continuous release *)
(* (paused) resumes it.                                                    *)
Dispatched == \E s \in Sessions \ ByHand : []<>~At(s, "idle")

(* Once disturbances stop, and while scripts go on being dispatched, every *)
(* run that was started is completed, although workers were lost in the    *)
(* middle of a page.  A run that no script can claim again would be        *)
(* dispatched for ever.                                                    *)
SweepCompletes ==
  <>[][~Disturbance]_vars /\ Dispatched =>
    \A r \in Sweeps : run[r].state # "absent" ~> run[r].state = "completed"
=============================================================================
