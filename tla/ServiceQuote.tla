---------------------------- MODULE ServiceQuote ----------------------------
(***************************************************************************)
(* A customer's service work and its quotation                             *)
(* (src/southern_service_operations/models): the service case that         *)
(* coordinates, the service jobs on it, the work items of a job, and the   *)
(* quotation lines the code keeps in step with them; the routing of a case *)
(* into jobs and shop work, the confirmation of the order, and AI          *)
(* estimates that are applied after a review.  Sales changes the same      *)
(* quotation in its own forms.                                             *)
(*                                                                         *)
(* Every button and every save is one database transaction.  A handler is  *)
(* an operator from a book, the records the transaction sees, to the set   *)
(* of books it may become; an exception undoes the transaction, and the    *)
(* set is then empty.                                                      *)
(***************************************************************************)
EXTENDS Integers, FiniteSets, FiniteSetsExt

CONSTANTS
    Cases,     \* southern.service.case
    Orders,    \* sale.order of type service
    Jobs,      \* project.task
    Items,     \* southern.service.work.item
    Lines,     \* sale.order.line; all five sets bound what is ever created
    Places,    \* service_location of customer cases
    MaxUnits,  \* bound: hours or units of one work item
    MaxSteps,  \* bound: buttons and saves of a behaviour
    None

ASSUME ServiceConstants ==
    /\ \A S \in {Cases, Orders, Jobs, Items, Lines} : IsFiniteSet(S) /\ None \notin S
    /\ "onsite" \in Places /\ Places \subseteq {"onsite", "shop", "hybrid"}
    /\ MaxUnits \in Nat \ {0} /\ MaxSteps \in Nat

VARIABLES cases, orders, jobs, items, lines,
          steps   \* how many buttons and saves there were

vars == <<cases, orders, jobs, items, lines, steps>>

\* The stages a case passes through until it is closed or cancelled are one here.
CaseRow == [order : Orders \cup {None}, place : Places \cup {"internal"},
            state : {"live", "ended"},
            shop : 0..1]   \* repair orders, or maintenance requests of an internal case
\* A quotation is "draft" before and after its mail marks it "sent": the code
\* treats the two alike.
OrderRow == [state : {"draft", "sale", "cancel"},
             case : Cases \cup {None}, place : Places]
JobRow == [case : Cases \cup {None}, order : Orders \cup {None},
           details : BOOLEAN,   \* customer, equipment and serial number are known
           unified : BOOLEAN,   \* southern_quote_workflow
           rated : BOOLEAN,     \* has a labor product with a price
           labor : Lines \cup {None},   \* southern_labor_sale_line_id
           note : Lines \cup {None},    \* southern_ai_note_line_id
           sold : Lines \cup {None}]    \* Odoo's sale_line_id, and by it sale_order_id
ItemRow == [job : Jobs, labor : BOOLEAN, billable : BOOLEAN,
            units : 1..MaxUnits, line : Lines \cup {None}]
\* tracked: a service product whose sale makes Odoo create a task
LineRow == [order : Orders, job : Jobs \cup {None},
            kind : {"labor", "part", "note", "tracked"}, units : 0..MaxUnits * Cardinality(Items)]

\* A customer's case, and the quotation and the first job on it once they exist
FirstCase(o) == [order |-> o, place |-> "onsite", state |-> "live", shop |-> 0]
FirstOrder(c) == [state |-> "draft", case |-> c, place |-> "onsite"]
FirstJob(c, o) == [case |-> c, order |-> o, details |-> TRUE, unified |-> TRUE, rated |-> TRUE,
                   labor |-> None, note |-> None, sold |-> None]
Only(S, row) == [x \in S |-> IF x = CHOOSE y \in S : TRUE THEN row ELSE None]
Absent(S) == [x \in S |-> None]

Init ==
    /\ \/ cases = Absent(Cases) /\ orders = Absent(Orders) /\ jobs = Absent(Jobs)
       \/ \E c \in Cases, o \in Orders :
             /\ cases = Only(Cases, FirstCase(o)) /\ cases[c] # None
             /\ orders = Only(Orders, FirstOrder(c)) /\ orders[o] # None
             /\ jobs = Only(Jobs, FirstJob(c, o))
    /\ items = Absent(Items) /\ lines = Absent(Lines) /\ steps = 0

-----------------------------------------------------------------------------
(* The book of a transaction *)

Existing(f) == {x \in DOMAIN f : f[x] # None}
Fresh(f) == {x \in DOMAIN f : f[x] = None /\ x = CHOOSE y \in DOMAIN f : f[y] = None}

Book == [cases |-> cases, orders |-> orders, jobs |-> jobs, items |-> items, lines |-> lines,
         new |-> None]

\* One more button or save
Counted == steps < MaxSteps /\ steps' = steps + 1

Saved(B) ==
    /\ Counted
    /\ \E b \in B :
          /\ cases' = b.cases /\ orders' = b.orders /\ jobs' = b.jobs
          /\ items' = b.items /\ lines' = b.lines

\* A record more, kept as the newest; none at the bound
NewLine(b, row) == {[b EXCEPT !.lines[l] = row, !.new = l] : l \in Fresh(b.lines)}
NewJob(b, row) == {[b EXCEPT !.jobs[j] = row, !.new = j] : j \in Fresh(b.jobs)}
NewCase(b, row) == {[b EXCEPT !.cases[c] = row, !.new = c] : c \in Fresh(b.cases)}
NewOrder(b, row) == {[b EXCEPT !.orders[o] = row, !.new = o] : o \in Fresh(b.orders)}

Open(b, o) == b.orders[o].state = "draft"

JobsOf(b, c) == {j \in Existing(b.jobs) : b.jobs[j].case = c}
ItemsOf(b, j) == {i \in Existing(b.items) : b.items[i].job = j}
LinesOf(b, o) == {l \in Existing(b.lines) : b.lines[l].order = o}
Quoted(b, o) == {j \in Existing(b.jobs) : b.jobs[j].order = o}

\* One after the other, what Op makes of every element of S
Each(Op(_, _), b, S) ==
    FoldSet(LAMBDA x, B : UNION {Op(d, x) : d \in B}, {b}, S)

\* unlink: what points at a removed line points at nothing
Without(x, L) == IF x \in L THEN None ELSE x
Removed(b, L) ==
    [b EXCEPT
       !.lines = [l \in Lines |-> IF l \in L THEN None ELSE b.lines[l]],
       !.items = [i \in Items |-> IF b.items[i] = None THEN None
                                  ELSE [b.items[i] EXCEPT !.line = Without(@, L)]],
       !.jobs = [j \in Jobs |-> IF b.jobs[j] = None THEN None
                                ELSE [b.jobs[j] EXCEPT !.labor = Without(@, L),
                                                       !.note = Without(@, L),
                                                       !.sold = Without(@, L)]]]

Pointed(b, I, l) ==
    [b EXCEPT !.items = [i \in Items |-> IF i \in I THEN [b.items[i] EXCEPT !.line = l]
                                         ELSE b.items[i]]]

-----------------------------------------------------------------------------
(* _southern_sync_tasks_to_quotation *)

\* Lines nobody owns become the job's.
Captured(b, j, o) ==
    [b EXCEPT !.lines = [l \in Lines |-> IF l \in LinesOf(b, o) /\ b.lines[l].job = None
                                         THEN [b.lines[l] EXCEPT !.job = j] ELSE b.lines[l]]]

Labor(b, j) == {i \in ItemsOf(b, j) : b.items[i].labor}
Charged(b, I) == {i \in I : b.items[i].billable}
UnitsOf(b, I) == MapThenSumSet(LAMBDA i : b.items[i].units, I)

\* One labor line for all billable labor of the job, none without any.  Labor
\* cannot be quoted while its product has no price.
LaborSynced(b, j, o) ==
    LET work == Charged(b, Labor(b, j))
        held == b.jobs[j].labor
        row == [order |-> IF held = None THEN o ELSE b.lines[held].order,
                job |-> j, kind |-> "labor", units |-> UnitsOf(b, work)]
    IN CASE work = {} -> {IF held = None THEN b ELSE Removed(b, {held})}
         [] work # {} /\ ~b.jobs[j].rated -> {}
         [] work # {} /\ b.jobs[j].rated /\ held # None ->
              {Pointed([b EXCEPT !.lines[held] = row], work, held)}
         [] OTHER -> {Pointed([d EXCEPT !.jobs[j].labor = d.new], work, d.new) :
                        d \in NewLine(b, row)}

\* Mutated form of Detached: an item that is labor no longer keeps the labor line.
DetachedLaborOnly(b, j) == Pointed(b, Labor(b, j) \ Charged(b, Labor(b, j)), None)

\* Items that no longer count as billable labor leave the labor line.
Detached(b, j) ==
    LET held == b.jobs[j].labor
        retyped == IF held = None THEN {}
                   ELSE {i \in ItemsOf(b, j) \ Labor(b, j) : b.items[i].line = held}
    IN Pointed(b, (Labor(b, j) \ Charged(b, Labor(b, j))) \cup retyped, None)

\* _sync_individual_to_quotation of an item that is not labor.  sale.order.line
\* gives a new line to the first job of the order, in an order people change.
PartSynced(b, i, o) ==
    LET item == b.items[i]
        l == item.line
        bare == IF l # None /\ Open(b, b.lines[l].order) THEN Removed(b, {l}) ELSE b
    IN CASE ~item.billable -> IF l = None THEN {b}
                              ELSE IF Open(b, b.lines[l].order) THEN {bare} ELSE {}
         [] item.billable /\ l # None /\ b.lines[l].order = o ->
              {[b EXCEPT !.lines[l] = [@ EXCEPT !.kind = "part", !.units = item.units]]}
         [] OTHER -> {Pointed(d, {i}, d.new) :
                        d \in UNION {NewLine(bare, [order |-> o, job |-> j, kind |-> "part",
                                                    units |-> item.units]) : j \in Quoted(b, o)}}

\* Mutated form of Syncable: the state of the order is not looked at.
SyncableAnyState(b, o) == o # None

\* An order that is not a quotation any more is left alone.
Syncable(b, o) == o # None /\ Open(b, o)

Synced(b, j, given) ==
    LET o == IF given # None THEN given ELSE b.jobs[j].order
        labored == UNION {LaborSynced(d, j, o) : d \in {Captured(b, j, o)}}
        detached == {Detached(d, j) : d \in labored}
    IN IF Syncable(b, o)
       THEN UNION {Each(LAMBDA e, i : PartSynced(e, i, o), d, ItemsOf(d, j) \ Labor(d, j)) :
                     d \in detached}
       ELSE {b}

-----------------------------------------------------------------------------
(* Case and quotation of a job *)

NativeOrder(b, j) == IF b.jobs[j].sold = None THEN None ELSE b.lines[b.jobs[j].sold].order
CaseOrder(b, j) == IF b.jobs[j].case = None THEN None ELSE b.cases[b.jobs[j].case].order

\* Mutated form of KnownOrder: the quotation of the case is not asked for.
KnownOrderOwn(b, j) == IF b.jobs[j].order # None THEN b.jobs[j].order ELSE NativeOrder(b, j)

KnownOrder(b, j) ==
    CASE b.jobs[j].order # None -> b.jobs[j].order
      [] b.jobs[j].order = None /\ CaseOrder(b, j) # None -> CaseOrder(b, j)
      [] OTHER -> NativeOrder(b, j)

\* A new order of a case
Quotation(b, c) ==
    {[d EXCEPT !.cases[c].order = d.new] :
       d \in NewOrder(b, [state |-> "draft", case |-> c, place |-> b.cases[c].place])}

\* _southern_prepare_case_from_task works on site.
Cased(b, j) ==
    IF b.jobs[j].case # None THEN {b}
    ELSE {[d EXCEPT !.jobs[j].case = d.new] :
            d \in NewCase(b, [order |-> None, place |-> "onsite", state |-> "live", shop |-> 0])}

\* _southern_get_or_create_sale_order
Ordered(b, j) ==
    CASE KnownOrder(b, j) # None -> {[b EXCEPT !.jobs[j].order = KnownOrder(b, j)]}
      [] KnownOrder(b, j) = None /\ ~b.jobs[j].details -> {}
      [] OTHER -> {[d EXCEPT !.jobs[j].order = d.new] :
                     d \in UNION {Quotation(e, e.jobs[j].case) : e \in Cased(b, j)}}

OrderedAndSynced(b, j) == UNION {Synced(d, j, d.jobs[j].order) : d \in Ordered(b, j)}

\* _southern_auto_prepare_quote
Prepared(b, j) ==
    IF b.jobs[j].unified /\ b.jobs[j].details THEN OrderedAndSynced(b, j) ELSE {b}

-----------------------------------------------------------------------------
(* Case, routing and confirmation *)

\* A job the code creates on a case.  It finds the default labor product;
\* WriteJob takes or prices it otherwise.
JobOn(b, c, unified, sold) ==
    [case |-> c, order |-> b.cases[c].order, details |-> TRUE, unified |-> unified,
     rated |-> TRUE, labor |-> None, note |-> None, sold |-> sold]

Unrouted(b, c) == b.cases[c].place \in {"onsite", "hybrid"} /\ JobsOf(b, c) = {}

\* Mutated form of ShopWork: routing does not ask for earlier shop work.
ShopWorkAnew(n) == n + 1

\* _create_or_link_shop_repairs and _create_or_link_maintenance
ShopWork(n) == IF n = 0 THEN n + 1 ELSE n

\* action_route_work, which is refused, and so not taken, when shop work lacks the
\* product of the equipment.  What the case tells all its jobs includes their
\* equipment, so the quotations of all of them are synced.
Routed(b, c) ==
    LET place == b.cases[c].place
        onsite == IF Unrouted(b, c)
                  THEN UNION {Prepared(d, d.new) : d \in NewJob(b, JobOn(b, c, TRUE, None))}
                  ELSE {b}
        shop == {IF place \in {"shop", "hybrid"} THEN [d EXCEPT !.cases[c].shop = ShopWork(@)] ELSE d :
                   d \in onsite}
        told == {[d EXCEPT !.cases[c].state = "live",
                           !.jobs = [j \in Jobs |-> IF j \in JobsOf(d, c)
                                                    THEN [d.jobs[j] EXCEPT !.details = TRUE]
                                                    ELSE d.jobs[j]]] : d \in shop}
    IN IF place = "internal" THEN {[b EXCEPT !.cases[c] = [@ EXCEPT !.shop = ShopWork(@), !.state = "live"]]}
       ELSE UNION {Each(Prepared, d, JobsOf(d, c)) : d \in told}

\* _ensure_southern_service_case
Ensured(b, o) ==
    LET c == b.orders[o].case
        row == [order |-> o, place |-> b.orders[o].place, state |-> "live", shop |-> 0]
    IN IF c = None
       THEN {[d EXCEPT !.orders[o].case = d.new] : d \in NewCase(b, row)}
       ELSE {[b EXCEPT !.cases[c] = [@ EXCEPT !.place = b.orders[o].place,
                                             !.order = IF @ = None THEN o ELSE @]]}

\* Mutated form of Reusable: jobs of the case are never taken for a sold service.
ReusableNone(b, c) == {}

\* Jobs of the case that no line has sold
Reusable(b, c) == {j \in JobsOf(b, c) : b.jobs[j].sold = None}

\* Odoo's confirmation asks for a task of every tracked line that has none;
\* _timesheet_create_task answers with a job of the case where there is one.
Booked(b, l) ==
    LET c == b.orders[b.lines[l].order].case
    IN IF Reusable(b, c) = {} THEN NewJob(b, JobOn(b, c, FALSE, l))
       ELSE {[b EXCEPT !.jobs[j].sold = l] : j \in Reusable(b, c)}

Untaken(b, o) ==
    {l \in LinesOf(b, o) : /\ b.lines[l].kind = "tracked"
                           /\ \A j \in Existing(b.jobs) : b.jobs[j].sold # l}

\* Jobs that Odoo ties to the order and no case has
Adopted(b, o) ==
    [b EXCEPT !.jobs =
        [j \in Jobs |-> IF b.jobs[j] # None /\ b.jobs[j].case = None /\ NativeOrder(b, j) = o
                        THEN [b.jobs[j] EXCEPT !.case = b.orders[o].case] ELSE b.jobs[j]]]

\* action_confirm
Confirmed(b, o) ==
    LET sale == {[d EXCEPT !.orders[o].state = "sale"] : d \in Ensured(b, o)}
        booked == UNION {Each(Booked, d, Untaken(d, o)) : d \in sale}
        adopted == {Adopted(d, o) : d \in booked}
    IN UNION {Routed(d, d.orders[o].case) : d \in adopted}

-----------------------------------------------------------------------------
(* The service side: jobs, work items, AI estimates *)

\* project.task.create, in the jobs workspace or from a customer's case.  A job
\* gets the default labor product.
CreateJob ==
    \E c \in Existing(cases) \cup {None}, full \in BOOLEAN :
        /\ c # None => full /\ cases[c].place # "internal"
        /\ Saved(UNION {Prepared(d, d.new) :
                          d \in NewJob(Book, [case |-> c,
                                              order |-> IF c = None THEN None ELSE cases[c].order,
                                              details |-> full, unified |-> c = None,
                                              rated |-> TRUE, labor |-> None, note |-> None,
                                              sold |-> None])})

\* The customer, the equipment or the labor product of a job is written.
WriteJob(j) ==
    /\ jobs[j] # None
    /\ \E rated \in BOOLEAN :
          /\ ~jobs[j].details \/ rated # jobs[j].rated
          /\ Saved(Prepared([Book EXCEPT !.jobs[j] = [@ EXCEPT !.details = TRUE, !.rated = rated]],
                            j))

\* A person ties a job outside any case to a sold service in Odoo's own form.
TieJob(j, l) ==
    /\ jobs[j] # None /\ jobs[j].case = None /\ jobs[j].sold = None
    /\ lines[l] # None /\ lines[l].kind = "tracked" /\ orders[lines[l].order].state = "sale"
    /\ jobs' = [jobs EXCEPT ![j].sold = l]
    /\ Counted
    /\ UNCHANGED <<cases, orders, items, lines>>

Work == [labor : BOOLEAN, billable : BOOLEAN, units : 1..MaxUnits]
ItemFrom(j, w, l) ==
    [job |-> j, labor |-> w.labor, billable |-> w.billable, units |-> w.units, line |-> l]

ItemAdded(b, j, w) ==
    UNION {Synced([b EXCEPT !.items[i] = ItemFrom(j, w, None)], j, None) : i \in Fresh(b.items)}

CreateItem(j) ==
    /\ jobs[j] # None
    /\ \E w \in Work : Saved(ItemAdded(Book, j, w))

WriteItem(i) ==
    /\ items[i] # None
    /\ \E w \in Work :
          LET row == ItemFrom(items[i].job, w, items[i].line)
          IN /\ row # items[i]
             /\ Saved(Synced([Book EXCEPT !.items[i] = row], items[i].job, None))

\* The line of a part goes with it; that of labor is left to the sync.
DeleteItem(i) ==
    /\ items[i] # None
    /\ LET l == items[i].line
           own == IF l = None \/ items[i].labor THEN {} ELSE {l}
       IN /\ l # None => Open(Book, lines[l].order)
          /\ Saved(UNION {Synced(d, items[i].job, None) :
                            d \in {Removed([Book EXCEPT !.items[i] = None], own)}})

\* The job's quotation is synced and Odoo's mail composer opens.  The mail goes
\* out later, in a transaction of its own, or never.
SendQuote(j) == jobs[j] # None /\ Saved(OrderedAndSynced(Book, j))

ConfirmQuote(j) ==
    /\ jobs[j] # None /\ steps < MaxSteps
    /\ \E d \in OrderedAndSynced(Book, j) :
          LET o == d.jobs[j].order
          IN Open(d, o) /\ Saved(Confirmed(d, o))

\* Mutated form of Noted: the line of the earlier note is not looked for.
NotedAnew(b, j, o) ==
    {[d EXCEPT !.jobs[j].note = d.new] :
       d \in NewLine(b, [order |-> o, job |-> j, kind |-> "note", units |-> 0])}

\* The customer's note of an estimate, one line of a job and order
Noted(b, j, o) ==
    LET l == b.jobs[j].note
        kept == l # None /\ b.lines[l].order = o
    IN IF kept THEN {[b EXCEPT !.lines[l].job = j]}
       ELSE {[d EXCEPT !.jobs[j].note = d.new] :
               d \in NewLine(b, [order |-> o, job |-> j, kind |-> "note", units |-> 0])}

\* What the technician leaves of an AI suggestion, at most one item here.  A
\* suggestion is applied or rejected once, and another can be generated at any
\* time, so that none is kept.
Estimate == [work : SUBSET {w \in Work : w.billable}, noted : BOOLEAN]

\* action_apply_selected
ApplyEstimate(j) ==
    /\ jobs[j] # None /\ steps < MaxSteps
    /\ \E s \in Estimate, b \in Ordered(Book, j) :
          LET o == b.jobs[j].order
              added == IF s.work = {} THEN {b}
                       ELSE UNION {ItemAdded(b, j, w) : w \in s.work}
              noted == IF s.noted THEN UNION {Noted(d, j, o) : d \in added} ELSE added
          IN /\ s.work # {} \/ s.noted
             /\ Cardinality(s.work) <= 1
             /\ Open(b, o)
             /\ \A w \in s.work : w.labor => b.jobs[j].rated
             /\ Saved(UNION {Synced(d, j, o) : d \in noted})

-----------------------------------------------------------------------------
(* The coordinator's cases *)

OpenCase(place) ==
    Saved(NewCase(Book, [order |-> None, place |-> place, state |-> "live", shop |-> 0]))

QuoteCase(c) ==
    /\ cases[c] # None /\ cases[c].place # "internal"
    /\ cases[c].order = None /\ cases[c].state # "ended"
    /\ Saved(Quotation(Book, c))

RouteCase(c) ==
    /\ cases[c] # None /\ cases[c].state # "ended"
    /\ Saved(Routed(Book, c))

\* The case is closed or cancelled.
EndCase(c) ==
    /\ cases[c] # None /\ cases[c].state # "ended"
    /\ cases' = [cases EXCEPT ![c].state = "ended"]
    /\ Counted
    /\ UNCHANGED <<orders, jobs, items, lines>>

-----------------------------------------------------------------------------
(* Sales, in the forms of orders *)

CreateOrder == Saved(NewOrder(Book, [state |-> "draft", case |-> None, place |-> "onsite"]))

RouteOrder(o) ==
    /\ orders[o] # None /\ orders[o].state # "cancel"
    /\ orders[o].case # None => cases[orders[o].case].state # "ended"
    /\ Saved(UNION {Routed(d, d.orders[o].case) : d \in Ensured(Book, o)})

ConfirmOrder(o) ==
    /\ orders[o] # None /\ orders[o].state = "draft"
    /\ Saved(Confirmed(Book, o))

RelocateOrder(o, place) ==
    /\ orders[o] # None /\ orders[o].state = "draft" /\ orders[o].place # place
    /\ orders' = [orders EXCEPT ![o].place = place]
    /\ Counted
    /\ UNCHANGED <<cases, jobs, items, lines>>

CancelOrder(o) ==
    /\ orders[o] # None /\ orders[o].state # "cancel"
    /\ orders' = [orders EXCEPT ![o].state = "cancel"]
    /\ Counted
    /\ UNCHANGED <<cases, jobs, items, lines>>

ReopenOrder(o) ==
    /\ orders[o] # None /\ orders[o].state = "cancel"
    /\ orders' = [orders EXCEPT ![o].state = "draft"]
    /\ Counted
    /\ UNCHANGED <<cases, jobs, items, lines>>

DeleteOrder(o) ==
    /\ orders[o] # None /\ orders[o].state \in {"draft", "cancel"}
    /\ \E d \in {Removed(Book, LinesOf(Book, o))} :
          Saved({[d EXCEPT
                   !.orders[o] = None,
                   !.cases = [c \in Cases |->
                                IF cases[c] = None THEN None
                                ELSE [cases[c] EXCEPT !.order = IF @ = o THEN None ELSE @]],
                   !.jobs = [j \in Jobs |->
                               IF d.jobs[j] = None THEN None
                               ELSE [d.jobs[j] EXCEPT !.order = IF @ = o THEN None ELSE @]]]})

\* sale.order.line.create gives the line to the first job of the order.  A line
\* added to a sold order asks for its task at once.
AddLine(o) ==
    /\ orders[o] # None /\ orders[o].state # "cancel"
    /\ \E owner \in IF Quoted(Book, o) = {} THEN {None} ELSE Quoted(Book, o) :
          LET added == NewLine(Book, [order |-> o, job |-> owner, kind |-> "tracked", units |-> 0])
          IN Saved(IF orders[o].state = "sale" THEN UNION {Booked(d, d.new) : d \in added}
                   ELSE added)

\* Sales may change the quantities of a sold order too.
EditLine(l) ==
    /\ lines[l] # None /\ orders[lines[l].order].state # "cancel"
    /\ lines[l].kind \in {"labor", "part"}
    /\ \E n \in 0..MaxUnits : n # lines[l].units /\ lines' = [lines EXCEPT ![l].units = n]
    /\ Counted
    /\ UNCHANGED <<cases, orders, jobs, items>>

DropLine(l) ==
    /\ lines[l] # None /\ orders[lines[l].order].state # "sale"
    /\ Saved({Removed(Book, {l})})

-----------------------------------------------------------------------------

Service ==
    \/ CreateJob
    \/ \E j \in Jobs :
          \/ WriteJob(j) \/ SendQuote(j) \/ ConfirmQuote(j)
          \/ CreateItem(j) \/ ApplyEstimate(j)
          \/ \E l \in Lines : TieJob(j, l)
    \/ \E i \in Items : WriteItem(i) \/ DeleteItem(i)

Coordination ==
    \/ OpenCase("onsite") \/ OpenCase("internal")
    \/ \E c \in Cases : QuoteCase(c) \/ RouteCase(c) \/ EndCase(c)

Sales ==
    \/ CreateOrder
    \/ \E o \in Orders :
          \/ RouteOrder(o) \/ ConfirmOrder(o) \/ CancelOrder(o) \/ ReopenOrder(o)
          \/ DeleteOrder(o) \/ AddLine(o)
          \/ \E place \in Places : RelocateOrder(o, place)
    \/ \E l \in Lines : EditLine(l) \/ DropLine(l)

Next == Service \/ Coordination \/ Sales

Spec == Init /\ [][Next]_vars

-----------------------------------------------------------------------------
(* Properties *)

Rows(S, R) == [S -> R \cup {None}]

\* Every record is of its table; no case has shop work twice.
TypeOK ==
    /\ cases \in Rows(Cases, CaseRow) /\ orders \in Rows(Orders, OrderRow)
    /\ jobs \in Rows(Jobs, JobRow) /\ items \in Rows(Items, ItemRow)
    /\ lines \in Rows(Lines, LineRow) /\ steps \in 0..MaxSteps

\* A case, its quotation and the jobs on it name each other: no case has two
\* quotations, whichever side creates or deletes one
\* (_southern_get_or_create_sale_order, _ensure_southern_service_case).
QuoteLinksAgree ==
    /\ \A c \in Existing(cases) :
          cases[c].order # None => orders[cases[c].order].case = c
    /\ \A o \in Existing(orders) :
          orders[o].case # None => cases[orders[o].case].order = o
    /\ \A j \in Existing(jobs) :
          (jobs[j].order # None /\ jobs[j].case # None) => cases[jobs[j].case].order = jobs[j].order

\* Every labor line and every note of an estimate is the one its job holds, so
\* no job has two of them on its quotation, and two items share a line only if
\* it is that of labor: labor and notes are written in place.
GeneratedLinesAreHeld ==
    /\ \A l \in Existing(lines) :
          /\ lines[l].kind = "labor" => jobs[lines[l].job].labor = l
          /\ lines[l].kind = "note" => jobs[lines[l].job].note = l
    /\ \A i, k \in Existing(items) :
          (i # k /\ items[i].line # None /\ items[i].line = items[k].line)
             => lines[items[i].line].kind = "labor"

\* docs/SERVICE_PRODUCTION_READINESS.md: confirmed lines are protected from the
\* service side.  While its order is sold a line stays, and changes only where
\* Sales edits it.
ConfirmedLinesStand ==
    [][\A l \in Existing(lines) :
          orders[lines[l].order].state = "sale" => lines'[l] = lines[l] \/ EditLine(l)]_vars

\* The billable work of a job is on its order: each part on a line of its own,
\* all labor on the labor line, with the units worked, and no item that is not
\* billed points at a line.
CoversWork(b, j) ==
    LET o == b.jobs[j].order
        work == Charged(b, Labor(b, j))
        held == b.jobs[j].labor
        On(i) == b.items[i].line
    IN /\ \A i \in ItemsOf(b, j) \ Labor(b, j) :
             IF b.items[i].billable
             THEN /\ On(i) # None
                  /\ b.lines[On(i)].order = o /\ b.lines[On(i)].kind = "part"
                  /\ b.lines[On(i)].units = b.items[i].units
             ELSE On(i) = None
       /\ \A i \in Labor(b, j) : On(i) = IF b.items[i].billable THEN held ELSE None
       /\ IF work = {} THEN held = None
          ELSE /\ held # None /\ b.lines[held].order = o
               /\ b.lines[held].kind = "labor" /\ b.lines[held].units = UnitsOf(b, work)

\* The quotation that a job opens in the mail composer or confirms carries its
\* work, whatever Sales did to the lines before and whatever changed while the
\* order was sold or cancelled (action_southern_send_quotation,
\* action_southern_confirm_sale_order).  And no line is left behind on the way: a
\* part's line stays only as long as an item holds it.  The exception is an item
\* that is labor by then: _southern_sync_tasks_to_quotation gives it the labor line
\* and forgets that of the part, so that the customer is billed for both.
QuoteCarriesWork ==
    [][/\ \A j \in Existing(jobs') :
             \/ CoversWork(Book, j)'
             \/ ~ConfirmQuote(j) /\ (Syncable(Book, jobs[j].order)' => ~SendQuote(j))
       /\ \A i \in Existing(items) :
             LET l == items[i].line
             IN /\ l \in Existing(lines) /\ lines[l].kind = "part" /\ ~items[i].labor
                /\ items'[i] # None => ~items'[i].labor
                /\ lines'[l] # None /\ lines'[l].kind = "part"
                => \E k \in Existing(items') : items'[k].line = l]_vars

\* Routing and confirmation take the jobs of a case before they create one: a
\* job they add leaves none behind that is not sold
\* (SERVICE_PRODUCTION_READINESS.md: reuse an already-routed unbilled task).
JobsAreReused ==
    [][\A j \in Existing(jobs') \ Existing(jobs) :
          LET c == jobs'[j].case
              added == c \in Existing(cases) /\ (jobs'[j].unified \/ jobs'[j].sold # None)
          IN added => \A k \in Existing(jobs) :
                         jobs[k].case = c => jobs'[k].sold # None]_vars

=============================================================================
