---------------------------- MODULE StripeTerminal ----------------------------
(***************************************************************************)
(* Card payments of customer invoices in southern_stripe_terminal: the     *)
(* terminal payments of Odoo, their PaymentIntents and the reader at       *)
(* Stripe, and the webhook events that tell Odoo what happened.            *)
(*                                                                         *)
(* An Odoo method is one transaction over a snapshot: nobody sees what it  *)
(* writes before it commits, and it does not commit over a concurrent      *)
(* change of the same payment.  Its requests to Stripe are not part of it: *)
(* they stand when it is rolled back, and a request whose answer is an     *)
(* error may have been carried out.  The two methods that hold a reader    *)
(* check their guards, send their requests and commit in three steps; the  *)
(* others are one step.                                                    *)
(*                                                                         *)
(* A terminal payment and the PaymentIntent made under its idempotency key *)
(* share a number.  There is one company and one reader.                   *)
(***************************************************************************)
EXTENDS Integers

CONSTANTS
  Invoices,   (* posted customer invoices                                  *)
  Balance,    (* their residual amount at first                            *)
  MaxKeys,    (* bound: terminal payments, and so idempotency keys, begun  *)
  WithFee     (* whether a payment charges a supplemental processing fee   *)

ASSUME AmountsAssumption ==
  /\ Invoices # {} /\ Balance \in Nat \ {0}
  /\ MaxKeys \in Nat /\ WithFee \in BOOLEAN

VARIABLES
  residual,   (* amount_residual of each invoice                           *)
  payment,    (* the terminal payments                                     *)
  flight,     (* the open transaction that sends each payment to a reader  *)
  intent,     (* status of each PaymentIntent at Stripe                    *)
  reader,     (* the PaymentIntent the reader is collecting, 0 for none    *)
  events      (* webhook events Odoo has not yet marked processed          *)

vars == <<residual, payment, flight, intent, reader, events>>

-----------------------------------------------------------------------------
Keys == 1..MaxKeys

(* "draft" exists only inside a transaction.  linked: payment_intent_id is *)
(* set.  accounted: account_payment_id is set.                             *)
PaymentRecord ==
  [state : {"absent", "in_progress", "stripe_succeeded", "registered",
            "failed", "canceled", "needs_review"},
   invoice : Invoices, amount : 0..Balance, linked : BOOLEAN,
   accounted : BOOLEAN, fee : {"none", "open", "paid"}]

(* An open transaction: the payment it started from and has now.           *)
FlightRecord ==
  [phase : {"none", "checked", "answered"}, was : PaymentRecord, p : PaymentRecord]

(* "open" is any status in which the card can still be charged.            *)
IntentStatus == {"none", "open", "succeeded", "canceled"}

(* Undelivered events of one type for one payment are taken as one.        *)
Event == [type : {"succeeded", "canceled", "action_succeeded", "action_failed"},
          key : Keys]

Opened == {"in_progress", "stripe_succeeded", "failed", "needs_review"}

Absent(i) == [state |-> "absent", invoice |-> i, amount |-> 0, linked |-> FALSE,
              accounted |-> FALSE, fee |-> "none"]

NoPayment == Absent(CHOOSE i \in Invoices : TRUE)

NoFlight == [phase |-> "none", was |-> NoPayment, p |-> NoPayment]

Init ==
  /\ residual = [i \in Invoices |-> Balance]
  /\ payment = [k \in Keys |-> NoPayment]
  /\ flight = [k \in Keys |-> NoFlight]
  /\ intent = [k \in Keys |-> "none"]
  /\ reader = 0
  /\ events = {}

Of(k) == residual[payment[k].invoice]

(* Keys no attempt has used: one rolled back may leave its intent behind.  *)
Fresh == {k \in Keys : /\ payment[k].state = "absent"
                       /\ flight[k].phase = "none" /\ intent[k] = "none"}
NextKey == CHOOSE k \in Fresh : \A j \in Fresh : k <= j

(* No other payment waits for a card on the reader.                        *)
ReaderFree(k) == \A j \in Keys \ {k} : payment[j].state # "in_progress"

-----------------------------------------------------------------------------
(* Sending a payment to the reader.                                        *)

(* action_pay_with_stripe_terminal: its guards and the new payment.        *)
Pay(i) ==
  /\ residual[i] > 0
  /\ \A k \in Keys : payment[k].invoice = i => payment[k].state \notin Opened
  /\ Fresh # {} /\ ReaderFree(NextKey)
  /\ flight' = [flight EXCEPT ![NextKey] =
       [phase |-> "checked", was |-> NoPayment,
        p |-> [Absent(i) EXCEPT !.amount = residual[i]]]]
  /\ UNCHANGED <<residual, payment, intent, reader, events>>

(* action_retry: its guards.                                               *)
Retry(k) ==
  /\ payment[k].state = "failed" /\ payment[k].amount = Of(k)
  /\ flight[k].phase = "none" /\ ReaderFree(k)
  /\ flight' = [flight EXCEPT ![k] =
       [phase |-> "checked", was |-> payment[k], p |-> payment[k]]]
  /\ UNCHANGED <<residual, payment, intent, reader, events>>

(* The requests of action_send_to_reader, or of a retry of a payment that  *)
(* has its intent: create the intent, which repeats nothing under a known  *)
(* key, then have the reader collect it.  The reader drops a payment no    *)
(* card was presented for.  A repeated try that was rolled back after its  *)
(* requests is answered from Stripe's memory and moves no reader.          *)
Send(k) ==
  LET p       == flight[k].p
      created == IF intent[k] = "none" THEN "open" ELSE intent[k]
      on      == {reader} \cup {r \in {k} : created = "open"}
      Answer(state, linked) ==
        flight' = [flight EXCEPT ![k].phase = "answered",
                                 ![k].p = [p EXCEPT !.state = state, !.linked = linked]]
  IN  /\ flight[k].phase = "checked"
      /\ \/ ~p.linked /\ intent' \in {[intent EXCEPT ![k] = s] : s \in {intent[k], created}}
            /\ UNCHANGED reader /\ Answer("failed", FALSE)
         \/ /\ intent' = [intent EXCEPT ![k] = created]
            /\ \/ reader' \in on /\ Answer("failed", TRUE)
               \/ created = "open" /\ reader' \in (IF p.state = "absent" THEN {k} ELSE on)
                  /\ Answer("in_progress", TRUE)
      /\ UNCHANGED <<residual, payment, events>>

(* The transaction ends: it commits unless the payment was changed         *)
(* meanwhile, or is rolled back.                                           *)
End(k) ==
  /\ flight[k].phase = "answered"
  /\ flight' = [flight EXCEPT ![k] = NoFlight]
  /\ \/ UNCHANGED payment
     \/ /\ payment[k] = flight[k].was
        /\ payment' = [payment EXCEPT ![k] = flight[k].p]
  /\ UNCHANGED <<residual, intent, reader, events>>

-----------------------------------------------------------------------------
(* Other operations of the staff.                                          *)

(* The intent that action_cancel has to cancel at Stripe.                  *)
IntentToCancel(k) == payment[k].linked /\ intent[k] = "open"

(* action_cancel: clears the reader while the payment waits for a card,    *)
(* whatever it collects, and cancels the intent unless Stripe shows it     *)
(* succeeded or canceled.  A failed request or a rollback leaves the       *)
(* payment; a repeated request for the reader clears nothing.              *)
Cancel(k) ==
  /\ payment[k].state \in {"in_progress", "failed"}
  /\ reader' \in {reader} \cup {r \in {0} : payment[k].state = "in_progress"}
  /\ \/ UNCHANGED <<payment, intent, events>>
     \/ /\ IF IntentToCancel(k)
             THEN /\ intent' = [intent EXCEPT ![k] = "canceled"]
                  /\ events' = events \cup {[type |-> "canceled", key |-> k]}
             ELSE UNCHANGED <<intent, events>>
        /\ payment' \in {payment, [payment EXCEPT ![k].state = "canceled"]}
  /\ UNCHANGED <<residual, flight>>

(* Cash, ACH or a credit note on an invoice, or on the fee invoice.        *)
OtherPayment(i) ==
  /\ residual[i] > 0
  /\ residual' = [residual EXCEPT ![i] = @ - 1]
  /\ UNCHANGED <<payment, flight, intent, reader, events>>

FeePayment(k) ==
  /\ payment[k].fee = "open"
  /\ payment' = [payment EXCEPT ![k].fee = "paid"]
  /\ UNCHANGED <<residual, flight, intent, reader, events>>

-----------------------------------------------------------------------------
(* Finalisation.                                                           *)

AlreadyAccounted(p) == p.accounted

(* Mutated form: compares with the total of the invoice.                   *)
BalanceUnchangedTotal(p, due) == p.amount = Balance

(* The invoice still owes what the payment was started for.                *)
BalanceUnchanged(p, due) == due > 0 /\ p.amount = due

(* _register_odoo_payment on p, whose state is stripe_succeeded, with the  *)
(* balance due: the records it may leave.  It may raise before or after    *)
(* the fee invoice is posted, which then stays; a fee invoice of an        *)
(* earlier try is used again unless somebody paid it.                      *)
Registered(p, due) ==
  LET review == [p EXCEPT !.state = "needs_review"]
      billed == IF WithFee /\ p.fee = "none" THEN "open" ELSE p.fee
      booked == [p EXCEPT !.state = "registered", !.accounted = TRUE,
                          !.fee = IF WithFee THEN "paid" ELSE "none"]
  IN  CASE AlreadyAccounted(p) -> {p}
        [] ~AlreadyAccounted(p) /\ BalanceUnchanged(p, due) ->
             {review, [review EXCEPT !.fee = billed]} \cup {q \in {booked} : billed # "paid"}
        [] OTHER -> {review}

(* Mutated form: takes a payment the reader was sent for a collected one.  *)
StripeShowsSent(k) == IF intent[k] = "open" THEN "succeeded" ELSE intent[k]

StripeShows(k) == intent[k]

(* Mutated form: a canceled payment is not looked at again.                *)
DoneOrCanceled(p) == p.state \in {"registered", "canceled"}

Done(p) == p.state = "registered"

(* _stripe_refresh_and_finalize on a record p of key k.                    *)
Finalized(k, p) ==
  IF Done(p) THEN {p}
  ELSE CASE StripeShows(k) = "succeeded" ->
              Registered([p EXCEPT !.state = "stripe_succeeded"], Of(k))
         [] StripeShows(k) = "canceled" -> {[p EXCEPT !.state = "canceled"]}
         [] OTHER -> {p} \cup {q \in {[p EXCEPT !.state = "failed"]} : p.state # "in_progress"}

(* Mutated form: the fee is credited to the invoice too.                   *)
CreditedWithFee(p) == p.amount + 1

(* What the accounting payment settles of the invoice itself.              *)
Credited(p) == p.amount

(* The payment becomes p, whose registration settles the invoice.          *)
Becomes(k, p) ==
  /\ payment' = [payment EXCEPT ![k] = p]
  /\ residual' = IF p.accounted /\ ~payment[k].accounted
                   THEN [residual EXCEPT ![p.invoice] = @ - Credited(p)] ELSE residual

(* action_refresh_status, where the form offers it, action_simulate_card   *)
(* and the polling cron.                                                   *)
Refresh(k) ==
  /\ payment[k].state \in {"in_progress", "stripe_succeeded", "needs_review"}
  /\ \E p \in Finalized(k, payment[k]) : Becomes(k, p)
  /\ UNCHANGED <<flight, intent, reader, events>>

(* The webhook's own write, before it asks Stripe.                         *)
Noted(e) ==
  IF e.type = "action_failed" THEN [payment[e.key] EXCEPT !.state = "failed"]
  ELSE payment[e.key]

Known(e) == payment[e.key].linked

(* A webhook event is processed: one of no payment Odoo can see is dropped.*)
Deliver(e) ==
  /\ events' = events \ {e}
  /\ IF Known(e) THEN \E p \in Finalized(e.key, Noted(e)) : Becomes(e.key, p)
     ELSE UNCHANGED <<payment, residual>>
  /\ UNCHANGED <<flight, intent, reader>>

(* The handler cannot reach Stripe: its own write stands, the event is     *)
(* left for the next delivery.                                             *)
DeliverFails(e) ==
  /\ Known(e) /\ e.type = "action_failed"
  /\ payment' = [payment EXCEPT ![e.key] = Noted(e)]
  /\ UNCHANGED <<residual, flight, intent, reader, events>>

-----------------------------------------------------------------------------
(* Stripe.                                                                 *)

(* The customer's card is charged.                                         *)
CardCharged ==
  /\ reader # 0 /\ intent[reader] = "open"
  /\ intent' = [intent EXCEPT ![reader] = "succeeded"]
  /\ events' = events \cup [type : {"succeeded", "action_succeeded"}, key : {reader}]
  /\ reader' = 0
  /\ UNCHANGED <<residual, payment, flight>>

(* The card is declined, nobody presents one, or the intent is canceled.   *)
ReaderGivesUp ==
  /\ reader # 0
  /\ events' = events \cup {[type |-> "action_failed", key |-> reader]}
  /\ reader' = 0
  /\ UNCHANGED <<residual, payment, flight, intent>>

Next ==
  \/ \E i \in Invoices : Pay(i) \/ OtherPayment(i)
  \/ \E k \in Keys : Retry(k) \/ Send(k) \/ End(k)
  \/ \E k \in Keys : Cancel(k) \/ FeePayment(k) \/ Refresh(k)
  \/ \E e \in events : Deliver(e) \/ DeliverFails(e)
  \/ CardCharged \/ ReaderGivesUp

Spec == Init /\ [][Next]_vars

(* Stripe delivers an event again until Odoo has processed it, requests    *)
(* are answered or time out, and the polling cron is switched on.          *)
Delivery == \A e \in Event : WF_vars(e \in events /\ Deliver(e))
Transactions == \A k \in Keys : WF_vars(Send(k)) /\ WF_vars(End(k))
Polling == \A k \in Keys :
  WF_vars(payment[k].state \in {"in_progress", "stripe_succeeded"} /\ Refresh(k))

FairSpec == Spec /\ Delivery /\ Transactions /\ Polling

-----------------------------------------------------------------------------
(* Properties.                                                             *)

(* Types of the variables.                                                 *)
TypeOK ==
  /\ residual \in [Invoices -> 0..Balance]
  /\ payment \in [Keys -> PaymentRecord]
  /\ flight \in [Keys -> FlightRecord]
  /\ intent \in [Keys -> IntentStatus]
  /\ reader \in {0} \cup Keys
  /\ events \subseteq Event

(* An accounting payment exists only for a charge Stripe shows succeeded,  *)
(* and a fee is invoiced only for such a charge, also when the intent was  *)
(* canceled, retried or abandoned meanwhile.                               *)
AccountedOnlyIfCharged ==
  \A k \in Keys :
    payment[k].accounted \/ payment[k].fee # "none" => intent[k] = "succeeded"

(* However many cards were charged for an invoice (two users paying at     *)
(* once, a payment canceled after its charge, an answer lost), at most one *)
(* terminal payment of it is accounted for, also when webhooks come late,  *)
(* twice or between two refreshes.                                         *)
AccountedOnce ==
  \A k, j \in Keys :
    /\ payment[k].accounted /\ payment[j].accounted
    /\ payment[k].invoice = payment[j].invoice
    => k = j

(* What card payments promise the books: a charge is one of Stripe's, and  *)
(* it is booked on the invoice whose payment is accounted for.  So lost    *)
(* answers, rolled back transactions, retries and late or repeated events  *)
(* never book a charge twice, book one that was not made, or settle an     *)
(* invoice for more or less than it owes.                                  *)
Charged == {k \in Keys : intent[k] = "succeeded"}
Booked == {<<k, payment[k].invoice>> : k \in {j \in Keys : payment[j].accounted}}

Contract == INSTANCE PaymentContract
  WITH Charges <- Keys, Total <- Balance, due <- residual, charged <- Charged, booked <- Booked

KeepsContract == Contract!Spec

(* A payment that is accounted for is never sent to review as one whose    *)
(* invoice somebody else has settled, whatever events arrive late.         *)
AccountedIsNotReviewed ==
  \A k \in Keys : payment[k].accounted => payment[k].state # "needs_review"

(* A payment with an intent that Odoo shows canceled cannot collect a card *)
(* any more, even if a failed answer hid that the reader has it.           *)
CanceledCannotCollect ==
  \A k \in Keys :
    payment[k].state = "canceled" /\ payment[k].linked => intent[k] # "open"

(* A charge whose notice finds its payment is at last accounted for or     *)
(* under review, though the payment be canceled, retried or settled by     *)
(* another payment before, and deliveries fail.                            *)
NoticedChargeIsFollowed ==
  \A k \in Keys :
    ([type |-> "succeeded", key |-> k] \in events /\ payment[k].linked)
      ~> (payment[k].accounted \/ payment[k].state = "needs_review")

(* The README says the module "registers the successful card-present       *)
(* charge": every charge is at last accounted for or under review.         *)
ChargeIsRegistered ==
  \A k \in Keys :
    intent[k] = "succeeded" ~> (payment[k].accounted \/ payment[k].state = "needs_review")
=============================================================================
