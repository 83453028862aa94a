------------------------- MODULE StripeTerminal_proofs -------------------------
(***************************************************************************)
(* Proofs about StripeTerminal for any number of invoices and payments and *)
(* any balance, with and without a supplemental fee.                       *)
(***************************************************************************)
EXTENDS StripeTerminal, WellFoundedInduction, TLAPS

(* What holds of each payment, its intent and its invoice.  An accounting  *)
(* payment has settled its invoice; a linked intent exists at Stripe.      *)
PaymentOK(k) ==
  LET p == payment[k]
  IN  /\ p.accounted \/ p.fee # "none" => intent[k] = "succeeded"
      /\ p.accounted => p.state # "needs_review" /\ residual[p.invoice] = 0
      /\ p.state = "canceled" /\ p.linked => intent[k] # "open"
      /\ p.linked => intent[k] # "none"

(* An open transaction has not touched what finalisation writes, and knows *)
(* only an intent that exists.                                             *)
FlightOK(k) ==
  LET f == flight[k]
  IN  f.phase # "none" =>
        /\ f.p.accounted = f.was.accounted /\ f.p.fee = f.was.fee
        /\ f.was.accounted => f.p.invoice = f.was.invoice
        /\ f.p.linked => intent[k] # "none"
        /\ f.phase = "answered" => f.p.state \in {"failed", "in_progress"}

(* The inductive invariant.                                                *)
IInv ==
  /\ TypeOK
  /\ \A k \in Keys : PaymentOK(k)
  /\ \A k \in Keys : FlightOK(k)
  /\ AccountedOnce

-----------------------------------------------------------------------------
(* The records that registration may leave of a payment p.                 *)
LEMMA RegisteredFacts ==
  ASSUME NEW p \in PaymentRecord, p.state = "stripe_succeeded",
         NEW due \in 0..Balance, NEW q \in Registered(p, due)
  PROVE  /\ q \in PaymentRecord
         /\ q.invoice = p.invoice /\ q.linked = p.linked /\ q.amount = p.amount
         /\ p.accounted => q.accounted
         /\ q.accounted /\ ~p.accounted => due > 0 /\ q.amount = due
         /\ q.accounted => q.state # "needs_review"
         /\ q.state # "canceled"
<1>1. CASE p.accounted
  BY <1>1 DEF Registered, AlreadyAccounted
<1>2. CASE ~p.accounted
  <2> DEFINE review == [p EXCEPT !.state = "needs_review"]
             billed == IF WithFee /\ p.fee = "none" THEN "open" ELSE p.fee
             charged == [review EXCEPT !.fee = billed]
             booked == [p EXCEPT !.state = "registered", !.accounted = TRUE,
                                 !.fee = IF WithFee THEN "paid" ELSE "none"]
             Keeps(r) == /\ r \in PaymentRecord
                         /\ r.invoice = p.invoice /\ r.linked = p.linked
                         /\ r.amount = p.amount
  <2>1. Keeps(review) /\ review.state = "needs_review" /\ ~review.accounted
    BY <1>2 DEF PaymentRecord
  <2>2. Keeps(charged) /\ charged.state = "needs_review" /\ ~charged.accounted
    <3>1. billed \in {"none", "open", "paid"}
      BY DEF PaymentRecord
    <3> HIDE DEF billed
    <3>2. QED
      BY <1>2, <3>1 DEF PaymentRecord
  <2>3. Keeps(booked) /\ booked.state = "registered"
    BY DEF PaymentRecord
  <2>4. \/ q = review \/ q = charged
        \/ q = booked /\ BalanceUnchanged(p, due)
    BY <1>2, Zenon DEF Registered, AlreadyAccounted
  <2>5. BalanceUnchanged(p, due) => due > 0 /\ p.amount = due
    BY DEF BalanceUnchanged
  <2> HIDE DEF review, charged, booked
  <2>6. QED
    BY <1>2, <2>1, <2>2, <2>3, <2>4, <2>5
<1>3. QED
  BY <1>1, <1>2

(* The records that finalisation may leave of a record p of payment k.     *)
LEMMA FinalizedFacts ==
  ASSUME TypeOK, NEW k \in Keys, NEW p \in PaymentRecord, NEW q \in Finalized(k, p)
  PROVE  /\ q \in PaymentRecord
         /\ q.invoice = p.invoice /\ q.linked = p.linked /\ q.amount = p.amount
         /\ (q.accounted \/ q.fee # "none") =>
              intent[k] = "succeeded" \/ p.accounted \/ p.fee # "none"
         /\ p.accounted => q.accounted
         /\ q.accounted /\ ~p.accounted => Of(k) > 0 /\ q.amount = Of(k)
         /\ q.accounted /\ q.state = "needs_review" => p.accounted /\ p.state = "needs_review"
         /\ q.state = "canceled" => intent[k] = "canceled" \/ p.state = "canceled"
<1>1. CASE Done(p)
  BY <1>1 DEF Finalized
<1>2. CASE ~Done(p) /\ intent[k] = "succeeded"
  <2> DEFINE s == [p EXCEPT !.state = "stripe_succeeded"]
  <2>1. /\ s \in PaymentRecord /\ s.state = "stripe_succeeded"
        /\ s.invoice = p.invoice /\ s.linked = p.linked /\ s.amount = p.amount
        /\ s.accounted = p.accounted /\ s.fee = p.fee
    BY DEF PaymentRecord
  <2>2. q \in Registered(s, Of(k))
    BY <1>2 DEF Finalized, StripeShows
  <2>3. Of(k) \in 0..Balance
    BY DEF TypeOK, PaymentRecord, Of
  <2> HIDE DEF s
  <2>4. QED
    BY <1>2, <2>1, <2>2, <2>3, RegisteredFacts
<1>3. CASE ~Done(p) /\ intent[k] = "canceled"
  BY <1>3 DEF Finalized, StripeShows, PaymentRecord
<1>4. CASE ~Done(p) /\ intent[k] \notin {"succeeded", "canceled"}
  <2>1. q = p \/ q = [p EXCEPT !.state = "failed"]
    BY <1>4 DEF Finalized, StripeShows
  <2>2. QED
    BY <2>1 DEF PaymentRecord
<1>5. QED
  BY <1>1, <1>2, <1>3, <1>4

-----------------------------------------------------------------------------
(* A nonempty set of naturals has a least element.                         *)
LEMMA LeastOfNat ==
  ASSUME NEW S \in SUBSET Nat, S # {}
  PROVE  \E i \in S : \A j \in S : i <= j
<1>1. PICK i \in S : \A j \in S : ~ (<<j, i>> \in OpToRel(<, Nat))
  BY NatLessThanWellFounded, WFMin, Zenon
<1>2. \A j \in S : ~ (j < i)
  BY <1>1 DEF OpToRel
<1>3. \A j \in S : i <= j
  BY <1>2
<1>4. QED
  BY <1>3

-----------------------------------------------------------------------------
(* The invariant holds at first.                                           *)
LEMMA InitIInv == Init => IInv
<1> SUFFICES ASSUME Init PROVE IInv
  OBVIOUS
<1>1. (CHOOSE i \in Invoices : TRUE) \in Invoices
  BY AmountsAssumption
<1>2. /\ NoPayment \in PaymentRecord /\ ~NoPayment.accounted
      /\ NoPayment.fee = "none" /\ NoPayment.state = "absent" /\ ~NoPayment.linked
  BY <1>1, AmountsAssumption DEF NoPayment, Absent, PaymentRecord
<1>3. NoFlight \in FlightRecord /\ NoFlight.phase = "none"
  BY <1>2 DEF NoFlight, FlightRecord
<1>4. TypeOK
  BY <1>2, <1>3, AmountsAssumption DEF Init, TypeOK, IntentStatus, Event
<1>5. QED
  BY <1>2, <1>3, <1>4 DEF Init, IInv, PaymentOK, FlightOK, AccountedOnce

(* Finalising a payment, whose state a webhook may have set to failed.     *)
LEMMA BecomesKeeps ==
  ASSUME IInv, NEW k \in Keys, NEW p \in {payment[k], [payment[k] EXCEPT !.state = "failed"]},
         NEW q \in Finalized(k, p), Becomes(k, q),
         UNCHANGED <<flight, intent, reader>>, events' \subseteq Event
  PROVE  IInv'
<1>1. /\ p \in PaymentRecord /\ p.invoice = payment[k].invoice
      /\ p.accounted = payment[k].accounted /\ p.fee = payment[k].fee
      /\ p.linked = payment[k].linked
      /\ p.state = payment[k].state \/ p.state = "failed"
  BY DEF IInv, TypeOK, PaymentRecord
<1>2. /\ q \in PaymentRecord
      /\ q.invoice = payment[k].invoice /\ q.linked = payment[k].linked
      /\ (q.accounted \/ q.fee # "none") => intent[k] = "succeeded"
      /\ payment[k].accounted => q.accounted
      /\ q.accounted /\ ~payment[k].accounted => Of(k) > 0 /\ q.amount = Of(k)
      /\ q.accounted => q.state # "needs_review"
      /\ q.state = "canceled" /\ q.linked => intent[k] # "open"
  BY <1>1, FinalizedFacts DEF IInv, PaymentOK
<1>3. payment' = [payment EXCEPT ![k] = q] /\ payment'[k] = q
  BY DEF Becomes, IInv, TypeOK
<1>4. /\ residual' \in [Invoices -> 0..Balance]
      /\ \A i \in Invoices : residual[i] = 0 => residual'[i] = 0
      /\ q.accounted => residual'[q.invoice] = 0
  <2>1. CASE q.accounted /\ ~payment[k].accounted
    <3>1. residual' = [residual EXCEPT ![q.invoice] = 0]
      <4>1. residual[q.invoice] \in 0..Balance /\ q.amount = residual[q.invoice]
        BY <1>2, <2>1 DEF IInv, TypeOK, PaymentRecord, Of
      <4>2. residual[q.invoice] - Credited(q) = 0
        BY <4>1 DEF Credited
      <4>3. residual' = [residual EXCEPT ![q.invoice] = residual[q.invoice] - Credited(q)]
        BY <2>1 DEF Becomes
      <4>4. QED
        BY <4>2, <4>3
    <3>2. 0 \in 0..Balance /\ q.invoice \in Invoices
      BY <1>2, AmountsAssumption DEF PaymentRecord
    <3>3. QED
      BY <3>1, <3>2 DEF IInv, TypeOK
  <2>2. CASE ~(q.accounted /\ ~payment[k].accounted)
    BY <1>2, <2>2 DEF Becomes, IInv, TypeOK, PaymentOK
  <2>3. QED
    BY <2>1, <2>2
<1>5. TypeOK'
  BY <1>2, <1>3, <1>4 DEF IInv, TypeOK
<1>6. ASSUME NEW j \in Keys PROVE PaymentOK(j)'
  <2>1. payment[j].invoice \in Invoices
    BY DEF IInv, TypeOK, PaymentRecord
  <2>2. CASE j = k
    BY <1>2, <1>3, <1>4, <2>2 DEF IInv, PaymentOK
  <2>3. CASE j # k
    BY <1>3, <1>4, <2>1, <2>3 DEF IInv, PaymentOK, TypeOK
  <2>4. QED
    BY <2>2, <2>3
<1>7. ASSUME NEW j \in Keys PROVE FlightOK(j)'
  BY DEF IInv, FlightOK
<1>8. AccountedOnce'
  <2>1. ASSUME NEW j \in Keys \ {k}, payment[j].accounted, q.accounted,
               payment[j].invoice = q.invoice
        PROVE  FALSE
    <3>1. residual[payment[j].invoice] = 0
      BY <2>1 DEF IInv, PaymentOK
    <3>2. payment[k].accounted
      BY <1>2, <2>1, <3>1 DEF Of
    <3>3. QED
      BY <1>2, <2>1, <3>2 DEF IInv, AccountedOnce
  <2>2. QED
    BY <1>3, <2>1 DEF AccountedOnce, IInv, TypeOK
<1>9. QED
  BY <1>5, <1>6, <1>7, <1>8 DEF IInv

-----------------------------------------------------------------------------
(* Sending a payment to the reader.                                        *)

(* A sale opens a transaction on a new payment.                            *)
LEMMA PayKeeps == ASSUME IInv, NEW i \in Invoices, Pay(i) PROVE IInv'
<1> DEFINE p == [Absent(i) EXCEPT !.amount = residual[i]]
           f == [phase |-> "checked", was |-> NoPayment, p |-> p]
<1>1. NextKey \in Keys
  <2>1. Fresh # {} /\ Fresh \subseteq Keys /\ Keys \subseteq Nat
    BY AmountsAssumption DEF Pay, Fresh, Keys
  <2>2. \E k \in Fresh : \A j \in Fresh : k <= j
    BY <2>1, LeastOfNat
  <2>3. QED
    BY <2>1, <2>2 DEF NextKey
<1>2. f \in FlightRecord /\ f.phase = "checked"
      /\ f.p.accounted = FALSE /\ f.p.fee = "none" /\ ~f.p.linked
      /\ f.was.accounted = FALSE /\ f.was.fee = "none"
  <2>1. residual[i] \in 0..Balance
    BY DEF IInv, TypeOK
  <2>2. (CHOOSE j \in Invoices : TRUE) \in Invoices
    BY AmountsAssumption
  <2>3. p \in PaymentRecord /\ p.accounted = FALSE /\ p.fee = "none" /\ ~p.linked
    BY <2>1 DEF Absent, PaymentRecord
  <2>4. NoPayment \in PaymentRecord /\ NoPayment.accounted = FALSE /\ NoPayment.fee = "none"
    BY <2>2, AmountsAssumption DEF NoPayment, Absent, PaymentRecord
  <2>5. QED
    BY <2>3, <2>4 DEF FlightRecord
<1>3. flight' = [flight EXCEPT ![NextKey] = f]
  BY DEF Pay
<1> HIDE DEF f
<1>4. UNCHANGED <<residual, payment, intent, reader, events>>
  BY DEF Pay
<1>5. TypeOK'
  BY <1>1, <1>2, <1>3, <1>4 DEF IInv, TypeOK
<1>6. ASSUME NEW j \in Keys PROVE FlightOK(j)'
  <2>1. CASE j = NextKey
    <3>1. flight'[j] = f
      BY <1>1, <1>3, <2>1 DEF IInv, TypeOK
    <3>2. QED
      BY <1>2, <3>1 DEF FlightOK
  <2>2. CASE j # NextKey
    BY <1>3, <1>4, <2>2 DEF IInv, TypeOK, FlightOK
  <2>3. QED
    BY <2>1, <2>2
<1>7. QED
  BY <1>4, <1>5, <1>6 DEF IInv, PaymentOK, AccountedOnce

(* A retry opens one on a payment that has failed, which stays as it is.   *)
LEMMA RetryKeeps == ASSUME IInv, NEW k \in Keys, Retry(k) PROVE IInv'
<1> DEFINE f == [phase |-> "checked", was |-> payment[k], p |-> payment[k]]
<1>1. f \in FlightRecord /\ f.phase = "checked" /\ f.p = payment[k] /\ f.was = payment[k]
  BY DEF IInv, TypeOK, FlightRecord
<1>2. flight' = [flight EXCEPT ![k] = f]
  BY DEF Retry
<1> HIDE DEF f
<1>3. FlightOK(k)'
  BY <1>1, <1>2 DEF Retry, IInv, TypeOK, FlightOK, PaymentOK
<1>4. UNCHANGED <<residual, payment, intent, reader, events>>
  BY DEF Retry
<1>5. TypeOK'
  BY <1>1, <1>2, <1>4 DEF IInv, TypeOK
<1>6. ASSUME NEW j \in Keys PROVE FlightOK(j)'
  BY <1>2, <1>3, <1>4 DEF IInv, TypeOK, FlightOK
<1>7. QED
  BY <1>4, <1>5, <1>6 DEF IInv, PaymentOK, AccountedOnce

(* The requests change Stripe and the reader, not the records.             *)
LEMMA SendKeeps == ASSUME IInv, NEW k \in Keys, Send(k) PROVE IInv'
<1> DEFINE f == flight[k]
           created == IF intent[k] = "none" THEN "open" ELSE intent[k]
           on == {reader} \cup {r \in {k} : created = "open"}
           answer(state, linked) ==
             [f EXCEPT !.phase = "answered", !.p = [f.p EXCEPT !.state = state, !.linked = linked]]
<1>1. f \in FlightRecord /\ f.phase = "checked" /\ intent[k] \in IntentStatus
  BY DEF Send, IInv, TypeOK
<1>2. PICK status \in {intent[k], created}, state \in {"failed", "in_progress"}, linked \in BOOLEAN :
        /\ intent' = [intent EXCEPT ![k] = status]
        /\ linked => status = created
        /\ flight' = [flight EXCEPT ![k] = answer(state, linked)]
        /\ reader' \in {reader, k}
  BY <1>1 DEF Send, FlightRecord, IInv, TypeOK
<1>3. /\ answer(state, linked) \in FlightRecord
      /\ answer(state, linked).was = f.was
      /\ answer(state, linked).p.state = state /\ answer(state, linked).p.linked = linked
      /\ answer(state, linked).p.accounted = f.p.accounted
      /\ answer(state, linked).p.fee = f.p.fee
      /\ answer(state, linked).p.invoice = f.p.invoice
  BY <1>1 DEF FlightRecord, PaymentRecord
<1>4. /\ status \in IntentStatus
      /\ linked => status # "none"
      /\ intent[k] # "none" => status = intent[k]
  BY <1>1, <1>2 DEF IntentStatus
<1>5. UNCHANGED <<residual, payment, events>>
  BY DEF Send
<1> HIDE DEF answer, created
<1>6. TypeOK'
  BY <1>2, <1>3, <1>4, <1>5 DEF IInv, TypeOK
<1>7. ASSUME NEW j \in Keys PROVE PaymentOK(j)'
  <2>1. intent[j] # "none" => intent'[j] = intent[j]
    BY <1>2, <1>4 DEF IInv, TypeOK
  <2>2. QED
    BY <1>5, <2>1 DEF IInv, PaymentOK, TypeOK
<1>8. ASSUME NEW j \in Keys PROVE FlightOK(j)'
  <2>1. CASE j = k
    BY <1>1, <1>2, <1>3, <1>4, <2>1 DEF IInv, FlightOK, TypeOK
  <2>2. CASE j # k
    BY <1>2, <2>2 DEF IInv, FlightOK, TypeOK
  <2>3. QED
    BY <2>1, <2>2
<1>9. QED
  BY <1>5, <1>6, <1>7, <1>8 DEF IInv, AccountedOnce

(* A commit writes what the transaction would write, a rollback nothing.   *)
LEMMA EndKeeps == ASSUME IInv, NEW k \in Keys, End(k) PROVE IInv'
<1>1. NoFlight \in FlightRecord /\ NoFlight.phase = "none"
  <2>1. (CHOOSE j \in Invoices : TRUE) \in Invoices
    BY AmountsAssumption
  <2>2. NoPayment \in PaymentRecord
    BY <2>1, AmountsAssumption DEF NoPayment, Absent, PaymentRecord
  <2>3. QED
    BY <2>2 DEF NoFlight, FlightRecord
<1>2. flight' = [flight EXCEPT ![k] = NoFlight] /\ UNCHANGED <<residual, intent, reader, events>>
  BY DEF End
<1>3. ASSUME NEW j \in Keys PROVE FlightOK(j)'
  BY <1>1, <1>2 DEF IInv, TypeOK, FlightOK
<1>4. CASE UNCHANGED payment
  BY <1>1, <1>2, <1>3, <1>4 DEF IInv, TypeOK, PaymentOK, AccountedOnce
<1>5. CASE payment[k] = flight[k].was /\ payment' = [payment EXCEPT ![k] = flight[k].p]
  <2> DEFINE p == flight[k].p
  <2>1. /\ p \in PaymentRecord /\ p.state \in {"failed", "in_progress"}
        /\ p.accounted = payment[k].accounted /\ p.fee = payment[k].fee
        /\ p.accounted => p.invoice = payment[k].invoice
        /\ p.linked => intent[k] # "none"
    BY <1>5 DEF End, IInv, TypeOK, FlightOK, FlightRecord
  <2>2. payment' = [payment EXCEPT ![k] = p]
    BY <1>5
  <2> HIDE DEF p
  <2>3. TypeOK'
    BY <1>1, <1>2, <2>1, <2>2 DEF IInv, TypeOK
  <2>4. ASSUME NEW j \in Keys PROVE PaymentOK(j)'
    BY <1>2, <2>1, <2>2 DEF IInv, TypeOK, PaymentOK
  <2>5. AccountedOnce'
    BY <2>1, <2>2 DEF IInv, TypeOK, AccountedOnce
  <2>6. QED
    BY <1>3, <2>3, <2>4, <2>5 DEF IInv
<1>6. QED
  BY <1>4, <1>5 DEF End

-----------------------------------------------------------------------------
(* The other operations of the staff.                                      *)

(* A cancellation closes a payment in progress, or one that has failed.    *)
LEMMA CancelKeeps == ASSUME IInv, NEW k \in Keys, Cancel(k) PROVE IInv'
<1> DEFINE canceled == [payment[k] EXCEPT !.state = "canceled"]
           c == [type |-> "canceled", key |-> k]
<1>1. reader' \in {0} \cup Keys /\ UNCHANGED <<residual, flight>>
  BY DEF Cancel, IInv, TypeOK
<1>2. CASE UNCHANGED <<payment, intent, events>>
  BY <1>1, <1>2 DEF IInv, TypeOK, PaymentOK, FlightOK, AccountedOnce
<1>3. CASE /\ IF IntentToCancel(k)
                THEN intent' = [intent EXCEPT ![k] = "canceled"] /\ events' = events \cup {c}
                ELSE UNCHANGED <<intent, events>>
           /\ payment' \in {payment, [payment EXCEPT ![k].state = "canceled"]}
  <2>1. /\ canceled \in PaymentRecord /\ canceled.state = "canceled"
        /\ canceled.accounted = payment[k].accounted /\ canceled.fee = payment[k].fee
        /\ canceled.linked = payment[k].linked /\ canceled.invoice = payment[k].invoice
    BY DEF IInv, TypeOK, PaymentRecord
  <2>2. payment' = payment \/ payment' = [payment EXCEPT ![k] = canceled]
    BY <1>3 DEF IInv, TypeOK
  <2>3. c \in Event
    BY DEF Event
  <2>4. TypeOK'
    BY <1>1, <1>3, <2>1, <2>2, <2>3 DEF IInv, TypeOK, IntentStatus
  <2>5. /\ \A j \in Keys : /\ intent[j] \in {"none", "succeeded", "canceled"} => intent'[j] = intent[j]
                           /\ intent[j] = "open" => intent'[j] \in {"open", "canceled"}
        /\ payment[k].linked => intent'[k] # "open"
    BY <1>3 DEF IInv, TypeOK, IntentToCancel
  <2> HIDE DEF canceled
  <2>6. ASSUME NEW j \in Keys PROVE PaymentOK(j)'
    <3>1. intent[j] \in IntentStatus
      BY DEF IInv, TypeOK
    <3>2. CASE j = k
      BY <1>1, <2>1, <2>2, <2>5, <3>1, <3>2 DEF IInv, TypeOK, PaymentOK, IntentStatus
    <3>3. CASE j # k
      BY <1>1, <2>2, <2>5, <3>1, <3>3 DEF IInv, TypeOK, PaymentOK, IntentStatus
    <3>4. QED
      BY <3>2, <3>3
  <2>7. ASSUME NEW j \in Keys PROVE FlightOK(j)'
    BY <1>1, <2>5 DEF IInv, TypeOK, FlightOK, IntentStatus
  <2>8. AccountedOnce'
    BY <2>1, <2>2 DEF IInv, TypeOK, AccountedOnce
  <2>9. QED
    BY <2>4, <2>6, <2>7, <2>8 DEF IInv
<1>4. QED
  BY <1>2, <1>3 DEF Cancel

(* Another payment lowers a residual only.                                 *)
LEMMA OtherPaymentKeeps == ASSUME IInv, NEW i \in Invoices, OtherPayment(i) PROVE IInv'
<1>1. /\ residual[i] > 0 /\ residual' = [residual EXCEPT ![i] = residual[i] - 1]
      /\ UNCHANGED <<payment, flight, intent, reader, events>>
  BY DEF OtherPayment
<1>2. residual \in [Invoices -> 0..Balance] /\ residual[i] - 1 \in 0..Balance
  BY <1>1, AmountsAssumption DEF IInv, TypeOK
<1>3. TypeOK'
  BY <1>1, <1>2 DEF IInv, TypeOK
<1>4. \A j \in Invoices : residual[j] = 0 => residual'[j] = 0
  BY <1>1, <1>2
<1>5. ASSUME NEW k \in Keys PROVE PaymentOK(k)'
  <2>1. payment[k].invoice \in Invoices
    BY DEF IInv, TypeOK, PaymentRecord
  <2>2. QED
    BY <1>1, <1>4, <2>1 DEF IInv, PaymentOK
<1>6. QED
  BY <1>1, <1>3, <1>5 DEF IInv, FlightOK, AccountedOnce

(* Settling a fee by hand changes nothing else of a payment.               *)
LEMMA FeePaymentKeeps == ASSUME IInv, NEW k \in Keys, FeePayment(k) PROVE IInv'
<1> DEFINE p == [payment[k] EXCEPT !.fee = "paid"]
<1>1. /\ p \in PaymentRecord /\ p.state = payment[k].state /\ p.accounted = payment[k].accounted
      /\ p.linked = payment[k].linked /\ p.invoice = payment[k].invoice
      /\ intent[k] = "succeeded"
  BY DEF FeePayment, IInv, TypeOK, PaymentOK, PaymentRecord
<1>2. payment' = [payment EXCEPT ![k] = p] /\ UNCHANGED <<residual, flight, intent, reader, events>>
  BY DEF FeePayment, IInv, TypeOK
<1> HIDE DEF p
<1>3. TypeOK'
  BY <1>1, <1>2 DEF IInv, TypeOK
<1>4. ASSUME NEW j \in Keys PROVE PaymentOK(j)'
  BY <1>1, <1>2 DEF IInv, TypeOK, PaymentOK
<1>5. AccountedOnce'
  BY <1>1, <1>2 DEF IInv, TypeOK, AccountedOnce
<1>6. QED
  BY <1>2, <1>3, <1>4, <1>5 DEF IInv, FlightOK

-----------------------------------------------------------------------------
(* Finalisation and webhooks.                                              *)

(* A poll finalises a payment as its intent stands.                        *)
LEMMA RefreshKeeps == ASSUME IInv, NEW k \in Keys, Refresh(k) PROVE IInv'
<1>1. PICK q \in Finalized(k, payment[k]) : Becomes(k, q)
  BY DEF Refresh
<1>2. UNCHANGED <<flight, intent, reader, events>> /\ events' \subseteq Event
  BY DEF Refresh, IInv, TypeOK
<1>3. QED
  BY <1>1, <1>2, BecomesKeeps

(* So does a webhook, after a write of its own.                            *)
LEMMA DeliverKeeps == ASSUME IInv, NEW e \in events, Deliver(e) PROVE IInv'
<1>1. /\ e.key \in Keys /\ events' \subseteq Event
      /\ UNCHANGED <<flight, intent, reader>>
  BY DEF Deliver, IInv, TypeOK, Event
<1>2. CASE Known(e)
  <2>1. PICK q \in Finalized(e.key, Noted(e)) : Becomes(e.key, q)
    BY <1>2 DEF Deliver
  <2>2. Noted(e) \in {payment[e.key], [payment[e.key] EXCEPT !.state = "failed"]}
    BY DEF Noted
  <2>3. QED
    BY <1>1, <2>1, <2>2, BecomesKeeps
<1>3. CASE ~Known(e)
  BY <1>1, <1>3 DEF Deliver, IInv, TypeOK, PaymentOK, FlightOK, AccountedOnce
<1>4. QED
  BY <1>2, <1>3

(* A webhook that fails leaves its own write, and its event.               *)
LEMMA DeliverFailsKeeps == ASSUME IInv, NEW e \in events, DeliverFails(e) PROVE IInv'
<1> DEFINE k == e.key
           p == [payment[k] EXCEPT !.state = "failed"]
<1>1. k \in Keys
  BY DEF IInv, TypeOK, Event
<1>2. /\ p \in PaymentRecord /\ p.state = "failed" /\ p.accounted = payment[k].accounted
      /\ p.fee = payment[k].fee /\ p.linked = payment[k].linked
      /\ p.invoice = payment[k].invoice
  BY <1>1 DEF IInv, TypeOK, PaymentRecord
<1>3. payment' = [payment EXCEPT ![k] = p] /\ UNCHANGED <<residual, flight, intent, reader, events>>
  BY DEF DeliverFails, Noted
<1> HIDE DEF p, k
<1>4. TypeOK'
  BY <1>1, <1>2, <1>3 DEF IInv, TypeOK
<1>5. ASSUME NEW j \in Keys PROVE PaymentOK(j)'
  BY <1>1, <1>2, <1>3 DEF IInv, TypeOK, PaymentOK
<1>6. AccountedOnce'
  BY <1>1, <1>2, <1>3 DEF IInv, TypeOK, AccountedOnce
<1>7. QED
  BY <1>3, <1>4, <1>5, <1>6 DEF IInv, FlightOK

-----------------------------------------------------------------------------
(* Stripe.                                                                 *)

(* A charge moves the intent and sends an event.                           *)
LEMMA CardChargedKeeps == ASSUME IInv, CardCharged PROVE IInv'
<1>1. /\ reader \in Keys /\ intent[reader] = "open" /\ reader' = 0
      /\ intent' = [intent EXCEPT ![reader] = "succeeded"]
      /\ UNCHANGED <<residual, payment, flight>>
  BY DEF CardCharged, IInv, TypeOK
<1>2. events' \subseteq Event
  BY <1>1 DEF CardCharged, IInv, TypeOK, Event
<1>3. TypeOK'
  BY <1>1, <1>2 DEF IInv, TypeOK, IntentStatus
<1>4. \A k \in Keys :
        (intent'[k] = intent[k]) \/ (intent[k] = "open" /\ intent'[k] = "succeeded")
  BY <1>1 DEF IInv, TypeOK
<1>5. ASSUME NEW k \in Keys PROVE PaymentOK(k)'
  BY <1>1, <1>4 DEF IInv, PaymentOK
<1>6. ASSUME NEW k \in Keys PROVE FlightOK(k)'
  BY <1>1, <1>4 DEF IInv, FlightOK
<1>7. QED
  BY <1>1, <1>3, <1>5, <1>6 DEF IInv, AccountedOnce

(* A reader that gives up sends an event and moves no payment.             *)
LEMMA ReaderGivesUpKeeps == ASSUME IInv, ReaderGivesUp PROVE IInv'
<1>1. TypeOK'
  BY DEF ReaderGivesUp, IInv, TypeOK, Event
<1>2. QED
  BY <1>1 DEF ReaderGivesUp, IInv, PaymentOK, FlightOK, AccountedOnce

(* The invariant is inductive.                                             *)
LEMMA NextIInv == IInv /\ [Next]_vars => IInv'
<1> SUFFICES ASSUME IInv, [Next]_vars PROVE IInv'
  OBVIOUS
<1>1. ASSUME NEW i \in Invoices, Pay(i) PROVE IInv'
  BY <1>1, PayKeeps
<1>2. ASSUME NEW i \in Invoices, OtherPayment(i) PROVE IInv'
  BY <1>2, OtherPaymentKeeps
<1>3. ASSUME NEW k \in Keys, Retry(k) PROVE IInv'
  BY <1>3, RetryKeeps
<1>4. ASSUME NEW k \in Keys, Send(k) PROVE IInv'
  BY <1>4, SendKeeps
<1>5. ASSUME NEW k \in Keys, End(k) PROVE IInv'
  BY <1>5, EndKeeps
<1>6. ASSUME NEW k \in Keys, Cancel(k) PROVE IInv'
  BY <1>6, CancelKeeps
<1>7. ASSUME NEW k \in Keys, FeePayment(k) PROVE IInv'
  BY <1>7, FeePaymentKeeps
<1>8. ASSUME NEW k \in Keys, Refresh(k) PROVE IInv'
  BY <1>8, RefreshKeeps
<1>9. ASSUME NEW e \in events, Deliver(e) PROVE IInv'
  BY <1>9, DeliverKeeps
<1>10. ASSUME NEW e \in events, DeliverFails(e) PROVE IInv'
  BY <1>10, DeliverFailsKeeps
<1>11. CASE CardCharged
  BY <1>11, CardChargedKeeps
<1>12. CASE ReaderGivesUp
  BY <1>12, ReaderGivesUpKeeps
<1>13. CASE UNCHANGED vars
  BY <1>13 DEF vars, IInv, TypeOK, PaymentOK, FlightOK, AccountedOnce
<1>14. QED
  BY <1>1, <1>2, <1>3, <1>4, <1>5, <1>6, <1>7, <1>8, <1>9, <1>10, <1>11, <1>12, <1>13 DEF Next

(* The inductive invariant is an invariant.                                *)
LEMMA AlwaysIInv == Spec => []IInv
<1>1. QED
  BY InitIInv, NextIInv, PTL DEF Spec

-----------------------------------------------------------------------------
(* Every variable keeps its type.                                          *)
THEOREM TypeCorrect == Spec => []TypeOK
<1>1. IInv => TypeOK
  BY DEF IInv
<1>2. QED
  BY <1>1, AlwaysIInv, PTL

(* Nothing is accounted for, and no fee is invoiced, without a charge that *)
(* Stripe shows succeeded.                                                 *)
THEOREM OnlyChargesAreAccounted == Spec => []AccountedOnlyIfCharged
<1>1. IInv => AccountedOnlyIfCharged
  BY DEF IInv, PaymentOK, AccountedOnlyIfCharged
<1>2. QED
  BY <1>1, AlwaysIInv, PTL

(* At most one terminal payment of an invoice is accounted for.            *)
THEOREM InvoiceIsAccountedOnce == Spec => []AccountedOnce
<1>1. IInv => AccountedOnce
  BY DEF IInv
<1>2. QED
  BY <1>1, AlwaysIInv, PTL

(* A payment that is accounted for is never sent to review.                *)
THEOREM AccountedNeedsNoReview == Spec => []AccountedIsNotReviewed
<1>1. IInv => AccountedIsNotReviewed
  BY DEF IInv, PaymentOK, AccountedIsNotReviewed
<1>2. QED
  BY <1>1, AlwaysIInv, PTL

(* A canceled payment with an intent cannot collect a card any more.       *)
THEOREM CanceledStaysCanceled == Spec => []CanceledCannotCollect
<1>1. IInv => CanceledCannotCollect
  BY DEF IInv, PaymentOK, CanceledCannotCollect
<1>2. QED
  BY <1>1, AlwaysIInv, PTL

-----------------------------------------------------------------------------
(* The contract of the books.                                              *)

Follows == [Contract!Next]_(Contract!vars)

(* A step that moves no due, no charge and no accounting payment.          *)
Quiet ==
  /\ UNCHANGED residual
  /\ \A k \in Keys : (intent'[k] = "succeeded") <=> (intent[k] = "succeeded")
  /\ \A k \in Keys : /\ payment'[k].accounted = payment[k].accounted
                     /\ payment[k].accounted => payment'[k].invoice = payment[k].invoice

(* Such a step the books do not see.                                       *)
LEMMA QuietFollows == ASSUME Quiet PROVE Follows
<1>1. Charged' = Charged
  BY DEF Quiet, Charged
<1>2. Booked' = Booked
  <2>1. {j \in Keys : payment'[j].accounted} = {j \in Keys : payment[j].accounted}
    BY DEF Quiet
  <2>2. \A j \in {i \in Keys : payment[i].accounted} :
          <<j, payment'[j].invoice>> = <<j, payment[j].invoice>>
    BY DEF Quiet
  <2>3. QED
    BY <2>1, <2>2 DEF Booked
<1>3. QED
  BY <1>1, <1>2 DEF Quiet, Follows, Contract!vars

(* Finalising a payment books its charge or leaves the books alone.        *)
LEMMA BecomesFollows ==
  ASSUME IInv, NEW k \in Keys, NEW p \in {payment[k], [payment[k] EXCEPT !.state = "failed"]},
         NEW q \in Finalized(k, p), Becomes(k, q), UNCHANGED intent
  PROVE  Follows
<1>1. /\ p \in PaymentRecord /\ p.invoice = payment[k].invoice
      /\ p.accounted = payment[k].accounted /\ p.fee = payment[k].fee
  BY DEF IInv, TypeOK, PaymentRecord
<1>2. /\ q \in PaymentRecord /\ q.invoice = payment[k].invoice
      /\ q.accounted => intent[k] = "succeeded"
      /\ payment[k].accounted => q.accounted
      /\ q.accounted /\ ~payment[k].accounted => Of(k) > 0 /\ q.amount = Of(k)
  BY <1>1, FinalizedFacts DEF IInv, PaymentOK
<1>3. payment' = [payment EXCEPT ![k] = q] /\ payment'[k] = q
  BY DEF Becomes, IInv, TypeOK
<1>4. CASE q.accounted /\ ~payment[k].accounted
  <2> DEFINE i == q.invoice
  <2>1. /\ i \in Invoices /\ residual[i] \in 0..Balance
        /\ residual[i] > 0 /\ q.amount = residual[i]
    BY <1>2, <1>4 DEF IInv, TypeOK, PaymentRecord, Of
  <2>2. residual' = [residual EXCEPT ![i] = 0]
    <3>1. residual' = [residual EXCEPT ![i] = residual[i] - q.amount]
      BY <1>4 DEF Becomes, Credited
    <3>2. residual[i] - q.amount = 0
      BY <2>1
    <3>3. QED
      BY <3>1, <3>2
  <2>3. Booked' = Booked \cup {<<k, i>>}
    <3>1. {j \in Keys : payment'[j].accounted} = {j \in Keys : payment[j].accounted} \cup {k}
      BY <1>3, <1>4 DEF IInv, TypeOK
    <3>2. \A j \in {n \in Keys : payment[n].accounted} : payment'[j].invoice = payment[j].invoice
      BY <1>2, <1>3 DEF IInv, TypeOK
    <3>3. payment'[k].invoice = i
      BY <1>3
    <3>4. ASSUME NEW b PROVE b \in Booked' <=> b \in Booked \cup {<<k, i>>}
      <4>1. b \in Booked' <=> \E j \in Keys : payment'[j].accounted /\ b = <<j, payment'[j].invoice>>
        BY DEF Booked
      <4>2. b \in Booked <=> \E j \in Keys : payment[j].accounted /\ b = <<j, payment[j].invoice>>
        BY DEF Booked
      <4>3. \A j \in Keys : payment'[j].accounted <=> payment[j].accounted \/ j = k
        BY <3>1
      <4>4. QED
        BY <3>2, <3>3, <4>1, <4>2, <4>3
    <3>5. QED
      BY <3>4
  <2>4. \A b \in Booked : b[1] # k
    BY <1>4 DEF Booked
  <2>5. k \in Charged /\ Charged' = Charged
    BY <1>2, <1>4 DEF Charged
  <2>6. Contract!Book(k, i)
    BY <2>1, <2>2, <2>3, <2>4, <2>5 DEF Contract!Book
  <2>7. Contract!Next
    BY <2>1, <2>6, Zenon DEF Contract!Next
  <2>8. QED
    BY <2>7 DEF Follows
<1>5. CASE ~(q.accounted /\ ~payment[k].accounted)
  <2>1. UNCHANGED residual
    BY <1>5 DEF Becomes
  <2>2. q.accounted = payment[k].accounted
    BY <1>2, <1>5 DEF IInv, TypeOK, PaymentRecord
  <2>3. QED
    BY <1>2, <1>3, <2>1, <2>2, QuietFollows DEF Quiet, IInv, TypeOK
<1>6. QED
  BY <1>4, <1>5

(* Opening a transaction on a new payment is quiet.                        *)
LEMMA PayFollows == ASSUME NEW i \in Invoices, Pay(i) PROVE Follows
<1>1. QED
  BY QuietFollows DEF Pay, Quiet

(* Opening one on a failed payment is quiet.                               *)
LEMMA RetryFollows == ASSUME NEW k \in Keys, Retry(k) PROVE Follows
<1>1. QED
  BY QuietFollows DEF Retry, Quiet

(* The requests of a transaction create an intent, but charge nothing.     *)
LEMMA SendFollows == ASSUME IInv, NEW k \in Keys, Send(k) PROVE Follows
<1>1. /\ \/ intent' = intent
         \/ intent[k] = "none" /\ intent' = [intent EXCEPT ![k] = "open"]
      /\ UNCHANGED <<residual, payment>>
  BY DEF Send, IInv, TypeOK
<1>2. QED
  BY <1>1, QuietFollows DEF Quiet, IInv, TypeOK

(* A commit or rollback moves no accounting payment.                       *)
LEMMA EndFollows == ASSUME IInv, NEW k \in Keys, End(k) PROVE Follows
<1>1. UNCHANGED <<residual, intent>>
  BY DEF End
<1>2. CASE UNCHANGED payment
  BY <1>1, <1>2, QuietFollows DEF Quiet
<1>3. CASE payment[k] = flight[k].was /\ payment' = [payment EXCEPT ![k] = flight[k].p]
  <2>1. /\ flight[k].p.accounted = payment[k].accounted
        /\ payment[k].accounted => flight[k].p.invoice = payment[k].invoice
    BY <1>3 DEF End, IInv, FlightOK
  <2>2. QED
    BY <1>1, <1>3, <2>1, QuietFollows DEF Quiet, IInv, TypeOK
<1>4. QED
  BY <1>2, <1>3 DEF End

(* A cancellation never touches an intent that has succeeded.              *)
LEMMA CancelFollows == ASSUME IInv, NEW k \in Keys, Cancel(k) PROVE Follows
<1>1. UNCHANGED residual
  BY DEF Cancel
<1>2. \/ intent' = intent
      \/ intent[k] = "open" /\ intent' = [intent EXCEPT ![k] = "canceled"]
  BY DEF Cancel, IntentToCancel
<1>3. \/ payment' = payment
      \/ payment' = [payment EXCEPT ![k] = [payment[k] EXCEPT !.state = "canceled"]]
  BY DEF Cancel, IInv, TypeOK
<1>4. [payment[k] EXCEPT !.state = "canceled"].accounted = payment[k].accounted
      /\ [payment[k] EXCEPT !.state = "canceled"].invoice = payment[k].invoice
  BY DEF IInv, TypeOK, PaymentRecord
<1> DEFINE canceled == [payment[k] EXCEPT !.state = "canceled"]
<1> HIDE DEF canceled
<1>5. /\ payment' = payment \/ payment' = [payment EXCEPT ![k] = canceled]
      /\ canceled.accounted = payment[k].accounted
      /\ canceled.invoice = payment[k].invoice
  BY <1>3, <1>4 DEF canceled
<1>6. QED
  BY <1>1, <1>2, <1>5, QuietFollows DEF Quiet, IInv, TypeOK

(* The fee is no part of the books of an invoice.                          *)
LEMMA FeePaymentFollows == ASSUME IInv, NEW k \in Keys, FeePayment(k) PROVE Follows
<1>1. UNCHANGED <<residual, intent>> /\ payment' = [payment EXCEPT ![k].fee = "paid"]
  BY DEF FeePayment
<1>2. QED
  BY <1>1, QuietFollows DEF Quiet, IInv, TypeOK, PaymentRecord

(* Money from elsewhere lowers what an invoice owes.                       *)
LEMMA OtherPaymentFollows == ASSUME IInv, NEW i \in Invoices, OtherPayment(i) PROVE Follows
<1>1. residual[i] \in 0..Balance /\ residual[i] > 0
  BY DEF OtherPayment, IInv, TypeOK
<1>2. residual[i] - 1 \in 0..(residual[i] - 1)
  BY <1>1, AmountsAssumption
<1>3. residual' = [residual EXCEPT ![i] = residual[i] - 1] /\ UNCHANGED <<payment, intent>>
  BY DEF OtherPayment
<1>4. Charged' = Charged /\ Booked' = Booked
  BY <1>3 DEF Charged, Booked
<1>5. Contract!Receive(i)
  BY <1>2, <1>3, <1>4 DEF Contract!Receive
<1>6. QED
  BY <1>5 DEF Follows, Contract!Next

(* A poll finalises.                                                       *)
LEMMA RefreshFollows == ASSUME IInv, NEW k \in Keys, Refresh(k) PROVE Follows
<1>1. QED
  BY BecomesFollows DEF Refresh

(* So does a webhook that finds its payment.                               *)
LEMMA DeliverFollows == ASSUME IInv, NEW e \in events, Deliver(e) PROVE Follows
<1>1. e.key \in Keys /\ UNCHANGED intent
  BY DEF Deliver, IInv, TypeOK, Event
<1>2. CASE Known(e)
  <2>1. PICK q \in Finalized(e.key, Noted(e)) : Becomes(e.key, q)
    BY <1>2 DEF Deliver
  <2>2. Noted(e) \in {payment[e.key], [payment[e.key] EXCEPT !.state = "failed"]}
    BY DEF Noted
  <2>3. QED
    BY <1>1, <2>1, <2>2, BecomesFollows
<1>3. CASE ~Known(e)
  BY <1>1, <1>3, QuietFollows DEF Deliver, Quiet
<1>4. QED
  BY <1>2, <1>3

(* A webhook that fails leaves the books alone.                            *)
LEMMA DeliverFailsFollows == ASSUME IInv, NEW e \in events, DeliverFails(e) PROVE Follows
<1> DEFINE k == e.key
           p == [payment[k] EXCEPT !.state = "failed"]
<1>1. k \in Keys
  BY DEF IInv, TypeOK, Event
<1>2. p.accounted = payment[k].accounted /\ p.invoice = payment[k].invoice
  BY <1>1 DEF IInv, TypeOK, PaymentRecord
<1>3. payment' = [payment EXCEPT ![k] = p] /\ UNCHANGED <<residual, intent>>
  BY DEF DeliverFails, Noted
<1> HIDE DEF p, k
<1>4. QED
  BY <1>1, <1>2, <1>3, QuietFollows DEF Quiet, IInv, TypeOK

(* A charge at Stripe is a charge of the contract.                         *)
LEMMA CardChargedFollows == ASSUME IInv, CardCharged PROVE Follows
<1>1. /\ reader \in Keys /\ intent[reader] = "open"
      /\ intent' = [intent EXCEPT ![reader] = "succeeded"]
      /\ UNCHANGED <<residual, payment>>
  BY DEF CardCharged, IInv, TypeOK
<1>2. reader \notin Charged /\ Charged' = Charged \cup {reader} /\ Booked' = Booked
  BY <1>1 DEF IInv, TypeOK, Charged, Booked
<1>3. Contract!Charge(reader)
  BY <1>1, <1>2 DEF Contract!Charge
<1>4. QED
  BY <1>1, <1>3 DEF Follows, Contract!Next

(* Every step follows the contract.                                        *)
LEMMA NextFollows == IInv /\ [Next]_vars => Follows
<1> SUFFICES ASSUME IInv, [Next]_vars PROVE Follows
  OBVIOUS
<1>1. ASSUME NEW i \in Invoices, Pay(i) PROVE Follows
  BY <1>1, PayFollows
<1>2. ASSUME NEW i \in Invoices, OtherPayment(i) PROVE Follows
  BY <1>2, OtherPaymentFollows
<1>3. ASSUME NEW k \in Keys, Retry(k) PROVE Follows
  BY <1>3, RetryFollows
<1>4. ASSUME NEW k \in Keys, Send(k) PROVE Follows
  BY <1>4, SendFollows
<1>5. ASSUME NEW k \in Keys, End(k) PROVE Follows
  BY <1>5, EndFollows
<1>6. ASSUME NEW k \in Keys, Cancel(k) PROVE Follows
  BY <1>6, CancelFollows
<1>7. ASSUME NEW k \in Keys, FeePayment(k) PROVE Follows
  BY <1>7, FeePaymentFollows
<1>8. ASSUME NEW k \in Keys, Refresh(k) PROVE Follows
  BY <1>8, RefreshFollows
<1>9. ASSUME NEW e \in events, Deliver(e) PROVE Follows
  BY <1>9, DeliverFollows
<1>10. ASSUME NEW e \in events, DeliverFails(e) PROVE Follows
  BY <1>10, DeliverFailsFollows
<1>11. CASE CardCharged
  BY <1>11, CardChargedFollows
<1>12. CASE ReaderGivesUp
  BY <1>12, QuietFollows DEF ReaderGivesUp, Quiet
<1>13. CASE UNCHANGED vars
  BY <1>13, QuietFollows DEF vars, Quiet
<1>14. QED
  BY <1>1, <1>2, <1>3, <1>4, <1>5, <1>6, <1>7, <1>8, <1>9, <1>10, <1>11, <1>12, <1>13 DEF Next

(* Card payments keep the contract of the books: every charge is booked at *)
(* most once, on an invoice that still owed something and then owes        *)
(* nothing, and no invoice is settled twice, whatever is lost, retried,    *)
(* rolled back or repeated.                                                *)
THEOREM PaymentsKeepContract == Spec => KeepsContract
<1>1. Init => Contract!Init
  <2> SUFFICES ASSUME Init PROVE Contract!Init
    OBVIOUS
  <2>1. Charged = {}
    BY DEF Init, Charged
  <2>2. \A k \in Keys : ~payment[k].accounted
    BY DEF Init, NoPayment, Absent
  <2>3. Booked = {}
    BY <2>2 DEF Booked
  <2>4. QED
    BY <2>1, <2>3 DEF Init, Contract!Init
<1>2. QED
  BY <1>1, NextFollows, AlwaysIInv, PTL DEF Spec, Follows, KeepsContract, Contract!Spec
=============================================================================
