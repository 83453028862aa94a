--------------------------- MODULE PaymentContract ----------------------------
(***************************************************************************)
(* What card payments promise the books, without readers, transactions,    *)
(* retries, fees or events: an invoice is settled by a card at most once,  *)
(* by a charge that was really made, for exactly what it still owes; no    *)
(* charge is ever unmade or booked a second time, and nothing reopens what *)
(* is settled.                                                             *)
(***************************************************************************)
EXTENDS Integers

CONSTANTS
  Invoices,
  Charges,     (* the charges that may be made                             *)
  Total        (* what each invoice is for                                 *)

VARIABLES
  due,         (* what each invoice still owes                             *)
  charged,     (* the charges made                                         *)
  booked       (* pairs of a charge and the invoice it has settled         *)

vars == <<due, charged, booked>>

Init == due = [i \in Invoices |-> Total] /\ charged = {} /\ booked = {}

(* A card is charged.                                                      *)
Charge(k) ==
  /\ k \notin charged
  /\ charged' = charged \cup {k}
  /\ UNCHANGED <<due, booked>>

(* The charge k settles the invoice i.                                     *)
Book(k, i) ==
  /\ k \in charged /\ \A b \in booked : b[1] # k
  /\ due[i] > 0
  /\ due' = [due EXCEPT ![i] = 0]
  /\ booked' = booked \cup {<<k, i>>}
  /\ UNCHANGED charged

(* The invoice i is paid in part or whole by other means.                  *)
Receive(i) ==
  /\ \E rest \in 0..(due[i] - 1) : due' = [due EXCEPT ![i] = rest]
  /\ UNCHANGED <<charged, booked>>

Next ==
  \/ \E k \in Charges : Charge(k) \/ \E i \in Invoices : Book(k, i)
  \/ \E i \in Invoices : Receive(i)

Spec == Init /\ [][Next]_vars
=============================================================================
