---------------------------- MODULE SweepContract -----------------------------
(***************************************************************************)
(* What a listing sweep promises, without scripts, cursors, selections,    *)
(* cooldowns or lost answers: each page that it comes to know is fetched   *)
(* once, within the budget of pages, and again only for a repair that is   *)
(* owed.  It is complete exactly when the fetch of a page leaves nothing   *)
(* to do, and only new repairs open it again.  Who holds it is left alone. *)
(***************************************************************************)
EXTENDS Integers

CONSTANTS
  Sweeps,
  Pages,
  First,       (* the page where every sweep begins                        *)
  Budget,      (* how many pages a sweep may fetch that nobody asked for   *)
  Workers,
  Nobody

VARIABLES
  stage,       (* how far each sweep is                                    *)
  known,       (* the pages it knows of                                    *)
  fetched,     (* the pages it has fetched                                 *)
  owed,        (* the repairs it owes                                      *)
  spent,       (* the part of its budget that is used                      *)
  held         (* the worker that holds it                                 *)

vars == <<stage, known, fetched, owed, spent, held>>

Init ==
  /\ stage = [r \in Sweeps |-> "absent"] /\ spent = [r \in Sweeps |-> 0]
  /\ known = [r \in Sweeps |-> {}] /\ fetched = [r \in Sweeps |-> {}]
  /\ owed = [r \in Sweeps |-> {}] /\ held = [r \in Sweeps |-> Nobody]

Open(r) ==
  /\ stage[r] = "absent"
  /\ stage' = [stage EXCEPT ![r] = "open"]
  /\ known' = [known EXCEPT ![r] = {First}]
  /\ UNCHANGED <<fetched, owed, spent, held>>

(* Repairs are asked for, of known pages or of others.                     *)
Ask(r, S) ==
  /\ stage[r] # "absent" /\ held[r] = Nobody /\ S # {}
  /\ stage' = [stage EXCEPT ![r] = "open"]
  /\ known' = [known EXCEPT ![r] = @ \cup S]
  /\ owed' = [owed EXCEPT ![r] = @ \cup S]
  /\ UNCHANGED <<fetched, spent, held>>

Take(r, w) ==
  /\ stage[r] = "open" /\ held[r] \in {Nobody, w}
  /\ held' = [held EXCEPT ![r] = w]
  /\ UNCHANGED <<stage, known, fetched, owed, spent>>

(* The workers of the sweeps S give up or are too slow.                    *)
Drop(S) ==
  /\ held' = [r \in Sweeps |-> IF r \in S THEN Nobody ELSE held[r]]
  /\ UNCHANGED <<stage, known, fetched, owed, spent>>

New(r, p) ==
  /\ p \notin fetched[r] /\ spent[r] < Budget
  /\ spent' = [spent EXCEPT ![r] = @ + 1]
  /\ UNCHANGED owed

Repair(r, p) ==
  /\ p \in owed[r]
  /\ owed' = [owed EXCEPT ![r] = @ \ {p}]
  /\ UNCHANGED spent

(* The page p of sweep r is fetched and has these links.                   *)
Fetch(r, p, links) ==
  /\ stage[r] = "open" /\ p \in known[r]
  /\ New(r, p) \/ Repair(r, p)
  /\ known' = [known EXCEPT ![r] = @ \cup links]
  /\ fetched' = [fetched EXCEPT ![r] = @ \cup {p}]
  /\ held' = [held EXCEPT ![r] = Nobody]
  /\ stage' = [stage EXCEPT ![r] =
       IF owed'[r] = {} /\ (known'[r] \subseteq fetched'[r] \/ spent'[r] >= Budget)
       THEN "completed" ELSE "open"]

Next ==
  \/ \E S \in SUBSET Sweeps : Drop(S)
  \/ \E r \in Sweeps :
       \/ Open(r)
       \/ \E S \in SUBSET Pages : Ask(r, S)
       \/ \E w \in Workers : Take(r, w)
       \/ \E p \in Pages, links \in SUBSET Pages : Fetch(r, p, links)

Spec == Init /\ [][Next]_vars
=============================================================================
