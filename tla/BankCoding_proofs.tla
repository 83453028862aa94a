-------------------------- MODULE BankCoding_proofs --------------------------
(***************************************************************************)
(* Proofs about BankCoding, for every number of rules, lines, candidates   *)
(* and overlapping transactions.                                           *)
(***************************************************************************)
EXTENDS BankCoding, TLAPS

(* Marking transactions stale keeps them well-formed.                      *)
LEMMA RulesWrittenType ==
  ASSUME TypeOK, NEW written
  PROVE  RulesWritten(written) \in [Evaluations -> Evaluation \cup {None}]
  BY DEF TypeOK, RulesWritten, Evaluation

(* Writing a candidate keeps the reviews typed.                            *)
LEMMA CandidateWrittenType ==
  ASSUME TypeOK, NEW c
  PROVE  CandidateWritten(c) \in [Reviews -> Review \cup {None}]
  BY DEF TypeOK, CandidateWritten, Review

(* So does writing a line.                                                 *)
LEMMA LineWrittenType ==
  ASSUME NEW l, NEW reviews \in [Reviews -> Review \cup {None}]
  PROVE  LineWritten(l, reviews) \in [Reviews -> Review \cup {None}]
  BY DEF LineWritten, Review

(* What an evaluation reads is an evaluation.                              *)
LEMMA ReadsType ==
  ASSUME NEW window \in Windows
  PROVE  Reads(window) \in Evaluation
  BY DEF Reads, Evaluation, Proposes

(* What a review reads of a candidate is a review.                         *)
LEMMA ReadsOfType ==
  ASSUME TypeOK, NEW c \in Candidates, Exists(c),
         NEW button \in {"approve", "reject", "apply"}
  PROVE  ReadsOf(button, c) \in Review
  BY DEF TypeOK, ReadsOf, Exists, Review, Reconciled

(* TypeOK alone is not inductive: a button writes the state of a candidate *)
(* that must still be there, and candidates are never removed.             *)
ReviewedExists == \A v \in Reviews : review[v] # None => Exists(review[v].on)

WellFormed == TypeOK /\ ReviewedExists

(* The state of a candidate changes by its buttons to one of its states.   *)
LEMMA CommitsType ==
  ASSUME WellFormed, NEW v \in Reviews, review[v] # None,
         NEW state \in {"pending", "approved", "applied", "rejected",
                        "exception"},
         Commits(v, state)
  PROVE  /\ candidates' \in [Candidates -> CandidateRow \cup {None}]
         /\ \A c \in Candidates : candidates[c] # None => candidates'[c] # None
  <1>1. review[v].on \in Candidates /\ candidates[review[v].on] # None
    BY DEF WellFormed, ReviewedExists, Exists, TypeOK, Review
  <1>2. candidates[review[v].on] \in CandidateRow
    BY <1>1 DEF WellFormed, TypeOK
  <1>3. [candidates[review[v].on] EXCEPT !.state = state] \in CandidateRow
    BY <1>2 DEF CandidateRow
  <1>. QED
    BY <1>1, <1>3, NoneAssumption DEF WellFormed, TypeOK, Commits

(* A new candidate takes the line, rule and account of what is due.        *)
LEMMA EvaluateType ==
  ASSUME WellFormed, NEW e \in Evaluations, Evaluate(e)
  PROVE  /\ candidates' \in [Candidates -> CandidateRow \cup {None}]
         /\ \A c \in Candidates : candidates[c] # None => candidates'[c] # None
  <1>. PICK fresh \in SUBSET {c \in Candidates : ~Exists(c)} :
         \E new \in [fresh -> evaluation[e].due] :
           OneEach(evaluation[e].due, fresh, new) /\ Create(fresh, new)
    BY Zenon DEF Evaluate
  <1>. PICK new \in [fresh -> evaluation[e].due] : Create(fresh, new)
    BY Zenon
  <1>1. \A c \in fresh : new[c] \in Match /\ new[c].target # None
    BY DEF WellFormed, TypeOK, Evaluate, Evaluation, Complete
  <1>2. \A c \in fresh :
          [line |-> new[c].line, rule |-> new[c].rule,
           target |-> new[c].target, state |-> "pending"] \in CandidateRow
    BY <1>1 DEF Match, CandidateRow
  <1>. QED
    BY <1>2, NoneAssumption DEF WellFormed, TypeOK, Exists, Create

(* Nothing is in flight at the start.                                      *)
LEMMA WellFormedInitially == Init => WellFormed
  BY CodingAssumption DEF Init, WellFormed, TypeOK, ReviewedExists, RuleRow,
     LineRow

(* Every step of the buttons and of the edits keeps the rows well-formed.  *)
LEMMA WellFormedKept == WellFormed /\ [Next]_vars => WellFormed'
  <1>. SUFFICES ASSUME WellFormed, [Next]_vars
                PROVE  WellFormed'
    OBVIOUS
  <1>. USE DEF WellFormed
  <1>1. ASSUME NEW e \in Evaluations, NEW window \in Windows,
               PressEvaluate(e, window)
        PROVE  WellFormed'
    BY <1>1, ReadsType DEF PressEvaluate, TypeOK, ReviewedExists, Exists
  <1>2. ASSUME NEW e \in Evaluations, EvaluateAgain(e)
        PROVE  WellFormed'
    <2>1. evaluation[e].window \in Windows
      BY <1>2 DEF EvaluateAgain, TypeOK, Evaluation
    <2>. QED
      BY <1>2, <2>1, ReadsType DEF EvaluateAgain, TypeOK, ReviewedExists, Exists
  <1>3. ASSUME NEW e \in Evaluations, LeaveEvaluation(e)
        PROVE  WellFormed'
    BY <1>3 DEF LeaveEvaluation, TypeOK, ReviewedExists, Exists
  <1>4. ASSUME NEW e \in Evaluations, Evaluate(e)
        PROVE  WellFormed'
    <2>1. evaluation' \in [Evaluations -> Evaluation \cup {None}]
      BY <1>4, RulesWrittenType DEF Evaluate
    <2>. QED
      BY <1>4, <2>1, EvaluateType DEF Evaluate, TypeOK, ReviewedExists, Exists,
         Review
  <1>5. ASSUME NEW v \in Reviews, NEW c \in Candidates,
               NEW button \in {"approve", "reject", "apply"},
               Press(v, button, c)
        PROVE  WellFormed'
    <2>1. ReadsOf(button, c) \in Review /\ ReadsOf(button, c).on = c
      BY <1>5, ReadsOfType DEF Press, ReadsOf
    <2>. QED
      BY <1>5, <2>1 DEF Press, TypeOK, ReviewedExists, Exists
  <1>6. ASSUME NEW v \in Reviews, Again(v)
        PROVE  WellFormed'
    <2>. DEFINE c == review[v].on
    <2>1. c \in Candidates /\ Exists(c)
          /\ review[v].button \in {"approve", "reject", "apply"}
      BY <1>6 DEF Again, TypeOK, Review, ReviewedExists
    <2>2. ReadsOf(review[v].button, c) \in Review
          /\ ReadsOf(review[v].button, c).on = c
      BY <2>1, ReadsOfType DEF ReadsOf
    <2>. QED
      BY <1>6, <2>1, <2>2 DEF Again, TypeOK, ReviewedExists, Exists
  <1>7. ASSUME NEW v \in Reviews, Leave(v)
        PROVE  WellFormed'
    BY <1>7 DEF Leave, TypeOK, ReviewedExists, Exists
  <1>8. ASSUME NEW v \in Reviews, review[v] # None,
               NEW state \in {"approved", "rejected", "exception"},
               Commits(v, state),
               review' = [CandidateWritten(review[v].on) EXCEPT ![v] = None],
               UNCHANGED <<rules, lines, evaluation, edits>>
        PROVE  WellFormed'
    <2>1. review' \in [Reviews -> Review \cup {None}]
      BY <1>8, CandidateWrittenType
    <2>2. \A w \in Reviews : review'[w] # None =>
            review[w] # None /\ review'[w].on = review[w].on
      BY <1>8 DEF CandidateWritten, TypeOK, Review
    <2>. QED
      BY <1>8, <2>1, <2>2, CommitsType DEF TypeOK, ReviewedExists, Exists, Review
  <1>9. ASSUME NEW v \in Reviews, Apply(v)
        PROVE  WellFormed'
    <2>. DEFINE row == review[v].row
                marked == CandidateWritten(review[v].on)
    <2>1. marked \in [Reviews -> Review \cup {None}]
      BY CandidateWrittenType
    <2>2. review' \in [Reviews -> Review \cup {None}]
      BY <1>9, <2>1, LineWrittenType DEF Apply
    <2>3. \A w \in Reviews : review'[w] # None =>
            review[w] # None /\ review'[w].on = review[w].on
      BY <1>9 DEF Apply, LineWritten, CandidateWritten, TypeOK, Review
    <2>4. lines' \in [Lines -> LineRow]
      <3>1. review[v] \in Review
        BY <1>9 DEF Apply, TypeOK
      <3>2. [account |-> row.target, by |-> review[v].on] \in LineRow
        BY <3>1 DEF Review, CandidateRow, LineRow
      <3>. QED
        BY <1>9, <3>2 DEF Apply, TypeOK
    <2>. QED
      BY <1>9, <2>2, <2>3, <2>4, CommitsType
         DEF Apply, TypeOK, ReviewedExists, Exists, Review
  <1>10. ASSUME NEW r \in Rules, rules' \in [Rules -> RuleRow], WriteRule(r)
         PROVE  WellFormed'
    BY <1>10, RulesWrittenType, CodingAssumption
       DEF WriteRule, Edited, TypeOK, ReviewedExists, Exists
  <1>11. ASSUME NEW c \in Candidates, NEW a \in Accounts, EditCandidate(c, a)
         PROVE  WellFormed'
    <2>1. /\ candidates' \in [Candidates -> CandidateRow \cup {None}]
          /\ \A d \in Candidates : candidates[d] # None => candidates'[d] # None
      <3>1. candidates[c] \in CandidateRow
        BY <1>11 DEF EditCandidate, Exists, TypeOK
      <3>2. [candidates[c] EXCEPT !.target = a] \in CandidateRow
        BY <3>1 DEF CandidateRow
      <3>. QED
        BY <1>11, <3>2, NoneAssumption DEF EditCandidate, TypeOK
    <2>2. review' \in [Reviews -> Review \cup {None}]
      BY <1>11, CandidateWrittenType DEF EditCandidate
    <2>3. \A w \in Reviews : review'[w] # None =>
            review[w] # None /\ review'[w].on = review[w].on
      BY <1>11 DEF EditCandidate, CandidateWritten, TypeOK, Review
    <2>. QED
      BY <1>11, <2>1, <2>2, <2>3, CodingAssumption
         DEF EditCandidate, Edited, TypeOK, ReviewedExists, Exists, Review
  <1>12. ASSUME NEW l \in Lines, NEW a \in Accounts \cup {Suspense},
                Bookkeep(l, a)
         PROVE  WellFormed'
    <2>1. review' \in [Reviews -> Review \cup {None}]
      BY <1>12, LineWrittenType DEF Bookkeep, TypeOK
    <2>2. \A w \in Reviews : review'[w] # None =>
            review[w] # None /\ review'[w].on = review[w].on
      BY <1>12 DEF Bookkeep, LineWritten, TypeOK, Review
    <2>. QED
      BY <1>12, <2>1, <2>2, CodingAssumption
         DEF Bookkeep, Edited, LineRow, TypeOK, ReviewedExists, Exists, Review
  <1>13. CASE UNCHANGED vars
    BY <1>13 DEF vars, TypeOK, ReviewedExists, Exists
  <1>14. ASSUME NEW r \in Rules, ApproveRule(r) \/ RetireRule(r)
         PROVE  WellFormed'
    <2>1. rules' \in [Rules -> RuleRow] /\ WriteRule(r)
      BY <1>14 DEF ApproveRule, RetireRule, TypeOK, RuleRow
    <2>. QED
      BY <2>1, <1>10
  <1>15. ASSUME NEW r \in Rules, NEW a \in Accounts \cup {None}, EditRule(r, a)
         PROVE  WellFormed'
    <2>1. rules' \in [Rules -> RuleRow] /\ WriteRule(r)
      BY <1>15 DEF EditRule, TypeOK, RuleRow
    <2>. QED
      BY <2>1, <1>10
  <1>16. ASSUME NEW v \in Reviews, Approve(v) \/ Reject(v) \/ Refuse(v)
         PROVE  WellFormed'
    BY <1>8, <1>16 DEF Approve, Reject, Refuse
  <1>17. ASSUME SeedRules
         PROVE  WellFormed'
    <2>1. rules' \in [Rules -> RuleRow]
      BY <1>17 DEF SeedRules, TypeOK, RuleRow
    <2>. QED
      BY <1>17, <2>1, CodingAssumption
         DEF SeedRules, Edited, TypeOK, ReviewedExists, Exists
  <1>. QED
    BY <1>1, <1>2, <1>3, <1>4, <1>5, <1>6, <1>7, <1>9, <1>11, <1>12, <1>13,
       <1>14, <1>15, <1>16, <1>17 DEF Next

(* Every proposal keeps a line, a rule and an account, under any overlap   *)
(* of evaluations, reviews and edits.                                      *)
THEOREM TypeCorrect == Spec => []TypeOK
  <1>1. Spec => []WellFormed
    BY WellFormedInitially, WellFormedKept, PTL DEF Spec
  <1>2. WellFormed => TypeOK
    BY DEF WellFormed
  <1>. QED
    BY <1>1, <1>2, PTL
-----------------------------------------------------------------------------
(* Only an apply that commits and a bookkeeper write a line; the apply     *)
(* judges the account it writes, in the transaction that writes it.        *)
LEMMA LinesWrittenBy ==
  ASSUME [Next]_vars, lines' # lines
  PROVE  \/ \E v \in Reviews : Apply(v)
         \/ \E l \in Lines, a \in Accounts \cup {Suspense} : Bookkeep(l, a)
  BY DEF Next, vars, PressEvaluate, EvaluateAgain, LeaveEvaluation, Evaluate,
         Press, Again, Leave, Approve, Reject, Refuse, SeedRules, ApproveRule,
         RetireRule, EditRule, WriteRule, EditCandidate

(* An apply looks at its target before it codes a line.                    *)
LEMMA SettlementsKept ==
  WellFormed /\ SettlementsAreCleared /\ [Next]_vars => SettlementsAreCleared'
  <1>. SUFFICES ASSUME WellFormed, SettlementsAreCleared, [Next]_vars,
                       NEW l \in Merchant, lines'[l].by # None
                PROVE  lines'[l].account \notin Unsafe
    BY DEF SettlementsAreCleared
  <1>. l \in Lines /\ lines \in [Lines -> LineRow]
    BY CodingAssumption DEF WellFormed, TypeOK
  <1>1. CASE lines' = lines
    BY <1>1 DEF SettlementsAreCleared
  <1>2. ASSUME NEW v \in Reviews, Apply(v)
        PROVE  lines'[l].account \notin Unsafe
    <2>1. CASE l = review[v].row.line
      BY <1>2, <2>1 DEF Apply, Codable, UnsafeMerchantTarget
    <2>2. CASE l # review[v].row.line
      BY <1>2, <2>2 DEF Apply, SettlementsAreCleared
    <2>. QED
      BY <2>1, <2>2
  <1>3. ASSUME NEW k \in Lines, NEW a \in Accounts \cup {Suspense},
               Bookkeep(k, a)
        PROVE  lines'[l].account \notin Unsafe
    BY <1>3 DEF Bookkeep, SettlementsAreCleared
  <1>. QED
    BY <1>1, <1>2, <1>3, LinesWrittenBy

(* No settlement is coded straight to revenue, receivables or tax, however *)
(* targets are edited between a proposal's approval and its application.   *)
THEOREM SettlementsCleared == Spec => []SettlementsAreCleared
  <1>1. Init => WellFormed /\ SettlementsAreCleared
    BY WellFormedInitially, CodingAssumption DEF Init, SettlementsAreCleared
  <1>2. WellFormed /\ SettlementsAreCleared /\ [Next]_vars
          => (WellFormed /\ SettlementsAreCleared)'
    BY WellFormedKept, SettlementsKept
  <1>. QED
    BY <1>1, <1>2, PTL DEF Spec
-----------------------------------------------------------------------------
(* What keeps a coded line: as long as its line was not written meanwhile, *)
(* what an open transaction has read of it is still so.                    *)
ReadIsCurrent ==
  \A v \in Reviews :
    review[v] # None /\ ~review[v].moved
      => (review[v].open <=> ~Reconciled(review[v].row.line))

(* Whoever changes a line marks every review that has read it.             *)
LEMMA ReadIsCurrentKept ==
  WellFormed /\ ReadIsCurrent /\ [Next]_vars => ReadIsCurrent'
  <1>. SUFFICES ASSUME WellFormed, ReadIsCurrent, [Next]_vars,
                       NEW v \in Reviews, review'[v] # None,
                       ~review'[v].moved
                PROVE  (review[v].open <=> ~Reconciled(review[v].row.line))'
    BY DEF ReadIsCurrent
  <1>. review \in [Reviews -> Review \cup {None}]
    BY DEF WellFormed, TypeOK
  <1>. DEFINE Goal == (review[v].open <=> ~Reconciled(review[v].row.line))'
  <1>1. CASE review'[v] = review[v] /\ lines' = lines
    BY <1>1 DEF ReadIsCurrent, Reconciled
  <1>2. ASSUME NEW button \in {"approve", "reject", "apply"},
               NEW c \in Candidates,
               review'[v] = ReadsOf(button, c), UNCHANGED <<lines, candidates>>
        PROVE  Goal
    <2>1. review'[v].open = (~Reconciled(candidates[c].line))
          /\ review'[v].row = candidates[c]
      BY <1>2 DEF ReadsOf
    <2>2. (review[v].row.line)' = candidates[c].line
      BY <2>1
    <2>3. Reconciled(review[v].row.line)' <=> Reconciled(candidates[c].line)
      BY <1>2, <2>2 DEF Reconciled
    <2>. QED
      BY <2>1, <2>3
  <1>3. ASSUME NEW c, lines' = lines,
               NEW w \in Reviews,
               review' = [CandidateWritten(c) EXCEPT ![w] = None]
                 \/ review' = CandidateWritten(c)
        PROVE  Goal
    <2>1. review[v] # None /\ ~review[v].moved /\ review'[v].open = review[v].open
          /\ review'[v].row = review[v].row
      BY ZenonT(60), <1>3 DEF CandidateWritten, Review
    <2>. QED
      BY <1>3, <2>1 DEF ReadIsCurrent, Reconciled
  <1>4. ASSUME NEW w \in Reviews, Apply(w)
        PROVE  Goal
    <2>. DEFINE l == review[w].row.line
    <2>1. review[v] # None /\ ~review[v].moved /\ review'[v].open = review[v].open
          /\ review'[v].row = review[v].row /\ review[v].row.line # l
      BY <1>4 DEF Apply, LineWritten, CandidateWritten, Review
    <2>2. lines'[review[v].row.line] = lines[review[v].row.line]
      BY <1>4, <2>1 DEF Apply, WellFormed, TypeOK, Review, CandidateRow
    <2>. QED
      BY <2>1, <2>2 DEF ReadIsCurrent, Reconciled
  <1>5. ASSUME NEW l \in Lines, NEW a \in Accounts \cup {Suspense},
               Bookkeep(l, a)
        PROVE  Goal
    <2>1. review[v] # None /\ ~review[v].moved /\ review'[v].open = review[v].open
          /\ review'[v].row = review[v].row /\ review[v].row.line # l
      BY <1>5 DEF Bookkeep, LineWritten, Review
    <2>2. lines'[review[v].row.line] = lines[review[v].row.line]
      BY <1>5, <2>1 DEF Bookkeep, WellFormed, TypeOK, Review, CandidateRow
    <2>. QED
      BY <2>1, <2>2 DEF ReadIsCurrent, Reconciled
  <1>6. CASE \E w \in Reviews : Approve(w) \/ Reject(w) \/ Refuse(w)
    BY <1>3, <1>6 DEF Approve, Reject, Refuse
  <1>7. CASE \E w \in Reviews, c \in Candidates :
               Press(w, "approve", c) \/ Press(w, "reject", c)
                 \/ Press(w, "apply", c)
    BY <1>1, <1>2, <1>7 DEF Press
  <1>8. CASE \E w \in Reviews : Again(w)
    <2>1. PICK w \in Reviews : Again(w)
      BY <1>8
    <2>2. review[w].on \in Candidates
          /\ review[w].button \in {"approve", "reject", "apply"}
      BY <2>1 DEF Again, Review
    <2>. QED
      BY <1>1, <1>2, <2>1, <2>2 DEF Again
  <1>9. CASE \E w \in Reviews : Leave(w)
    BY <1>1, <1>9 DEF Leave
  <1>10. CASE \E c \in Candidates, a \in Accounts : EditCandidate(c, a)
    BY <1>3, <1>10 DEF EditCandidate
  <1>11. CASE UNCHANGED <<review, lines>>
    BY <1>1, <1>11
  <1>12. \/ UNCHANGED <<review, lines>>
         \/ \E w \in Reviews : Apply(w)
         \/ \E l \in Lines, a \in Accounts \cup {Suspense} : Bookkeep(l, a)
         \/ \E w \in Reviews : Approve(w) \/ Reject(w) \/ Refuse(w)
         \/ \E w \in Reviews, c \in Candidates :
               Press(w, "approve", c) \/ Press(w, "reject", c)
                 \/ Press(w, "apply", c)
         \/ \E w \in Reviews : Again(w) \/ Leave(w)
         \/ \E c \in Candidates, a \in Accounts : EditCandidate(c, a)
    BY DEF Next, vars, PressEvaluate, EvaluateAgain, LeaveEvaluation, Evaluate,
           SeedRules, ApproveRule, RetireRule, EditRule, WriteRule
  <1>. QED
    BY <1>4, <1>5, <1>6, <1>7, <1>8, <1>9, <1>10, <1>11, <1>12

(* A line that was coded by one proposal, or matched by hand, is not coded *)
(* by another until it is undone.                                          *)
THEOREM CodingKept == Spec => CodingIsNotReplaced
  <1>1. Init => WellFormed /\ ReadIsCurrent
    BY WellFormedInitially DEF Init, ReadIsCurrent
  <1>2. WellFormed /\ ReadIsCurrent /\ [Next]_vars
          => (WellFormed /\ ReadIsCurrent)'
    BY WellFormedKept, ReadIsCurrentKept
  <1>3. WellFormed /\ ReadIsCurrent /\ [Next]_vars =>
          [\A l \in Lines :
             Reconciled(l) => lines'[l].by \in {lines[l].by, None}]_vars
    <2>. SUFFICES ASSUME WellFormed, ReadIsCurrent, [Next]_vars,
                         NEW l \in Lines, Reconciled(l)
                  PROVE  lines'[l].by \in {lines[l].by, None}
      OBVIOUS
    <2>. lines \in [Lines -> LineRow]
      BY DEF WellFormed, TypeOK
    <2>1. CASE lines' = lines
      BY <2>1
    <2>2. ASSUME NEW v \in Reviews, Apply(v)
          PROVE  l # review[v].row.line
      BY <2>2 DEF Apply, Applicable, Codable, ReadIsCurrent
    <2>3. ASSUME NEW v \in Reviews, Apply(v)
          PROVE  lines'[l].by = lines[l].by
      BY <2>2, <2>3 DEF Apply
    <2>4. ASSUME NEW k \in Lines, NEW a \in Accounts \cup {Suspense},
                 Bookkeep(k, a)
          PROVE  lines'[l].by \in {lines[l].by, None}
      BY <2>4 DEF Bookkeep
    <2>. QED
      BY <2>1, <2>3, <2>4, LinesWrittenBy
  <1>. QED
    BY <1>1, <1>2, <1>3, PTL DEF Spec, CodingIsNotReplaced
-----------------------------------------------------------------------------
(* What keeps proposals apart: an evaluation whose rules nobody has        *)
(* written since it began holds no match that already waits for review,    *)
(* and holds no match twice.                                               *)
DueIsNew ==
  \A e \in Evaluations : evaluation[e] # None =>
    /\ \A m, n \in evaluation[e].due :
         m.line = n.line /\ m.rule = n.rule => m = n
    /\ ~evaluation[e].stale =>
         \A m \in evaluation[e].due, c \in Candidates :
           ~(/\ Exists(c) /\ candidates[c].state = "pending"
             /\ candidates[c].line = m.line /\ candidates[c].rule = m.rule)

OnceInv == WellFormed /\ DueIsNew /\ ProposedOnce

(* A step that makes no candidate pending and renames none keeps them.     *)
NoneProposed ==
  \A c \in Candidates :
    candidates'[c] # None /\ candidates'[c].state = "pending"
      => /\ candidates[c] # None /\ candidates[c].state = "pending"
         /\ candidates'[c].line = candidates[c].line
         /\ candidates'[c].rule = candidates[c].rule

NoneRead ==
  \A e \in Evaluations : evaluation'[e] # None =>
    /\ evaluation[e] # None /\ evaluation'[e].due = evaluation[e].due
    /\ ~evaluation'[e].stale => ~evaluation[e].stale

(* A step that adds no candidate and nothing due proposes nothing twice.   *)
LEMMA QuietStep ==
  ASSUME OnceInv, NoneProposed, NoneRead
  PROVE  DueIsNew' /\ ProposedOnce'
  <1>1. ProposedOnce'
    BY DEF OnceInv, ProposedOnce, NoneProposed
  <1>2. DueIsNew'
    <2>. SUFFICES ASSUME NEW e \in Evaluations, evaluation'[e] # None
                  PROVE  /\ \A m, n \in evaluation'[e].due :
                              m.line = n.line /\ m.rule = n.rule => m = n
                         /\ ~evaluation'[e].stale =>
                              \A m \in evaluation'[e].due, c \in Candidates :
                                ~(/\ candidates'[c] # None
                                  /\ candidates'[c].state = "pending"
                                  /\ candidates'[c].line = m.line
                                  /\ candidates'[c].rule = m.rule)
      BY DEF DueIsNew, Exists
    <2>. QED
      BY DEF OnceInv, DueIsNew, Exists, NoneProposed, NoneRead
  <1>. QED
    BY <1>1, <1>2

(* Reading anew: a line with a live proposal is not due, and a match is    *)
(* told by its line and rule.                                              *)
LEMMA ReadsAreNew ==
  ASSUME NEW window
  PROVE  /\ \A m, n \in Reads(window).due :
              m.line = n.line /\ m.rule = n.rule => m = n
         /\ \A m \in Reads(window).due, c \in Candidates :
              ~(/\ Exists(c) /\ candidates[c].state = "pending"
                /\ candidates[c].line = m.line /\ candidates[c].rule = m.rule)
  BY DEF Reads, Proposes, Match, HasLive

(* An evaluation that reads again finds due only what is pending nowhere.  *)
LEMMA ReadingStep ==
  ASSUME OnceInv, NEW e \in Evaluations, NEW window,
         evaluation' = [evaluation EXCEPT ![e] = Reads(window)],
         candidates' = candidates
  PROVE  DueIsNew' /\ ProposedOnce'
  <1>1. ProposedOnce'
    BY DEF OnceInv, ProposedOnce
  <1>2. evaluation'[e] = Reads(window)
    BY DEF OnceInv, WellFormed, TypeOK
  <1>3. \A f \in Evaluations : f # e => evaluation'[f] = evaluation[f]
    BY DEF OnceInv, WellFormed, TypeOK
  <1>. QED
    BY <1>1, <1>2, <1>3, ReadsAreNew DEF OnceInv, DueIsNew, Exists

(* Two evaluations that hold one line under one rule both count on the     *)
(* rule: the one that commits first makes the other stale.                 *)
LEMMA EvaluateStep ==
  ASSUME OnceInv, NEW e \in Evaluations, Evaluate(e)
  PROVE  DueIsNew' /\ ProposedOnce'
  <1>. DEFINE due == evaluation[e].due
              New(c) == ~Exists(c) /\ candidates'[c] # None
  <1>. evaluation \in [Evaluations -> Evaluation \cup {None}]
       /\ candidates \in [Candidates -> CandidateRow \cup {None}]
    BY DEF OnceInv, WellFormed, TypeOK
  <1>1. PICK fresh \in SUBSET {c \in Candidates : ~Exists(c)} :
          \E new \in [fresh -> due] :
            OneEach(due, fresh, new) /\ Create(fresh, new)
    BY Zenon DEF Evaluate
  <1>2. PICK new \in [fresh -> due] :
          OneEach(due, fresh, new) /\ Create(fresh, new)
    BY Zenon, <1>1
  <1>3. \A c \in Candidates :
          IF c \in fresh
          THEN /\ ~Exists(c) /\ new[c] \in due
               /\ candidates'[c].line = new[c].line
               /\ candidates'[c].rule = new[c].rule
          ELSE candidates'[c] = candidates[c]
    BY <1>2 DEF Create
  <1>4. ProposedOnce'
    <2>. SUFFICES ASSUME NEW c \in Candidates, NEW d \in Candidates,
                         candidates'[c] # None, candidates'[d] # None,
                         candidates'[c].state = "pending",
                         candidates'[d].state = "pending",
                         candidates'[c].line = candidates'[d].line,
                         candidates'[c].rule = candidates'[d].rule
                  PROVE  c = d
      BY DEF ProposedOnce
    <2>. \A m \in due, x \in Candidates :
           ~(/\ Exists(x) /\ candidates[x].state = "pending"
             /\ candidates[x].line = m.line /\ candidates[x].rule = m.rule)
      BY DEF OnceInv, DueIsNew, Evaluate
    <2>1. CASE c \in fresh /\ d \in fresh
      <3>1. new[c] = new[d]
        BY <1>3, <2>1 DEF OnceInv, DueIsNew, Evaluate
      <3>. QED
        BY <1>2, <2>1, <3>1 DEF OneEach
    <2>2. CASE c \in fresh /\ d \notin fresh
      BY <1>3, <2>2 DEF Exists
    <2>3. CASE c \notin fresh /\ d \in fresh
      BY <1>3, <2>3 DEF Exists
    <2>4. CASE c \notin fresh /\ d \notin fresh
      BY <1>3, <2>4 DEF OnceInv, ProposedOnce
    <2>. QED
      BY <2>1, <2>2, <2>3, <2>4
  <1>5. DueIsNew'
    <2>. SUFFICES ASSUME NEW f \in Evaluations, evaluation'[f] # None
                  PROVE  /\ \A m, n \in evaluation'[f].due :
                              m.line = n.line /\ m.rule = n.rule => m = n
                         /\ ~evaluation'[f].stale =>
                              \A m \in evaluation'[f].due, c \in Candidates :
                                ~(/\ candidates'[c] # None
                                  /\ candidates'[c].state = "pending"
                                  /\ candidates'[c].line = m.line
                                  /\ candidates'[c].rule = m.rule)
      BY DEF DueIsNew, Exists
    <2>1. f # e /\ evaluation[f] # None /\ evaluation'[f].due = evaluation[f].due
      BY DEF Evaluate, RulesWritten, Evaluation
    <2>2. ~evaluation'[f].stale =>
            ~evaluation[f].stale /\ Counts(f) \cap Counts(e) = {}
      BY <2>1 DEF Evaluate, RulesWritten, Evaluation
    <2>3. ASSUME ~evaluation'[f].stale, NEW m \in evaluation[f].due,
                 NEW c \in Candidates, candidates'[c] # None,
                 candidates'[c].state = "pending",
                 candidates'[c].line = m.line, candidates'[c].rule = m.rule
          PROVE  FALSE
      <3>1. CASE c \in fresh
        <4>1. new[c].rule \in Counts(e) /\ m.rule \in Counts(f)
          BY <1>3, <3>1 DEF Counts
        <4>. QED
          BY <1>3, <2>2, <2>3, <3>1, <4>1
      <3>2. CASE c \notin fresh
        BY <1>3, <2>1, <2>2, <2>3, <3>2 DEF OnceInv, DueIsNew, Exists
      <3>. QED
        BY <3>1, <3>2
    <2>. QED
      BY <2>1, <2>3 DEF OnceInv, DueIsNew
  <1>. QED
    BY <1>4, <1>5

(* Only an evaluation adds proposals or reads what is due.                 *)
LEMMA OnceKept == OnceInv /\ [Next]_vars => OnceInv'
  <1>. SUFFICES ASSUME OnceInv, [Next]_vars
                PROVE  DueIsNew' /\ ProposedOnce'
    BY WellFormedKept DEF OnceInv
  <1>. evaluation \in [Evaluations -> Evaluation \cup {None}]
       /\ candidates \in [Candidates -> CandidateRow \cup {None}]
       /\ review \in [Reviews -> Review \cup {None}]
    BY DEF OnceInv, WellFormed, TypeOK
  <1>1. CASE UNCHANGED <<candidates, evaluation>>
    BY <1>1, QuietStep DEF NoneProposed, NoneRead
  <1>2. ASSUME NEW e \in Evaluations, NEW window,
               evaluation' = [evaluation EXCEPT ![e] = Reads(window)],
               UNCHANGED candidates
        PROVE  DueIsNew' /\ ProposedOnce'
    BY <1>2, ReadingStep
  <1>3. ASSUME NEW e \in Evaluations, LeaveEvaluation(e)
        PROVE  DueIsNew' /\ ProposedOnce'
    BY <1>3, QuietStep DEF LeaveEvaluation, NoneProposed, NoneRead
  <1>4. ASSUME NEW v \in Reviews, NEW state \in {"approved", "rejected",
                                                 "applied", "exception"},
               Commits(v, state), review[v] # None, UNCHANGED evaluation
        PROVE  DueIsNew' /\ ProposedOnce'
    <2>1. candidates[review[v].on] \in CandidateRow
          /\ review[v].on \in Candidates
      BY <1>4 DEF OnceInv, WellFormed, ReviewedExists, Exists, Review
    <2>2. NoneProposed
      BY <1>4, <2>1 DEF NoneProposed, Commits, CandidateRow
    <2>. QED
      BY <1>4, <2>2, QuietStep DEF NoneRead
  <1>5. ASSUME NEW r \in Rules, WriteRule(r)
        PROVE  DueIsNew' /\ ProposedOnce'
    <2>1. NoneRead
      BY <1>5 DEF WriteRule, RulesWritten, NoneRead, Evaluation
    <2>. QED
      BY <1>5, <2>1, QuietStep DEF WriteRule, NoneProposed
  <1>6. ASSUME NEW c \in Candidates, NEW a \in Accounts, EditCandidate(c, a)
        PROVE  DueIsNew' /\ ProposedOnce'
    <2>1. NoneProposed
      BY <1>6 DEF EditCandidate, Exists, NoneProposed, CandidateRow
    <2>. QED
      BY <1>6, <2>1, QuietStep DEF EditCandidate, NoneRead
  <1>7. CASE \E v \in Reviews :
               Approve(v) \/ Reject(v) \/ Apply(v) \/ Refuse(v)
    BY <1>4, <1>7 DEF Approve, Reject, Apply, Refuse
  <1>8. CASE \E r \in Rules, a \in Accounts \cup {None} :
               ApproveRule(r) \/ RetireRule(r) \/ EditRule(r, a)
    BY <1>5, <1>8 DEF ApproveRule, RetireRule, EditRule
  <1>9. CASE \E e \in Evaluations : EvaluateAgain(e)
    BY <1>2, <1>9 DEF EvaluateAgain
  <1>10. CASE \E e \in Evaluations, window \in Windows :
                PressEvaluate(e, window)
    BY <1>2, <1>10 DEF PressEvaluate
  <1>11. \/ UNCHANGED <<candidates, evaluation>>
         \/ \E e \in Evaluations, window \in Windows : PressEvaluate(e, window)
         \/ \E e \in Evaluations :
              EvaluateAgain(e) \/ LeaveEvaluation(e) \/ Evaluate(e)
         \/ \E v \in Reviews : Approve(v) \/ Reject(v) \/ Apply(v) \/ Refuse(v)
         \/ \E r \in Rules : ApproveRule(r) \/ RetireRule(r)
         \/ \E r \in Rules, a \in Accounts \cup {None} : EditRule(r, a)
         \/ \E c \in Candidates, a \in Accounts : EditCandidate(c, a)
    BY DEF Next, vars, Press, Again, Leave, SeedRules, Bookkeep
  <1>. QED
    BY <1>1, <1>3, <1>6, <1>7, <1>8, <1>9, <1>10, <1>11, EvaluateStep

(* However evaluations overlap with each other, with reviews and with      *)
(* edits, no line waits twice for review under one rule.                   *)
THEOREM NeverProposedTwice == Spec => []ProposedOnce
  <1>1. Init => OnceInv
    BY WellFormedInitially DEF Init, OnceInv, DueIsNew, ProposedOnce
  <1>2. OnceInv => ProposedOnce
    BY DEF OnceInv
  <1>. QED
    BY <1>1, <1>2, OnceKept, PTL DEF Spec
=============================================================================
