----------------------------- MODULE BankCoding -----------------------------
(***************************************************************************)
(* Bank coding of southern_accounting_guardrails: an evaluation proposes,  *)
(* for every bank line still in suspense, the target account of the first  *)
(* approved rule that matches it; people approve, reject and apply the     *)
(* proposals.  Each button is one database transaction that reads the      *)
(* SNAPSHOT it began with (repeatable read): it is refused when a row it   *)
(* writes was written by another transaction since, and is then tried      *)
(* again, without its button being shown again.                            *)
(***************************************************************************)
EXTENDS Naturals

CONSTANTS Rules,       \* coding rules, numbered in the order they are tried
          Lines,       \* bank statement lines
          Candidates,  \* proposals an evaluation may create
          Accounts,    \* accounts a line may be coded to
          Suspense,    \* the suspense account every imported line begins on
          Merchant,    \* lines that are receipts of a merchant settlement
          Nameless,    \* lines whose suspense account has another name
          Unsafe,      \* revenue, receivable and tax accounts
          Matched,     \* <<r, l>>: rule r matches the label, date, amount of l
          Windows,     \* the lines of the dates an evaluation is made for
          Evaluations, \* transactions that evaluate: the daily job, people
          Reviews,     \* transactions that approve, reject or apply
          None,
          MaxEdits     \* bound: edits of rules, targets and lines by people

ASSUME CodingAssumption ==
  /\ Rules \subseteq Nat
  /\ Merchant \subseteq Lines /\ Nameless \subseteq Lines
  /\ Unsafe \subseteq Accounts /\ Suspense \notin Accounts
  /\ Matched \subseteq Rules \X Lines
  /\ Windows \subseteq SUBSET Lines
  /\ None \notin Accounts /\ None \notin Candidates
  /\ MaxEdits \in Nat

VARIABLES rules,       \* rule -> its state and target account
          lines,       \* bank line -> its account and who coded it
          candidates,  \* candidate -> the proposal, None before it is created
          evaluation,  \* transaction -> what it read of its window, or None
          review,      \* transaction -> what it read of its candidate, or None
          edits        \* edits made so far

vars == <<rules, lines, candidates, evaluation, review, edits>>

RuleRow == [state : {"absent", "draft", "approved", "retired"},
            target : Accounts \cup {None}]
LineRow == [account : Accounts \cup {Suspense}, by : Candidates \cup {None}]
CandidateRow ==
  [line : Lines, rule : Rules, target : Accounts,
   state : {"pending", "approved", "applied", "rejected", "exception"}]
Match == [line : Lines, rule : Rules, target : Accounts \cup {None}]

(* due: what the evaluation will create; stale: another transaction has    *)
(* since written a rule it counts on.                                      *)
Evaluation == [window : Windows, due : SUBSET Match, stale : BOOLEAN]

(* row, open: the candidate and whether its line was in suspense, as read; *)
(* stale, moved: another transaction has since written the candidate, or   *)
(* its line.                                                               *)
Review == [button : {"approve", "reject", "apply"}, on : Candidates,
           row : CandidateRow, open : BOOLEAN,
           stale : BOOLEAN, moved : BOOLEAN]

ASSUME NoneAssumption ==
  None \notin CandidateRow \cup Evaluation \cup Review

Exists(c) == candidates[c] # None
Reconciled(l) == lines[l].account # Suspense
UnsafeMerchantTarget(l, a) == l \in Merchant /\ a \in Unsafe
-----------------------------------------------------------------------------
(* A committed write makes its row stale in every transaction that has     *)
(* read it and will write it too.                                          *)

CountsNone(e) == {}

Counts(e) == {match.rule : match \in evaluation[e].due}

RulesWritten(written) ==
  [e \in Evaluations |->
     IF evaluation[e] # None /\ Counts(e) \cap written # {}
     THEN [evaluation[e] EXCEPT !.stale = TRUE]
     ELSE evaluation[e]]

CandidateWritten(c) ==
  [v \in Reviews |->
     IF review[v] # None /\ review[v].on = c
     THEN [review[v] EXCEPT !.stale = TRUE]
     ELSE review[v]]

LineWritten(l, reviews) ==
  [v \in Reviews |->
     IF reviews[v] # None /\ reviews[v].row.line = l
     THEN [reviews[v] EXCEPT !.moved = TRUE]
     ELSE reviews[v]]
-----------------------------------------------------------------------------
(* SouthernBankCodingRun.action_evaluate                                   *)

Matches(r, l) == rules[r].state = "approved" /\ <<r, l>> \in Matched

FirstMatch(r, l) ==
  Matches(r, l) /\ \A q \in Rules : Matches(q, l) => r <= q

HasLive(l) ==
  \E c \in Candidates :
    /\ Exists(c) /\ candidates[c].line = l
    /\ candidates[c].state \in {"pending", "approved", "applied"}

Proposes(window) ==
  {match \in Match :
     /\ match.line \in window
     /\ ~Reconciled(match.line) /\ ~HasLive(match.line)
     /\ FirstMatch(match.rule, match.line)
     /\ match.target = rules[match.rule].target}

Reads(window) ==
  [window |-> window, due |-> Proposes(window), stale |-> FALSE]

PressEvaluate(e, window) ==
  /\ evaluation[e] = None
  /\ evaluation' = [evaluation EXCEPT ![e] = Reads(window)]
  /\ UNCHANGED <<rules, lines, candidates, review, edits>>

(* A conflict: the server makes the same call in a new transaction.        *)
EvaluateAgain(e) ==
  /\ evaluation[e] # None /\ evaluation[e].stale
  /\ evaluation' = [evaluation EXCEPT ![e] = Reads(evaluation[e].window)]
  /\ UNCHANGED <<rules, lines, candidates, review, edits>>

(* The call fails: too many conflicts, or a proposal without an account.   *)
LeaveEvaluation(e) ==
  /\ evaluation[e] # None
  /\ evaluation' = [evaluation EXCEPT ![e] = None]
  /\ UNCHANGED <<rules, lines, candidates, review, edits>>

CompleteEver(due) == TRUE

(* A candidate without a target account cannot be stored.                  *)
Complete(due) == \A match \in due : match.target # None

OneEach(due, fresh, new) ==
  /\ \A match \in due : \E c \in fresh : new[c] = match
  /\ \A c, d \in fresh : new[c] = new[d] => c = d

Create(fresh, new) ==
  candidates' = [c \in Candidates |->
    IF c \in fresh
    THEN [line |-> new[c].line, rule |-> new[c].rule,
          target |-> new[c].target, state |-> "pending"]
    ELSE candidates[c]]

(* One new candidate for every line that is due, counted on its rule.      *)
Evaluate(e) ==
  /\ evaluation[e] # None /\ ~evaluation[e].stale
  /\ Complete(evaluation[e].due)
  /\ \E fresh \in SUBSET {c \in Candidates : ~Exists(c)} :
       \E new \in [fresh -> evaluation[e].due] :
         OneEach(evaluation[e].due, fresh, new) /\ Create(fresh, new)
  /\ evaluation' = [RulesWritten(Counts(e)) EXCEPT ![e] = None]
  /\ UNCHANGED <<rules, lines, review, edits>>
-----------------------------------------------------------------------------
(* SouthernBankCodingCandidate.action_approve, action_reject, action_apply *)

Shown(button, c) ==
  candidates[c].state = IF button = "apply" THEN "approved" ELSE "pending"

ReadsOf(button, c) ==
  [button |-> button, on |-> c, row |-> candidates[c],
   open |-> ~Reconciled(candidates[c].line),
   stale |-> FALSE, moved |-> FALSE]

Press(v, button, c) ==
  /\ review[v] = None
  /\ Exists(c) /\ Shown(button, c)
  /\ review' = [review EXCEPT ![v] = ReadsOf(button, c)]
  /\ UNCHANGED <<rules, lines, candidates, evaluation, edits>>

(* A conflict, or a page older than the press: the call reads anew, and    *)
(* nothing asks again whether its button is shown.                         *)
Again(v) ==
  /\ review[v] # None /\ (review[v].stale \/ review[v].moved)
  /\ review' = [review EXCEPT ![v] = ReadsOf(review[v].button, review[v].on)]
  /\ UNCHANGED <<rules, lines, candidates, evaluation, edits>>

Leave(v) ==
  /\ review[v] # None
  /\ review' = [review EXCEPT ![v] = None]
  /\ UNCHANGED <<rules, lines, candidates, evaluation, edits>>

(* The transaction commits, unless its candidate was written meanwhile.    *)
Commits(v, state) ==
  /\ ~review[v].stale
  /\ candidates' = [candidates EXCEPT ![review[v].on].state = state]

Approve(v) ==
  /\ review[v] # None /\ review[v].button = "approve"
  /\ ~UnsafeMerchantTarget(review[v].row.line, review[v].row.target)
  /\ Commits(v, "approved")
  /\ review' = [CandidateWritten(review[v].on) EXCEPT ![v] = None]
  /\ UNCHANGED <<rules, lines, evaluation, edits>>

Reject(v) ==
  /\ review[v] # None /\ review[v].button = "reject"
  /\ Commits(v, "rejected")
  /\ review' = [CandidateWritten(review[v].on) EXCEPT ![v] = None]
  /\ UNCHANGED <<rules, lines, evaluation, edits>>

ApplicableAnyLine(v) == review[v].row.state = "approved"

(* Otherwise the call is an error and writes nothing: a candidate that is  *)
(* not approved or, unless its target is refused first, a reconciled line. *)
Applicable(v) ==
  /\ review[v].row.state = "approved"
  /\ \/ UnsafeMerchantTarget(review[v].row.line, review[v].row.target)
     \/ review[v].open

CodableAsApproved(v) ==
  review[v].row.line \notin Nameless /\ ~review[v].moved

(* The line is written inside a savepoint, which fails when the line was   *)
(* written meanwhile.                                                      *)
Codable(v) ==
  /\ ~UnsafeMerchantTarget(review[v].row.line, review[v].row.target)
  /\ review[v].row.line \notin Nameless
  /\ ~review[v].moved

Apply(v) ==
  /\ review[v] # None /\ review[v].button = "apply"
  /\ Applicable(v) /\ Codable(v)
  /\ Commits(v, "applied")
  /\ LET l == review[v].row.line
     IN /\ lines' = [lines EXCEPT
             ![l] = [account |-> review[v].row.target, by |-> review[v].on]]
        /\ review' = [LineWritten(l, CandidateWritten(review[v].on))
                         EXCEPT ![v] = None]
  /\ UNCHANGED <<rules, evaluation, edits>>

(* The target is refused, the line was written meanwhile, or Odoo refuses  *)
(* the account to the line (another company, a locked period): the         *)
(* candidate is kept as an exception.                                      *)
Refuse(v) ==
  /\ review[v] # None /\ review[v].button = "apply"
  /\ Applicable(v)
  /\ Commits(v, "exception")
  /\ review' = [CandidateWritten(review[v].on) EXCEPT ![v] = None]
  /\ UNCHANGED <<rules, lines, evaluation, edits>>
-----------------------------------------------------------------------------
(* What people edit in between, each a transaction of its own.             *)

Edited == edits < MaxEdits /\ edits' = edits + 1

(* action_seed_legacy_rules: every rule of the retired scripts that has no *)
(* active record becomes a draft, with its account where one of that name  *)
(* is found.  It does not see a record that was retired, and makes another *)
(* one.  Which rule of the scripts a record stands for is left open.       *)
SeedRules ==
  /\ \E made \in SUBSET {r \in Rules : rules[r].state = "absent"},
        found \in [Rules -> Accounts \cup {None}] :
       rules' = [r \in Rules |->
         IF r \in made THEN [state |-> "draft", target |-> found[r]] ELSE rules[r]]
  /\ Edited
  /\ UNCHANGED <<lines, candidates, evaluation, review>>

WriteRule(r) ==
  /\ Edited
  /\ evaluation' = RulesWritten({r})
  /\ UNCHANGED <<lines, candidates, review>>

ApproveRule(r) ==
  /\ rules[r].state = "draft" /\ rules[r].target # None
  /\ rules' = [rules EXCEPT ![r].state = "approved"]
  /\ WriteRule(r)

RetireRule(r) ==
  /\ rules[r].state \in {"draft", "approved"}
  /\ rules' = [rules EXCEPT ![r].state = "retired"]
  /\ WriteRule(r)

EditRule(r, a) ==
  /\ rules[r].state # "absent" /\ rules[r].target # a
  /\ rules' = [rules EXCEPT ![r].target = a]
  /\ WriteRule(r)

EditCandidate(c, a) ==
  /\ Exists(c) /\ candidates[c].target # a
  /\ candidates' = [candidates EXCEPT ![c].target = a]
  /\ review' = CandidateWritten(c)
  /\ Edited
  /\ UNCHANGED <<rules, lines, evaluation>>

(* A bookkeeper matches a line by hand, or undoes what was matched.        *)
Bookkeep(l, a) ==
  /\ lines[l].account # a
  /\ lines' = [lines EXCEPT ![l] = [account |-> a, by |-> None]]
  /\ review' = LineWritten(l, review)
  /\ Edited
  /\ UNCHANGED <<rules, candidates, evaluation>>
-----------------------------------------------------------------------------
(* No rule is there yet, or some have been written and approved; every     *)
(* line has just been imported.                                            *)
Init ==
  /\ \/ rules = [r \in Rules |-> [state |-> "absent", target |-> None]]
     \/ rules \in [Rules -> {row \in RuleRow :
          /\ row.state \in {"draft", "approved"}
          /\ row.state = "approved" => row.target # None}]
  /\ lines = [l \in Lines |-> [account |-> Suspense, by |-> None]]
  /\ candidates = [c \in Candidates |-> None]
  /\ evaluation = [e \in Evaluations |-> None]
  /\ review = [v \in Reviews |-> None]
  /\ edits = 0

Next ==
  \/ \E e \in Evaluations, window \in Windows : PressEvaluate(e, window)
  \/ \E e \in Evaluations : EvaluateAgain(e)
  \/ \E e \in Evaluations : LeaveEvaluation(e)
  \/ \E e \in Evaluations : Evaluate(e)
  \/ \E v \in Reviews, c \in Candidates : Press(v, "approve", c)
  \/ \E v \in Reviews, c \in Candidates : Press(v, "reject", c)
  \/ \E v \in Reviews, c \in Candidates : Press(v, "apply", c)
  \/ \E v \in Reviews : Again(v)
  \/ \E v \in Reviews : Leave(v)
  \/ \E v \in Reviews : Approve(v)
  \/ \E v \in Reviews : Reject(v)
  \/ \E v \in Reviews : Apply(v)
  \/ \E v \in Reviews : Refuse(v)
  \/ SeedRules
  \/ \E r \in Rules : ApproveRule(r)
  \/ \E r \in Rules : RetireRule(r)
  \/ \E r \in Rules, a \in Accounts \cup {None} : EditRule(r, a)
  \/ \E c \in Candidates, a \in Accounts : EditCandidate(c, a)
  \/ \E l \in Lines, a \in Accounts \cup {Suspense} : Bookkeep(l, a)

Spec == Init /\ [][Next]_vars
-----------------------------------------------------------------------------
(* Rows keep their shape: every proposal names an account, though the rule *)
(* it came from may have lost its own between approval and evaluation.     *)
TypeOK ==
  /\ rules \in [Rules -> RuleRow]
  /\ lines \in [Lines -> LineRow]
  /\ candidates \in [Candidates -> CandidateRow \cup {None}]
  /\ evaluation \in [Evaluations -> Evaluation \cup {None}]
  /\ review \in [Reviews -> Review \cup {None}]
  /\ edits \in 0 .. MaxEdits

(* merchant_guard: a merchant settlement is never coded straight to        *)
(* revenue, receivables or tax, however a proposal's target is edited      *)
(* between its approval and its application.                               *)
SettlementsAreCleared ==
  \A l \in Merchant : lines[l].by # None => lines[l].account \notin Unsafe

(* However evaluations overlap, a line never waits twice for review under  *)
(* one rule: the later evaluation loses the rule's match count and begins  *)
(* again, where it sees the first one's proposal.                          *)
ProposedOnce ==
  \A c, d \in Candidates :
    /\ candidates[c] # None /\ candidates[d] # None
    /\ candidates[c].state = "pending" /\ candidates[d].state = "pending"
    /\ candidates[c].line = candidates[d].line
    /\ candidates[c].rule = candidates[d].rule
    => c = d

(* A line coded by one proposal, or matched by a bookkeeper, is not coded  *)
(* by another until it is undone.                                          *)
CodingIsNotReplaced ==
  [][\A l \in Lines :
       Reconciled(l) => lines'[l].by \in {lines[l].by, None}]_vars
=============================================================================
