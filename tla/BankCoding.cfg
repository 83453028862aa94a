CONSTANTS
  Rules = {1, 2}
  l1 = l1
  l2 = l2
  c1 = c1
  c2 = c2
  e1 = e1
  e2 = e2
  v1 = v1
  v2 = v2
  clearing = clearing
  revenue = revenue
  Suspense = Suspense
  None = None
  Lines = {l1, l2}
  Candidates = {c1, c2}
  Accounts = {clearing, revenue}
  Merchant = {l1}
  Nameless = {l2}
  Unsafe = {revenue}
  Windows = {{l1, l2}}
  Matched <- MCMatched
  Evaluations = {e1, e2}
  Reviews = {v1, v2}
  MaxEdits = 1
SPECIFICATION Spec
INVARIANTS TypeOK SettlementsAreCleared ProposedOnce
PROPERTIES CodingIsNotReplaced
SYMMETRY Symmetry
