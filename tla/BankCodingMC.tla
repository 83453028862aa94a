---------------------------- MODULE BankCodingMC ----------------------------
(***************************************************************************)
(* TLC instance of BankCoding: a merchant settlement and, on a suspense    *)
(* account of another name, a line only the second rule matches.           *)
(***************************************************************************)
EXTENDS BankCoding, TLC

CONSTANTS l1, l2, c1, c2, e1, e2, v1, v2

MCMatched == {<<1, l1>>, <<2, l1>>, <<2, l2>>}

Symmetry == 
  Permutations(Candidates) \cup Permutations(Evaluations)
    \cup Permutations(Reviews)
=============================================================================
