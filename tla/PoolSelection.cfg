\* compute_top_candidates over every pool of three accounts with stakes
\* 1..3 (ties, entries below MinCollatorStk = 2) and every TotalSelected.
CONSTANTS
  a1 = a1  a2 = a2  a3 = a3
  AccountOrder <- ThreeAccounts
  Amounts = {1, 2, 3}
  MinCollatorStk = 2
  MinSelected = 1
  MaxSelected = 3
SPECIFICATION Spec
INVARIANTS
  TopIsLargest
