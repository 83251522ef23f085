\* Spec section 4.6 breaks ties in favour of the smaller AccountId; the
\* code keeps the larger one.
CONSTANTS
  a1 = a1  a2 = a2  a3 = a3
  AccountOrder <- ThreeAccounts
  Amounts = {1, 2, 3}
  MinCollatorStk = 2
  MinSelected = 1
  MaxSelected = 3
SPECIFICATION Spec
INVARIANTS
  TieBreakMatchesSpec
