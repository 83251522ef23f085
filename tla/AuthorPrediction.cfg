\* Selection, its fallback and can_author at session boundaries: two
\* candidates competing for one seat, bonding more, going offline and
\* leaving, four rounds of two blocks.
CONSTANTS
  c1 = c1  c2 = c2  d1 = d1  ZeroAccount = ZeroAccount  BondAcct = BondAcct
  Cands <- TwoCands
  Dels <- NoDels
  GenesisCandidates <- TwoCands
  MaxTop = 1
  MaxBottom = 1
  MaxDelegationsPerDelegator = 2
  MinCandidateStk = 2
  MinDelegation = 1
  MinDelegatorStk = 1
  LeaveCandidatesDelay = 1
  CandidateBondLessDelay = 1
  RevokeDelegationDelay = 1
  DelegationBondLessDelay = 1
  BondAmounts = {}
  MoreAmounts = {1}
  LessAmounts = {}
  DelegationAmounts = {1}
  Percents = {50}
  MaxStake = 3
  MaxRound = 4
  RewardPaymentDelay = 2
  Period = 2
  MinCollatorStk = 2
  PerbillOne = 100
  MinSelectedCandidates = 1
  Supply = 100
  BlocksPerYear = 16
  ExistingAccounts <- WithZeroAccount
  GenesisConfig <- AuthorGenesis
  AccountOrder <- CandOrder
  Slots <- FourSlots
  KeyOwners <- TwoCands
INIT SessionInit
NEXT SessionNext
INVARIANTS
  SelectedHaveSnapshots
PROPERTY
  PredictionMatchesSelection
