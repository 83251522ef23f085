\* Drip payout: two collators author round 2 (two blocks); its payout round
\* 4 pays one of them and no later session returns to round 2.
CONSTANTS
  c1 = c1  c2 = c2  d1 = d1  d2 = d2  d3 = d3  ZeroAccount = ZeroAccount  BondAcct = BondAcct
  Cands <- TwoCands
  AccountOrder <- CandOrder
  Dels <- NoDels
  GenesisCandidates <- TwoCands
  MaxTop = 1
  MaxBottom = 1
  MaxDelegationsPerDelegator = 2
  MinCandidateStk = 2
  MinDelegation = 1
  MinDelegatorStk = 1
  LeaveCandidatesDelay = 1
  CandidateBondLessDelay = 1
  RevokeDelegationDelay = 1
  DelegationBondLessDelay = 1
  BondAmounts = {}
  MoreAmounts = {}
  LessAmounts = {}
  DelegationAmounts = {1}
  Percents = {50}
  MaxStake = 3
  MaxRound = 4
  RewardPaymentDelay = 2
  Period = 2
  MinCollatorStk = 2
  PerbillOne = 100
  MinSelectedCandidates = 2
  Supply = 100
  BlocksPerYear = 16
  ExistingAccounts <- WithZeroAccount
  GenesisConfig <- PayoutGenesis
SPECIFICATION FairSessionSpec
PROPERTY
  AuthorsEventuallyPaid
