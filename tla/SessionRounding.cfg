\* Rounding: a collator and two delegators of equal stake share a reward of 2.
CONSTANTS
  c1 = c1  c2 = c2  d1 = d1  d2 = d2  d3 = d3  ZeroAccount = ZeroAccount  BondAcct = BondAcct
  Cands <- OneCand
  AccountOrder <- OneOrder
  Dels <- TwoDels
  GenesisCandidates <- OneCand
  MaxTop = 2
  MaxBottom = 1
  MaxDelegationsPerDelegator = 2
  MinCandidateStk = 2
  MinDelegation = 1
  MinDelegatorStk = 1
  LeaveCandidatesDelay = 1
  CandidateBondLessDelay = 1
  RevokeDelegationDelay = 1
  DelegationBondLessDelay = 1
  BondAmounts = {}
  MoreAmounts = {}
  LessAmounts = {}
  DelegationAmounts = {2}
  Percents = {0}
  MaxStake = 2
  MaxRound = 4
  RewardPaymentDelay = 2
  Period = 2
  MinCollatorStk = 2
  PerbillOne = 100
  MinSelectedCandidates = 1
  Supply = 100
  BlocksPerYear = 16
  ExistingAccounts <- WithZeroAccount
  GenesisConfig <- RoundingGenesis
INIT SessionInit
NEXT SessionNext
INVARIANTS
  RewardsWithinShare
