\* Fallback selection: once no candidate qualifies, new_session hands an
\* empty collator set to the session pallet.
CONSTANTS
  c1 = c1  c2 = c2  d1 = d1  d2 = d2  d3 = d3  ZeroAccount = ZeroAccount  BondAcct = BondAcct
  Cands <- TwoCands
  AccountOrder <- CandOrder
  Dels <- NoDels
  GenesisCandidates <- TwoCands
  MaxTop = 1
  MaxBottom = 1
  MaxDelegationsPerDelegator = 2
  MinCandidateStk = 2
  MinDelegation = 1
  MinDelegatorStk = 1
  LeaveCandidatesDelay = 1
  CandidateBondLessDelay = 1
  RevokeDelegationDelay = 1
  DelegationBondLessDelay = 1
  BondAmounts = {}
  MoreAmounts = {}
  LessAmounts = {}
  DelegationAmounts = {1}
  Percents = {50}
  MaxStake = 3
  MaxRound = 4
  RewardPaymentDelay = 2
  Period = 2
  MinCollatorStk = 2
  PerbillOne = 100
  MinSelectedCandidates = 1
  Supply = 100
  BlocksPerYear = 16
  ExistingAccounts <- WithZeroAccount
  GenesisConfig <- PayoutGenesis
INIT SessionInit
NEXT SessionNext
INVARIANTS
  SessionValidatorsMatchSelected
