\* Round length: after set_blocks_per_round(4), new_session still closes
\* the round at the next session boundary, two blocks in.
CONSTANTS
  c1 = c1  c2 = c2  d1 = d1  ZeroAccount = ZeroAccount  BondAcct = BondAcct
  Cands <- OneCand
  AccountOrder <- OneOrder
  Dels <- NoDels
  GenesisCandidates <- OneCand
  MaxTop = 1
  MaxBottom = 1
  MaxDelegationsPerDelegator = 1
  MinCandidateStk = 2
  MinDelegation = 1
  MinDelegatorStk = 1
  LeaveCandidatesDelay = 1
  CandidateBondLessDelay = 1
  RevokeDelegationDelay = 1
  DelegationBondLessDelay = 1
  BondAmounts = {}
  MoreAmounts = {}
  LessAmounts = {}
  DelegationAmounts = {}
  Percents = {0}
  MaxStake = 3
  MaxRound = 3
  RewardPaymentDelay = 2
  Period = 2
  MinSelectedCandidates = 1
  MinCollatorStk = 2
  PerbillOne = 100
  Supply = 100
  BlocksPerYear = 16
  ExistingAccounts <- WithBondAcct
  GenesisConfig <- GovGenesis
  MinBlocksPerRound = 2
  TotalSelectedInputs <- TotalSelectedValues
  CommissionInputs <- CommissionValues
  ReserveInputs <- ReserveValues
  BondAccountInputs <- BondAccountValues
  ExpectInputs <- ExpectValues
  AnnualInputs <- AnnualValues
  BlocksPerRoundInputs <- LongerRound
  MaxInvulnerables = 1
  RegisteredValidators <- OneCand
  InvulnerableInputs <- InvulnerableValues
INIT GovernedInit
NEXT GovernedNext
PROPERTY
  RoundLastsLength
