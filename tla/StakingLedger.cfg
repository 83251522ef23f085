CONSTANTS
  c1 = c1  c2 = c2  d1 = d1  d2 = d2  d3 = d3
  Cands <- BucketCands
  Dels <- BucketDels
  GenesisCandidates <- Genesis
  MaxTop = 1
  MaxBottom = 1
  MaxDelegationsPerDelegator = 2
  MinCandidateStk = 2
  MinDelegation = 1
  MinDelegatorStk = 1
  LeaveCandidatesDelay = 1
  CandidateBondLessDelay = 1
  RevokeDelegationDelay = 1
  DelegationBondLessDelay = 1
  BondAmounts = {2}
  MoreAmounts = {1}
  LessAmounts = {1}
  DelegationAmounts = {0, 1, 2}
  Percents = {0, 50}
  MaxStake = 3
  MaxRound = 2
INIT Init
NEXT Next
PROPERTY
  ImplementsAbstract
INVARIANTS TypeOK TotalIsLockedStake DelegationsAgree CountedStakeInPool BucketsOrdered RequestsMatchDelegations
