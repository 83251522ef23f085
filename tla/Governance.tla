----------------------------- MODULE Governance -----------------------------
(***************************************************************************)
(* The root-only setters of pallet parachain-staking, interleaved with     *)
(* blocks, sessions and the staking extrinsics of SessionPayout.  Each     *)
(* setter validates its input, refuses to write the value already stored   *)
(* (NoWritingSameValue) and writes TotalSelected, CollatorCommission,      *)
(* ParachainBondInfo, InflationConfig or Round.length; set_invulnerables  *)
(* writes InvulnerableCandidates, which nothing in the pallet reads.       *)
(***************************************************************************)
EXTENDS SessionPayout, Sequences

CONSTANTS
  MinBlocksPerRound,     \* Config::MinBlocksPerRound (10 in the runtime)
  TotalSelectedInputs,   \* values offered to set_total_selected
  CommissionInputs,      \* Perbill values offered to set_collator_commission
  ReserveInputs,         \* Percent values offered to set_parachain_bond_reserve_percent
  BondAccountInputs,     \* accounts offered to set_parachain_bond_account
  ExpectInputs,          \* ranges offered to set_staking_expectations
  AnnualInputs,          \* Perbill ranges offered to set_inflation
  BlocksPerRoundInputs,  \* values offered to set_blocks_per_round
  MaxInvulnerables,      \* Config::MaxInvulnerables (10 in the runtime)
  RegisteredValidators,  \* accounts with session keys (ValidatorRegistration)
  InvulnerableInputs     \* account vectors offered to set_invulnerables

VARIABLE invulnerables   \* InvulnerableCandidates: a Vec of accounts

govVars == <<allVars, invulnerables>>

(* Range::is_valid: min <= ideal <= max.                                   *)
IsValidRange(r) == r.min <= r.ideal /\ r.ideal <= r.max

set_staking_expectations(cfg, expectations) ==
  IF ~IsValidRange(expectations) \/ cfg.expect = expectations THEN Fail
  ELSE [cfg EXCEPT !.expect = expectations]

(* Mutant: set_inflation without the schedule.is_valid() check.            *)
set_inflation_unchecked(cfg, schedule, length) ==
  IF cfg.annual = schedule THEN Fail
  ELSE [cfg EXCEPT !.annual = schedule, !.round = PerRound(schedule, length)]

(* set_inflation: the annual range, and the per-round range derived from it *)
(* at the current round length (set_round_from_annual).                    *)
set_inflation(cfg, schedule, length) ==
  IF ~IsValidRange(schedule) \/ cfg.annual = schedule THEN Fail
  ELSE [cfg EXCEPT !.annual = schedule, !.round = PerRound(schedule, length)]

set_parachain_bond_account(cfg, new) ==
  IF cfg.bondAccount = new THEN Fail ELSE [cfg EXCEPT !.bondAccount = new]

set_parachain_bond_reserve_percent(cfg, new) ==
  IF cfg.bondPercent = new THEN Fail ELSE [cfg EXCEPT !.bondPercent = new]

(* Mutant: set_total_selected without the check against Round.length.     *)
set_total_selected_unbounded(cfg, new, length) ==
  IF new < MinSelectedCandidates \/ cfg.totalSelected = new THEN Fail
  ELSE [cfg EXCEPT !.totalSelected = new]

set_total_selected(cfg, new, length) ==
  IF new < MinSelectedCandidates \/ cfg.totalSelected = new \/ new > length THEN Fail
  ELSE [cfg EXCEPT !.totalSelected = new]

set_collator_commission(cfg, new) ==
  IF cfg.collatorCommission = new THEN Fail ELSE [cfg EXCEPT !.collatorCommission = new]

(* Mutant: the BoundedVec conversion is skipped.                          *)
set_invulnerables_unbounded(new) ==
  IF \E i \in 1..Len(new) : new[i] \notin RegisteredValidators THEN Fail
  ELSE [invulnerables |-> new]

(* Mutant: the new length is stored but per-round inflation is not reset.  *)
blocks_per_round_keeps_rate(cfg, rinfo, new) ==
  IF new < MinBlocksPerRound \/ rinfo.length = new \/ new < cfg.totalSelected THEN Fail
  ELSE [config |-> cfg, roundInfo |-> [rinfo EXCEPT !.length = new]]

(* set_blocks_per_round: Round.length = new and InflationConfig.round      *)
(* rederived for the new number of rounds per year (reset_round).          *)
set_blocks_per_round(cfg, rinfo, new) ==
  IF new < MinBlocksPerRound \/ rinfo.length = new \/ new < cfg.totalSelected THEN Fail
  ELSE [config |-> [cfg EXCEPT !.round = PerRound(cfg.annual, new)],
        roundInfo |-> [rinfo EXCEPT !.length = new]]

(* set_invulnerables: the Vec must fit MaxInvulnerables (BoundedVec       *)
(* try_from) and every account must be a registered validator; no         *)
(* same-value check, so rewriting the stored list succeeds.                *)
set_invulnerables(new) ==
  IF Len(new) > MaxInvulnerables THEN Fail
  ELSE IF \E i \in 1..Len(new) : new[i] \notin RegisteredValidators THEN Fail
  ELSE [invulnerables |-> new]

(* A setter's dispatch: the new config, or nothing when it is refused.     *)
SetConfig(new) ==
  /\ ~Failed(new)
  /\ config' = new
  /\ UNCHANGED <<ledgerVars, round, selected, atStake, points, awardedPts, delayedPayouts,
                 staked, sessionValidators, blockInRound, payouts, roundInfo, blockNumber,
                 invulnerables>>

SetStakingExpectations ==
  \E e \in ExpectInputs : SetConfig(set_staking_expectations(config, e))
SetInflation ==
  \E a \in AnnualInputs : SetConfig(set_inflation(config, a, roundInfo.length))
SetParachainBondAccount ==
  \E a \in BondAccountInputs : SetConfig(set_parachain_bond_account(config, a))
SetParachainBondReservePercent ==
  \E p \in ReserveInputs : SetConfig(set_parachain_bond_reserve_percent(config, p))
SetTotalSelected ==
  \E n \in TotalSelectedInputs : SetConfig(set_total_selected(config, n, roundInfo.length))
SetCollatorCommission ==
  \E c \in CommissionInputs : SetConfig(set_collator_commission(config, c))
SetBlocksPerRound ==
  \E n \in BlocksPerRoundInputs :
    \E res \in {set_blocks_per_round(config, roundInfo, n)} :
      /\ ~Failed(res)
      /\ config' = res.config
      /\ roundInfo' = res.roundInfo
      /\ UNCHANGED <<ledgerVars, round, selected, atStake, points, awardedPts,
                     delayedPayouts, staked, sessionValidators, blockInRound, payouts,
                     blockNumber, invulnerables>>
SetInvulnerables ==
  \E v \in InvulnerableInputs :
    \E res \in {set_invulnerables(v)} :
      /\ ~Failed(res)
      /\ invulnerables' = res.invulnerables
      /\ UNCHANGED allVars

GovernanceNext ==
  \/ SetStakingExpectations \/ SetInflation \/ SetParachainBondAccount
  \/ SetParachainBondReservePercent \/ SetTotalSelected \/ SetCollatorCommission
  \/ SetBlocksPerRound \/ SetInvulnerables

GovernedNext == (SessionNext /\ UNCHANGED invulnerables) \/ GovernanceNext

(* InvulnerableCandidates is a ValueQuery the genesis build never writes.  *)
GovernedInit == SessionInit /\ invulnerables = <<>>

GovernedSpec == GovernedInit /\ [][GovernedNext]_govVars

(***************************************************************************)
(* Properties.                                                             *)
(***************************************************************************)

GovernanceTypeOK ==
  /\ config.totalSelected \in Nat \ {0}
  /\ config.collatorCommission \in 0..PerbillOne /\ config.bondPercent \in 0..100
  /\ IsValidRange(config.annual)
  /\ roundInfo.length \in Nat \ {0} /\ roundInfo.first \in Nat
  /\ Len(invulnerables) <= MaxInvulnerables
  /\ \A i \in 1..Len(invulnerables) : invulnerables[i] \in RegisteredValidators

(* The per-round inflation compute_issuance pays out is the annual rate    *)
(* spread over the rounds a year holds at the current Round.length: both   *)
(* set_inflation and set_blocks_per_round must rederive it, whichever of   *)
(* the two governance calls came last.                                     *)
InflationMatchesRoundLength ==
  config.round = PerRound(config.annual, roundInfo.length)

(* A round is never shorter than the number of collators it selects (spec *)
(* section 3, RoundInfo): set_total_selected refuses more than             *)
(* Round.length, and set_blocks_per_round refuses a length below           *)
(* TotalSelected, in whichever order governance calls them.               *)
RoundHoldsTotalSelected == roundInfo.length >= config.totalSelected

(* A round closes only once Round.length blocks have passed since its     *)
(* first block (the pallet's doc: "a new round every Round.length blocks"; *)
(* set_blocks_per_round's doc: a shorter length ends the round at the next *)
(* block).                                                                 *)
RoundLastsLength ==
  [][NewSession => blockNumber + 1 - roundInfo.first >= roundInfo.length]_allVars
====
