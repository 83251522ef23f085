--------------------------- MODULE SessionPayout ---------------------------
(***************************************************************************)
(* The round machinery of pallet parachain-staking: blocks award points to *)
(* their author (on_finalize), and the session pallet's new_session hook   *)
(* advances the round, prepares the payout of the round RewardPaymentDelay *)
(* rounds ago, selects and snapshots the next collators, records Staked    *)
(* and pays one collator of the matured round.  The staking ledger of      *)
(* StakingLedger runs alongside: extrinsics interleave with blocks, and a  *)
(* payout compounds rewards back into the ledger through                   *)
(* delegation_bond_more_without_event.                                     *)
(***************************************************************************)
EXTENDS StakingLedger, TopCandidates

CONSTANTS
  RewardPaymentDelay,   \* Config::RewardPaymentDelay (2 in the runtime)
  Period,               \* blocks per session (SESSION_PERIOD_BLOCKS)
  MinSelectedCandidates,\* Config::MinSelectedCandidates: TotalSelected at genesis
  MinCollatorStk,       \* Config::MinCollatorStk
  PerbillOne,           \* accuracy of Perbill (10^9 in the code)
  Supply,               \* total issuance the per-round inflation rates apply to
  BlocksPerYear,        \* blocks per year that per-round inflation is derived from
  ExistingAccounts,     \* accounts deposit_into_existing can credit
  GenesisConfig,        \* the chain spec's staking config: commission, bond
                        \* reserve percent and account, expectations, annual
                        \* inflation and blocks_per_round
  AccountOrder          \* the accounts of Cands in AccountId order, as a sequence

ASSUME RewardPaymentDelay >= 1 /\ Period >= 1 /\ MinSelectedCandidates >= 1 /\ PerbillOne >= 1
ASSUME /\ Len(AccountOrder) = Cardinality(Cands)
       /\ \A i \in 1..Len(AccountOrder) : AccountOrder[i] \in Cands

VARIABLES
  selected,          \* SelectedCandidates
  atStake,           \* AtStake: round -> collator -> CollatorSnapshot
  points,            \* Points: round -> total points
  awardedPts,        \* AwardedPts: round -> author -> points
  delayedPayouts,    \* DelayedPayouts: round -> DelayedPayout
  staked,            \* Staked: round -> Total at the round's start
  sessionValidators, \* the collators new_session last handed to the session pallet
  blockInRound,      \* blocks authored since the last session change
  payouts,           \* history: one record per pay_one_collator_reward that paid
  config,            \* TotalSelected, CollatorCommission, ParachainBondInfo, InflationConfig
  roundInfo,         \* Round's first block and length (round is Round.current)
  blockNumber        \* frame_system block number of the last finalized block

sessionVars == <<selected, atStake, points, awardedPts, delayedPayouts, staked,
                 sessionValidators, blockInRound, payouts, config, roundInfo, blockNumber>>

Rounds == 0..MaxRound
PointsPerBlock == 20   \* award_points_to_block_author: score_plus_20

(***************************************************************************)
(* Fixed-point arithmetic of sp-arithmetic, at accuracy PerbillOne.        *)
(***************************************************************************)

(* Perbill::from_rational(p, q): p/q rounded down, one when q = 0 or p >= q. *)
FromRational(p, q) ==
  IF q = 0 \/ p >= q THEN PerbillOne ELSE (p * PerbillOne) \div q

(* Perbill * balance: the product rounded to the nearest unit, ties down   *)
(* (Rounding::NearestPrefDown).                                            *)
PerbillMul(parts, x) ==
  LET n == parts * x IN
  IF 2 * (n % PerbillOne) > PerbillOne THEN n \div PerbillOne + 1 ELSE n \div PerbillOne

(* Percent * balance (nearest, ties down) and Percent::mul_ceil.           *)
PercentMul(pct, x) ==
  LET n == pct * x IN IF 2 * (n % 100) > 100 THEN n \div 100 + 1 ELSE n \div 100
PercentMulCeil(pct, x) == (pct * x + 99) \div 100

(* set_round_from_annual / reset_round: a per-round rate is the annual     *)
(* rate divided by the rounds a year holds at the given round length.      *)
PerRound(annual, length) ==
  LET perYear == BlocksPerYear \div length
      Div(x) == IF perYear = 0 THEN x ELSE x \div perYear
  IN [min |-> Div(annual.min), ideal |-> Div(annual.ideal), max |-> Div(annual.max)]

(* round_issuance_range: each per-round rate applied to the total issuance. *)
RoundIssuanceRange(rate) ==
  [min |-> PerbillMul(rate.min, Supply), ideal |-> PerbillMul(rate.ideal, Supply),
   max |-> PerbillMul(rate.max, Supply)]

(***************************************************************************)
(* Selection and snapshot.                                                 *)
(***************************************************************************)

(* compute_top_candidates: the sorted Vec of TopCandidates, as a set.     *)
compute_top_candidates(pool) ==
  LET top == ComputeTop(AccountOrder, pool, config.totalSelected, MinCollatorStk)
  IN {top[i] : i \in 1..Len(top)}

(* Mutant: a pending revoke zeroes the reward but its stake stays counted. *)
rewardable_revoke_counted(L, c) ==
  LET top == L.topDelegations[c]
      Req(d) == CHOOSE r \in RequestOf(L, c, d) : TRUE
      Adjusted(d) ==
        IF RequestOf(L, c, d) = {} THEN top[d]
        ELSE IF Req(d).action = "Revoke" THEN 0 ELSE SatSub(top[d], Req(d).amount)
      Uncounted(d) ==
        IF RequestOf(L, c, d) = {} \/ Req(d).action = "Revoke" THEN 0 ELSE Req(d).amount
  IN [uncounted |-> SumFunction([d \in DOMAIN top |-> Uncounted(d)]),
      rewardable |-> [d \in DOMAIN top |-> Adjusted(d)]]

(* get_rewardable_delegators: top delegations with a pending revoke count  *)
(* zero and with a pending decrease count the remainder; what they lose is *)
(* the uncounted stake.                                                    *)
get_rewardable_delegators(L, c) ==
  LET top == L.topDelegations[c]
      Req(d) == CHOOSE r \in RequestOf(L, c, d) : TRUE
      Adjusted(d) ==
        IF RequestOf(L, c, d) = {} THEN top[d]
        ELSE IF Req(d).action = "Revoke" THEN 0 ELSE SatSub(top[d], Req(d).amount)
      Uncounted(d) ==
        IF RequestOf(L, c, d) = {} THEN 0
        ELSE IF Req(d).action = "Revoke" THEN top[d] ELSE Req(d).amount
  IN [uncounted |-> SumFunction([d \in DOMAIN top |-> Uncounted(d)]),
      rewardable |-> [d \in DOMAIN top |-> Adjusted(d)]]

AutoCompoundOf(L, c, d) ==
  IF d \in DOMAIN L.autoCompound[c] THEN L.autoCompound[c][d] ELSE 0

(* The CollatorSnapshot select_top_candidates stores for collator c.       *)
Snapshot(L, c) ==
  LET rd == get_rewardable_delegators(L, c) IN
  [bond |-> L.candidateInfo[c].bond,
   total |-> SatSub(L.candidateInfo[c].totalCounted, rd.uncounted),
   delegations |-> [d \in DOMAIN rd.rewardable |->
                      [amount |-> rd.rewardable[d],
                       autoCompound |-> AutoCompoundOf(L, c, d)]]]

(* Mutant: the fallback copies the snapshots of two rounds ago.           *)
select_fallback_two_back(L, P, now) ==
  LET cs == compute_top_candidates(L.candidatePool) IN
  IF cs = {}
  THEN [P EXCEPT !.atStake[now] = P.atStake[SatSub(now, 2)], !.collators = {}]
  ELSE [P EXCEPT !.atStake[now] = [c \in cs |-> Snapshot(L, c)],
                 !.selected = cs, !.collators = cs]

(* select_top_candidates(now): the new selection and its snapshots, or,    *)
(* when nobody qualifies, last round's snapshots copied forward with       *)
(* SelectedCandidates kept; the collators it returns are empty then.       *)
select_top_candidates(L, P, now) ==
  LET cs == compute_top_candidates(L.candidatePool) IN
  IF cs = {}
  THEN [P EXCEPT !.atStake[now] = P.atStake[SatSub(now, 1)], !.collators = {}]
  ELSE [P EXCEPT !.atStake[now] = [c \in cs |-> Snapshot(L, c)],
                 !.selected = cs, !.collators = cs]

(***************************************************************************)
(* Payouts.                                                                *)
(***************************************************************************)

(* compute_issuance: the min, ideal or max round issuance as Staked falls  *)
(* below, inside or above the expected band.                               *)
compute_issuance(st) ==
  LET range == RoundIssuanceRange(config.round) IN
  IF st < config.expect.min THEN range.min
  ELSE IF st > config.expect.max THEN range.max ELSE range.ideal

(* prepare_staking_payouts(now): for the round RewardPaymentDelay ago, if  *)
(* it earned points, take its Staked, set the parachain bond reserve aside *)
(* (when that deposit succeeds) and record the DelayedPayout.              *)
prepare_staking_payouts(P, now) ==
  LET r == now - RewardPaymentDelay IN
  IF now <= RewardPaymentDelay \/ P.points[r] = 0 THEN P
  ELSE LET st      == IF r \in DOMAIN P.staked THEN P.staked[r] ELSE 0
           issue   == compute_issuance(st)
           reserve == PercentMul(config.bondPercent, issue)
           left    == IF config.bondAccount \in ExistingAccounts
                      THEN SatSub(issue, reserve) ELSE issue
       IN [P EXCEPT !.staked = Drop(@, r),
                    !.delayedPayouts = (r :> [roundIssuance |-> issue,
                                              totalStakingReward |-> left,
                                              collatorCommission |-> config.collatorCommission])
                                       @@ @]

(* Mutants: compounding ignores a pending revoke; compounding writes the  *)
(* delegation on both sides without moving Total.                         *)
compound_despite_revoke(L, amt, pct, c, d) ==
  LET more == PercentMulCeil(pct, amt)
      L1   == bond_more_despite_revoke(L, d, c, more)
  IN IF more = 0 \/ Failed(L1) THEN L ELSE L1
compound_outside_total(L, amt, pct, c, d) ==
  LET more == PercentMulCeil(pct, amt)
      L1   == delegation_bond_more_without_event(L, d, c, more)
  IN IF more = 0 \/ Failed(L1) THEN L ELSE [L1 EXCEPT !.total = L.total]

(* mint_and_compound: the reward is minted, and ceil(percent * reward) is  *)
(* bonded back onto the delegation; a failed bond-more is only logged.     *)
mint_and_compound(L, amt, pct, c, d) ==
  LET more == PercentMulCeil(pct, amt)
      L1   == delegation_bond_more_without_event(L, d, c, more)
  IN IF more = 0 \/ Failed(L1) THEN L ELSE L1

(* Mutant: the paid author's points are reset to zero instead of removed. *)
pay_one_zeroes_points(L, P, r, info) ==
  IF P.points[r] = 0 \/ DOMAIN P.awardedPts[r] = {}
  THEN [paid |-> FALSE, L |-> L, P |-> P]
  ELSE LET c == CHOOSE a \in DOMAIN P.awardedPts[r] : TRUE IN
       [paid |-> TRUE, L |-> L,
        P |-> [P EXCEPT !.awardedPts[r][c] = 0, !.atStake[r] = Drop(@, c)]]

(* pay_one_collator_reward(r): drain one author of round r from AwardedPts *)
(* and take its snapshot; pay the collator its commission and its bond's   *)
(* share, each rewardable delegator its share (compounding it).  Answers   *)
(* whether a payout was made, with the new ledger and session state.       *)
pay_one_collator_reward(L, P, r, info) ==
  IF P.points[r] = 0 \/ DOMAIN P.awardedPts[r] = {}
  THEN [paid |-> FALSE, L |-> L, P |-> P]
  ELSE
  LET c         == CHOOSE a \in DOMAIN P.awardedPts[r] : TRUE
      pctDue    == FromRational(P.awardedPts[r][c], P.points[r])
      totalPaid == PerbillMul(pctDue, info.totalStakingReward)
      state     == IF c \in DOMAIN P.atStake[r] THEN P.atStake[r][c]
                   ELSE [bond |-> 0, total |-> 0, delegations |-> <<>>]
      dels      == state.delegations
      commission == PerbillMul(pctDue, PerbillMul(info.collatorCommission, info.roundIssuance))
      amtDue    == SatSub(totalPaid, commission)
      Due(d)    == PerbillMul(FromRational(dels[d].amount, state.total), amtDue)
      collatorReward == PerbillMul(FromRational(state.bond, state.total), amtDue) + commission
      Pay(d, acc) == IF Due(d) = 0 THEN acc
                     ELSE mint_and_compound(acc, Due(d), dels[d].autoCompound, c, d)
      minted    == IF DOMAIN dels = {} THEN totalPaid
                   ELSE collatorReward + SumFunction([d \in DOMAIN dels |-> Due(d)])
      P1 == [P EXCEPT !.awardedPts[r] = Drop(@, c), !.atStake[r] = Drop(@, c),
                      !.payouts = @ \cup {[round |-> r, collator |-> c,
                                           totalPaid |-> totalPaid, minted |-> minted]}]
  IN [paid |-> TRUE, L |-> FoldSet(Pay, L, DOMAIN dels), P |-> P1]

(* handle_delayed_payouts(now): pay one collator of round now - delay; if  *)
(* none was left, clear that round's DelayedPayouts, Points and AtStake.   *)
handle_delayed_payouts(L, P, now) ==
  LET r == now - RewardPaymentDelay IN
  IF now < RewardPaymentDelay \/ r \notin DOMAIN P.delayedPayouts
  THEN [L |-> L, P |-> P]
  ELSE LET res == pay_one_collator_reward(L, P, r, P.delayedPayouts[r]) IN
       IF res.paid THEN [L |-> res.L, P |-> res.P]
       ELSE [L |-> res.L,
             P |-> [res.P EXCEPT !.delayedPayouts = Drop(@, r), !.points[r] = 0,
                                 !.atStake[r] = <<>>]]

(***************************************************************************)
(* The session hook and blocks.                                            *)
(***************************************************************************)

Session == [selected |-> selected, atStake |-> atStake, points |-> points,
            awardedPts |-> awardedPts, delayedPayouts |-> delayedPayouts,
            staked |-> staked, collators |-> sessionValidators, payouts |-> payouts]

(* new_session: round.update advances the round at every session, the new *)
(* round starting at the current block; then                              *)
(* prepare payouts, select and snapshot, record Staked = Total, pay one    *)
(* collator, and hand Some(collators) to the session pallet.               *)
NewSession ==
  /\ blockInRound = Period
  /\ round < MaxRound
  /\ \E P1 \in {select_top_candidates(Ledger, prepare_staking_payouts(Session, round + 1),
                                       round + 1)} :
     \E res \in {handle_delayed_payouts(Ledger, [P1 EXCEPT !.staked = (round + 1 :> total) @@ @],
                                       round + 1)} :
       /\ Commit(res.L)
       /\ round' = round + 1
       /\ selected' = res.P.selected
       /\ atStake' = res.P.atStake
       /\ points' = res.P.points
       /\ awardedPts' = res.P.awardedPts
       /\ delayedPayouts' = res.P.delayedPayouts
       /\ staked' = res.P.staked
       /\ sessionValidators' = res.P.collators
       /\ payouts' = res.P.payouts
       /\ blockInRound' = 0
       /\ roundInfo' = [roundInfo EXCEPT !.first = blockNumber + 1]
       /\ UNCHANGED <<config, blockNumber>>

(* A block: its author, one of SelectedCandidates by the aura-style        *)
(* filter, gets PointsPerBlock in the current round (on_finalize).         *)
AwardPoints ==
  /\ blockInRound < Period
  /\ \E a \in selected :
       LET had == IF a \in DOMAIN awardedPts[round] THEN awardedPts[round][a] ELSE 0 IN
       /\ awardedPts' = [awardedPts EXCEPT ![round] = (a :> had + PointsPerBlock) @@ @]
       /\ points' = [points EXCEPT ![round] = @ + PointsPerBlock]
  /\ blockInRound' = blockInRound + 1
  /\ blockNumber' = blockNumber + 1
  /\ UNCHANGED <<ledgerVars, round, selected, atStake, delayedPayouts, staked,
                 sessionValidators, payouts, config, roundInfo>>

(* Genesis config: InflationConfig, CollatorCommission and              *)
(* ParachainBondInfo from the chain spec, TotalSelected at its minimum.    *)
GenesisConfigState ==
  [totalSelected |-> MinSelectedCandidates,
   collatorCommission |-> GenesisConfig.commission,
   bondPercent |-> GenesisConfig.bondPercent, bondAccount |-> GenesisConfig.bondAccount,
   expect |-> GenesisConfig.expect, annual |-> GenesisConfig.annual,
   round |-> PerRound(GenesisConfig.annual, GenesisConfig.blocksPerRound)]

(* Genesis: the ledger's genesis, then select_top_candidates(1) and        *)
(* Staked[1] = Total; block 0 is the genesis block and awards nothing.     *)
GenesisSession ==
  LET P0 == [selected |-> {}, atStake |-> [r \in Rounds |-> <<>>],
             points |-> [r \in Rounds |-> 0], awardedPts |-> [r \in Rounds |-> <<>>],
             delayedPayouts |-> <<>>, staked |-> <<>>, collators |-> {}, payouts |-> {}]
      P1 == select_top_candidates(GenesisLedger, P0, 1)
  IN [P1 EXCEPT !.staked = (1 :> GenesisLedger.total)]

SessionInit ==
  /\ config = GenesisConfigState
  /\ roundInfo = [first |-> 0, length |-> GenesisConfig.blocksPerRound]
  /\ blockNumber = 0
  /\ LedgerInit
  /\ round = 1
  /\ selected = GenesisSession.selected
  /\ atStake = GenesisSession.atStake
  /\ points = GenesisSession.points
  /\ awardedPts = GenesisSession.awardedPts
  /\ delayedPayouts = GenesisSession.delayedPayouts
  /\ staked = GenesisSession.staked
  /\ sessionValidators = GenesisSession.collators
  /\ payouts = {}
  /\ blockInRound = 1

(* The model's round clock stops at MaxRound; the chain itself goes on,   *)
(* so reaching the bound is a stop of the model, not a deadlock.          *)
RoundBoundReached ==
  /\ round = MaxRound /\ blockInRound = Period
  /\ UNCHANGED <<ledgerVars, round, sessionVars>>

SessionNext ==
  \/ LedgerNext /\ UNCHANGED sessionVars
  \/ AwardPoints
  \/ NewSession
  \/ RoundBoundReached

allVars == <<ledgerVars, round, sessionVars>>

SessionSpec == SessionInit /\ [][SessionNext]_allVars

(* Blocks keep coming (the relay chain includes a block of some collator   *)
(* whenever one is due) and the session pallet calls new_session at every  *)
(* Period-th block; extrinsics are users' choice and get no fairness.      *)
FairSessionSpec ==
  SessionSpec /\ WF_allVars(AwardPoints) /\ WF_allVars(NewSession)

(***************************************************************************)
(* Properties.                                                             *)
(***************************************************************************)

IsSnapshot(s) ==
  /\ DOMAIN s = {"bond", "total", "delegations"}
  /\ s.bond \in Nat /\ s.total \in Nat
  /\ IsPartialFn(s.delegations, Dels, [amount : Nat, autoCompound : 0..100])

SessionTypeOK ==
  /\ selected \subseteq Cands /\ sessionValidators \subseteq Cands
  /\ \A r \in Rounds :
       /\ DOMAIN atStake[r] \subseteq Cands
       /\ \A c \in DOMAIN atStake[r] : IsSnapshot(atStake[r][c])
       /\ points[r] \in Nat
       /\ IsPartialFn(awardedPts[r], Cands, Nat \ {0})
  /\ DOMAIN delayedPayouts \subseteq Rounds /\ IsPartialFn(staked, Rounds, Nat)
  /\ blockInRound \in 0..Period /\ blockNumber \in Nat

(* SelectedCandidates is never empty and each of its members has a         *)
(* snapshot for the current round, and so does every author that earned   *)
(* points in a round: the fallback of select_top_candidates copies last    *)
(* round's snapshots forward and relies on this ("all selected candidates  *)
(* have snapshots"), and pay_one_collator_reward takes the author's        *)
(* snapshot to split its reward.                                           *)
SelectedHaveSnapshots ==
  /\ selected # {}
  /\ selected \subseteq DOMAIN atStake[round]
  /\ \A r \in Rounds : DOMAIN awardedPts[r] \subseteq DOMAIN atStake[r]

(* A snapshot's total is its self bond plus the amounts it will reward:    *)
(* total_counted less the stake of pending revokes and decreases is what   *)
(* get_rewardable_delegators leaves in the delegations it returns, so      *)
(* shares of a payout add up to at most the whole.                         *)
SnapshotsMatchStake ==
  \A r \in Rounds : \A c \in DOMAIN atStake[r] :
    LET s == atStake[r][c] IN
    s.total = s.bond + SumFunction([d \in DOMAIN s.delegations |-> s.delegations[d].amount])

(* Every author of a round is eventually paid (spec 4.7 and section 8:    *)
(* payouts drip one collator per session from the oldest unfinished        *)
(* matured round until it is done): handle_delayed_payouts eventually      *)
(* drains AwardedPts of every round whose payout round the model reaches,  *)
(* and it stays drained.                                                   *)
AuthorsEventuallyPaid ==
  <>[](\A r \in Rounds : r + RewardPaymentDelay <= MaxRound => awardedPts[r] = <<>>)

(* The collators new_session hands to the session pallet are the selected  *)
(* ones: when selection falls back, the previous set is kept (spec 6:      *)
(* return None to keep the previous set).                                  *)
SessionValidatorsMatchSelected == sessionValidators = selected

(* No payout mints more than the share it was due: the collator reward and *)
(* the delegators' dues of one pay_one_collator_reward add up to at most   *)
(* total_paid (spec 4.7: Perbill products truncate toward zero).           *)
RewardsWithinShare == \A p \in payouts : p.minted <= p.totalPaid
====
