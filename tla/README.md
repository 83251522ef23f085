# TLA+ models of the parachain-staking pallet

This directory holds TLA+ models of `src/pallets/parachain-staking/src/lib.rs`
as the Rococo runtime wires it (`src/runtime/rococo/src/lib.rs`). Each
definition is translated from the code. `PROJECT.json` maps every modelling
definition to the lines it stands for.

Some files the pallet uses are missing from the repository: `types.rs`
(candidate metadata and delegation buckets), `delegation_requests.rs`,
`auto_compound.rs`, `inflation.rs` and `set.rs`. Where lib.rs calls into them,
the model follows `spec.md`, and those definitions are marked `spec_modelled`.

## The system

| Part | Code | State | Operations |
|---|---|---|---|
| Candidate registry | lib.rs 882-1144 | `CandidateInfo`, `CandidatePool`, collator lock, `Total` | join, schedule/execute/cancel leave, go offline/online, bond more, schedule/execute/cancel bond less |
| Delegations | lib.rs 1145-1289, types.rs | `TopDelegations`, `BottomDelegations`, `DelegatorState`, delegator lock | delegate (with auto-compound), bond more, schedule revoke / bond less, execute, cancel, set auto-compound |
| Requests | delegation_requests.rs | `DelegationScheduledRequests` | schedule, execute, cancel |
| Round clock and points | lib.rs 1769-1830 | `Round`, `Points`, `AwardedPts` | `award_points_to_block_author` each block, `round.update` in `new_session` |
| Selection | lib.rs 1551-1696 | `SelectedCandidates`, `AtStake` | `compute_top_candidates`, `select_top_candidates` (including the fallback), `get_rewardable_delegators` |
| Payout engine | lib.rs 1359-1550, 1716-1768 | `Staked`, `DelayedPayouts` | `prepare_staking_payouts`, `handle_delayed_payouts`, `pay_one_collator_reward`, `mint_and_compound` |
| Governance | lib.rs 752-881, 1292-1316 | `InflationConfig`, `CollatorCommission`, `ParachainBondInfo`, `TotalSelected`, `Round.length`, invulnerables | root-only setters |
| Author eligibility | runtime lib.rs 641-646, 712-720, 1105-1135 | none (reads `SelectedCandidates`, session keys) | `NimbusApi::can_author`, the author inherent's filter |

How the parts interact:

- Extrinsics change the ledger at any time. Every dispatch is transactional.
- The session pallet calls `new_session` at each session boundary, every `Period` blocks. In that one call, the code:
  1. advances the round;
  2. prepares the payout of the new round;
  3. selects the collators and snapshots them in `AtStake`;
  4. records `Staked`;
  5. pays one collator of round `now - RewardPaymentDelay`.
- Payouts compound rewards back into delegations through the same bond-more code the extrinsic uses. That is where the payout engine and the ledger interact.
- Governance setters change the configuration that selection (`TotalSelected`) and payouts (inflation, commission, bond reserve) read at the next session.
- A collator asks `can_author` before building a block. At a session boundary the runtime predicts the next set with `compute_top_candidates`, because `new_session` only selects it in that block's `on_initialize`.

## Modules

- **`StakingLedger.tla`** models the ledger.
  - **State:** the ten storage items are the VARIABLES. `Ledger` is their record.
  - **Operations:** each helper of lib.rs is a pure operator from a ledger to a new ledger, or to `Fail` when the code returns an error.
  - **Actions:** each extrinsic is an action (`JoinCandidates` … `SetAutoCompound`) that commits the helper's result whole. A failing extrinsic therefore changes nothing, like a reverted dispatch.
  - **Inputs:** they range over small constant sets. Bond growth is capped by `MaxStake`.
  - **Round clock:** `RoundTick` is the round advance on its own.
  - **Genesis:** `ChainSpecCandidates` is the chain spec's staking config (rococo.rs 274-283): every invulnerable joins with `NORMAL_COLLATOR_MINIMUM_STAKE`, which the runtime also uses as `MinCandidateStk`, and there are no delegations. `GenesisLedger` folds `join_candidates` over it.
- **`SessionPayout.tla`** extends the ledger with the session and payout storage.
  - **Actions:**
    - `AwardPoints` is one block.
    - `NewSession` is the whole of `new_session`, with every call it makes in the code's order.
    - `RoundBoundReached` only stops the model at `MaxRound`.
  - **Arithmetic:**
    - Perbill and Percent are fixed point with accuracy `PerbillOne` (10^9 in the code, 100 in the models).
    - `from_rational` rounds down, and a ratio of one or more is one.
    - `Perbill * x` rounds to nearest, ties down, as `sp_arithmetic` does.
    - `mul_ceil` rounds up.
  - **Initial state:** `SessionInit` is the genesis build, which joins the chain-spec candidates without delegations and selects round 1.
  - **Configuration:** `config` holds `TotalSelected`, commission, bond reserve and the inflation schedule; `roundInfo` holds `Round.first` and `Round.length`; `blockNumber` counts blocks. Genesis puts `TotalSelected = MinSelectedCandidates` and derives the per-round rate from the annual one (`PerRound`, `spec_modelled` since inflation.rs is absent).
- **`Governance.tla`** extends SessionPayout with the seven root setters. Each is a pure operator returning the new config or `Fail` (is_valid, NoWritingSameValue, CannotSetBelowMin, the round-length checks), and an action that commits it. `set_blocks_per_round` also rederives the per-round inflation (`reset_round`). `set_invulnerables` checks `MaxInvulnerables` and validator registration and writes `invulnerables`, a list nothing in the pallet reads; the ledger and session actions leave it unchanged.
- **`AuthorFilter.tla`** extends SessionPayout with `can_author`: `lookup_account` (session-key owners: `GenesisKeyOwners`, the invulnerables whose keys the chain spec's SessionConfig registers, and the `KeyOwners` that called `set_keys`), the boundary test `ShouldEndSession`, and the aura-style rule `active[(slot >> 1) % len]` over the sorted predicted or current set. `ChainAccepts` is the check the author inherent applies once the block has run `new_session`.
- **`StakingAbstract.tla`** is what the ledger promises: candidate bonds, who backs whom with how much, and `Total`. Its steps change one bond, add one delegation (possibly pushing out one strictly smaller delegation), change or withdraw one, or remove a candidate with its backing. `StakingLedger` instantiates it with `bond <- candidateInfo bonds`, `backing <- top @@ bottom` and `total <- total`, and checks `ImplementsAbstract == Abs!Spec` as a property. SessionPayout inherits it, so compounding payouts are checked too.
- **`TopCandidates.tla`** is `compute_top_candidates` as pure operators, step by step: the pool as the owner-ordered `OrderedSet<Bond>` Vec (`PoolVec`), the stable `sort_by` amount (`SortByAmount`, a RECURSIVE insertion that keeps equal amounts in pool order), `.rev().take(TotalSelected)` (`TakeTop`), the `MinCollatorStk` filter and the final `sort()` (`SortedOwners`). SessionPayout's `compute_top_candidates` is `ComputeTop`, so ties are broken as the code breaks them. `SpecTop` is spec section 4.6's definition (rank by amount desc, owner asc), the reference the code is checked against. That the pool is ordered by owner follows from the code: `Bond` is inserted and removed by owner alone (`CandidateExists` on insert, `remove(&Bond::from_owner(..))`).
- **`PoolSelection.tla`** drives the pool through the edits the extrinsics make (insert of a new owner, `update_active`, remove by owner) and `set_total_selected`, so that every small pool is reached, and checks `ComputeTop` in each.
- **`MC_*.tla`** give the model values and the small sets the configs use.

## Runs

| Run | Cfg | Expect | What it shows |
|---|---|---|---|
| ledger_buckets | StakingLedger.cfg | pass | 1 candidate, 3 delegators, top/bottom capacity 1: kicks, promotions, requests and exits keep the ledger consistent |
| ledger_exits | StakingLedgerExits.cfg | pass | 2 candidates, 2 delegators: candidate exits unwind every delegation |
| payout | SessionPayout.cfg | pass | sessions, points and delayed payouts with compounding, interleaved with every extrinsic |
| drip_payout | SessionDrip.cfg | violation | under fairness of blocks and sessions, c1 and c2 author round 2 and one of them is never paid |
| fallback_session_set | SessionFallback.cfg | violation | the session pallet gets an empty set when selection fails |
| reward_rounding | SessionRounding.cfg | violation | more is minted than the collator's share |
| governance | Governance.cfg | pass | every setter interleaved with blocks, sessions and extrinsics keeps the schedule valid and the per-round rate matched to `Round.length` |
| round_length | GovernanceRoundLength.cfg | violation | a round closes after one session even when `Round.length` is longer |
| author_prediction | AuthorPrediction.cfg | pass | 2 candidates competing for 1 seat, with bond changes, exits and the fallback: snapshots kept, and at a session boundary `can_author` answers what the chain will accept after `new_session` |
| author_panic | AuthorPanic.cfg | violation | `can_author` divides by zero when no candidate qualifies |
| pool_selection | PoolSelection.cfg | pass | over every pool of three accounts and every TotalSelected, selection takes the largest qualified candidates, sorted |
| pool_ties | PoolSelectionTies.cfg | violation | between equal stakes the code gives the seat to the larger AccountId, the spec to the smaller |

Properties of the ledger runs:

- `TotalIsLockedStake`: `Total` equals the collator bonds plus all delegations. Each collator lock equals its bond, and each delegator lock equals the sum of its delegations.
- `DelegationsAgree`: every delegation in a bucket is in the delegator's state, and the other way round.
- `CountedStakeInPool`: a candidate in the pool is listed with bond + top total, and the pool holds exactly the active candidates.
- `BucketsOrdered`: bucket sizes respect their capacity. No bottom delegation exceeds a top one while the top bucket is full, and the metadata counters match the buckets.
- `RequestsMatchDelegations`: each request belongs to an existing delegation. A revoke is for the whole amount, and a bond-less leaves at least the minimum.

Properties of the payout and author_prediction runs:

- `SelectedHaveSnapshots`: the selected set is never empty, and every selected collator or author of a round has a snapshot for that round.
- `SnapshotsMatchStake`: each snapshot total is its bond plus the delegations it lists.
- `AuthorsEventuallyPaid` (liveness, drip_payout run only): eventually every round whose payout is due by `MaxRound` has no unpaid author left. The payout run has one candidate, so a round has at most one author and the single drip per session always drains it; the property is checked only in the two-candidate drip run, where it fails.
- `ImplementsAbstract` (refinement, also in both ledger runs): every step of the ledger is a step of `StakingAbstract`. It catches a kick of an equal-sized bottom delegation, which no invariant does.

Properties of the pool selection run:

- `TopIsLargest`: `compute_top_candidates` returns min(TotalSelected, qualified) collators; no qualified candidate left out has more stake than one selected; the result is strictly sorted by AccountId, which `is_selected_candidate`'s binary search needs.

Properties of the governance and author runs:

- `InflationMatchesRoundLength`: the per-round rate is the annual rate spread over the rounds of a year at the current `Round.length`, whichever setter ran last.
- `RoundHoldsTotalSelected`: `Round.length >= TotalSelected`, which takes both `set_total_selected`'s and `set_blocks_per_round`'s checks; the governance run offers TotalSelected up to 3 so that both refuse calls.
- `GovernanceTypeOK`: the schedule stays valid, the counters in range, and the invulnerables within `MaxInvulnerables` and registered.
- `PredictionMatchesSelection` (action property): on every `new_session`, for every author and slot, a non-panicking `can_author` answer equals `ChainAccepts` over the newly selected set.

Each property of a passing run has a mutant in `PROJECT.json`: a plausible bug in a mapped definition that TLC finds. Examples:

- a removal that forgets to promote from the bottom bucket;
- an exit that unlocks only the top bucket;
- a fallback that copies the wrong round;
- a compounding step that ignores a pending revoke.

## Findings

1. **Drip payout stalls (code bug).**
   - `handle_delayed_payouts` is called once per session, for round `now - RewardPaymentDelay` only (lib.rs 1442, 1819), and pays one collator.
   - In the trace c1 and c2 author round 2's two blocks (round 1 has a single block in the model, since `blockInRound` starts at 1), the session entering round 4 pays one, and no later session looks at round 2 again.
   - The round's storage is never removed either: the purge needs a call after the last payout, and each round gets a single call. This is listed as a hazard; it follows from the same code path.
   - The spec requires every author to be paid eventually and storage to be purged on the last drip.
2. **Empty session set (spec/code divergence).**
   - When no candidate qualifies, `new_session` returns `Some(empty)` (lib.rs 1828).
   - The spec says it returns `None`, keeping the previous set.
3. **Rounding (spec/code divergence).**
   - Perbill multiplication rounds to nearest, where the spec says truncation (lib.rs 1527).
   - A round can mint 3 units for a collator share of 2.
4. **`can_author` traps (code bug).**
   - At a session boundary the runtime API computes `active[(slot >> 1) % active.len()]` (runtime lib.rs 1130).
   - When no candidate qualifies, e.g. the only candidate went offline, `active` is empty and the modulo divides by zero. The pallet itself keeps the previous set in that case.
5. **Round length ignored (spec/code divergence).**
   - `new_session` calls `round.update` unconditionally (lib.rs 1806), so every session closes a round.
   - The pallet doc, `set_blocks_per_round`'s doc and the spec say a round lasts `Round.length` blocks. TLC shows a round of 2 blocks after the length was set to 4.

6. **Tie-break (spec/code divergence).**
   - `compute_top_candidates` sorts the owner-ordered pool by amount ascending, stably, then reverses it (lib.rs 1556-1561). Among equal stakes the larger AccountId comes first.
   - Spec section 4.6 ranks by (amount desc, owner asc). With two candidates at equal stake for one seat, the code selects the larger account and the spec the smaller.
   - TLC's trace ends in the pool {a1: 2, a2: 2} with TotalSelected 1. There `ComputeTop` is `<<a2>>` and `SpecTop` is `<<a1>>`. The mutant `ComputeTopNoRev` (used only in pool_selection's mutant run) would give `<<a1>>` and agree with the spec, so the violation is the code's order.

## Bounds

- Each ledger run keeps 1–2 candidates and 2–3 delegators. With capacity 1 per bucket, three delegators on one candidate fill both buckets and force kicks and promotions.
- Amounts stay in 0..3. That is enough for ordering ties, minimum checks and a bond-less that would drop below the minimum.
- `MaxRound` (2 to 5) is enough for two exit delays of one round, and for payouts `RewardPaymentDelay = 2` rounds after the points.
- The rounding run uses the smallest stakes that show the overpayment.
- Selection and payout are split into two runs to keep each within minutes:
  - selection (the author_prediction run) uses two candidates without delegators;
  - payout uses one candidate and one delegator.
- Governance uses one candidate without delegators and `MaxRound = 3`: two candidates multiply the setters' interleavings past minutes. One candidate is enough for every setter to succeed and fail, and for both orders of `set_inflation` and `set_blocks_per_round`. The invalid schedule `[48, 32, 16]` exercises `is_valid`.
- Pool selection uses three accounts with stakes 1..3 around `MinCollatorStk = 2`: ties, entries below the minimum, and TotalSelected below, equal to and above the pool size all occur, over all 192 pool states.
- The author runs reuse the selection bounds (two candidates, one seat) with slots 0..3, so `slot >> 1` takes two values and both candidates are picked by the rule.

## Fairness

`FairSessionSpec` adds weak fairness of `AwardPoints` and `NewSession` only. Blocks keep being produced and pallet_session rotates every `Period` blocks, so both are always eventually taken while enabled. Extrinsics get no fairness: nobody has to submit them. It is the specification of the drip_payout run, where `AuthorsEventuallyPaid` fails; the passing runs check safety and refinement only and use the plain `SessionSpec`.

## Not modelled

- **Perbill operators** are checked against a reference definition over bounded inputs.
- **The delay units issue** (runtime lib.rs 649): the model takes the exit delays as round counts, as the code uses them. `SESSION_PERIOD_BLOCKS` is defined outside the repository's sources, and nothing states what unit the delays should have, so no property checks them.
- **Keyless collators** (lib.rs 892): `join_candidates` does not ask for session keys, so a selected collator may own aura slots it can never author. In the author runs every candidate holds keys. Neither the spec nor a comment states the intent, so no run checks it; it is listed as a hazard.
- **Weights** (weights.rs) are generated benchmark formulas with no state, linear in the witness hints. A hint that is too small makes the extrinsic fail before it writes anything. Modelling weights or hints would add only failing paths that change nothing.
- **pallet_session**: its one-session queueing of the validator set and `new_session_genesis` are code of the external crate, and the spec does not describe them. Only the set `new_session` returns is modelled.
- **Not in scope:** the delegator-exit extrinsics, which are absent from lib.rs; the bucket code of types.rs and delegation_requests.rs, which are absent as well (modelled from the spec, marked `spec_modelled`).

With these parts out, every state-changing operation of lib.rs and of the runtime's staking wiring that is in the repository is an action of a module.
