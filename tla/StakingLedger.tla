---------------------------- MODULE StakingLedger ----------------------------
(***************************************************************************)
(* The bonding side of pallet-parachain-staking: collator candidates,      *)
(* their top and bottom delegation buckets, delegators, scheduled          *)
(* delegation requests, auto-compound settings, the candidate pool, the    *)
(* Total counter and the two balance locks the pallet keeps per account.   *)
(*                                                                         *)
(* Every extrinsic is a pure operator from the storage (a record Ledger   *)
(* whose fields are the storage items) to the new storage, or to Fail      *)
(* when the call returns an error (a failed extrinsic commits nothing).    *)
(* The operators are reused by SessionPayout, where auto-compounding calls *)
(* the same delegator bond-more path from inside the payout.               *)
(*                                                                         *)
(* The candidate and delegator helpers (types.rs, delegation_requests.rs,  *)
(* auto_compound.rs) are not in the repository; they are modelled from     *)
(* spec.md sections 4.2-4.4 and the behaviour lib.rs relies on.           *)
(***************************************************************************)
EXTENDS Integers, FiniteSets, Functions, FiniteSetsExt, TLC

CONSTANTS
  Cands,                      \* accounts that may become collator candidates
  Dels,                       \* accounts that may become delegators
  GenesisCandidates,          \* candidates joined by the genesis config
  MaxTop,                     \* MaxTopDelegationsPerCandidate
  MaxBottom,                  \* MaxBottomDelegationsPerCandidate
  MaxDelegationsPerDelegator,
  MinCandidateStk, MinDelegation, MinDelegatorStk,
  LeaveCandidatesDelay, CandidateBondLessDelay,
  RevokeDelegationDelay, DelegationBondLessDelay,
  BondAmounts,                \* inputs of join_candidates
  MoreAmounts,                \* inputs of candidate_bond_more / delegator_bond_more
  LessAmounts,                \* inputs of the two schedule_*_bond_less calls
  DelegationAmounts,          \* inputs of delegate
  Percents,                   \* auto-compound percents offered to callers
  MaxStake,                   \* bound: no single bond grows beyond this
  MaxRound                    \* bound: the round clock stops here

ASSUME Cands \cap Dels = {} /\ GenesisCandidates \subseteq Cands
ASSUME MaxTop \in Nat \ {0} /\ MaxBottom \in Nat \ {0}
ASSUME Percents \subseteq 0..100

VARIABLES
  candidateInfo,      \* CandidateInfo: candidate -> metadata (domain = candidates)
  topDelegations,     \* TopDelegations: candidate -> (delegator -> amount)
  bottomDelegations,  \* BottomDelegations: candidate -> (delegator -> amount)
  delegatorState,     \* DelegatorState: delegator -> [delegations, total]
  scheduledRequests,  \* DelegationScheduledRequests: candidate -> set of requests
  autoCompound,       \* AutoCompoundingDelegations: candidate -> (delegator -> percent)
  candidatePool,      \* CandidatePool: set of [owner, amount]
  total,              \* Total
  collatorLock,       \* the COLLATOR_LOCK_ID lock the ledger holds per account
  delegatorLock,      \* the DELEGATOR_LOCK_ID lock the ledger holds per account
  round               \* Round.current

ledgerVars == <<candidateInfo, topDelegations, bottomDelegations, delegatorState,
                scheduledRequests, autoCompound, candidatePool, total,
                collatorLock, delegatorLock>>

Fail == [failed |-> TRUE]                 \* an extrinsic returned an error
Failed(L) == DOMAIN L = {"failed"}
SatSub(a, b) == IF a > b THEN a - b ELSE 0  \* saturating_sub

(* The storage as one value, and the step that writes a new one back     *)
(* (each extrinsic leaves the round alone: UNCHANGED round).             *)
Ledger == [candidateInfo |-> candidateInfo, topDelegations |-> topDelegations,
           bottomDelegations |-> bottomDelegations, delegatorState |-> delegatorState,
           scheduledRequests |-> scheduledRequests, autoCompound |-> autoCompound,
           candidatePool |-> candidatePool, total |-> total,
           collatorLock |-> collatorLock, delegatorLock |-> delegatorLock]

Commit(L) ==
  \E new \in {L} :
    /\ ~Failed(new)
    /\ candidateInfo' = new.candidateInfo
    /\ topDelegations' = new.topDelegations
    /\ bottomDelegations' = new.bottomDelegations
    /\ delegatorState' = new.delegatorState
    /\ scheduledRequests' = new.scheduledRequests
    /\ autoCompound' = new.autoCompound
    /\ candidatePool' = new.candidatePool
    /\ total' = new.total
    /\ collatorLock' = new.collatorLock
    /\ delegatorLock' = new.delegatorLock

Drop(f, x) == Restrict(f, DOMAIN f \ {x})          \* StorageMap::remove
Lowest(b) == CHOOSE d \in DOMAIN b : \A e \in DOMAIN b : b[d] <= b[e]
Highest(b) == CHOOSE d \in DOMAIN b : \A e \in DOMAIN b : b[d] >= b[e]
Full(b, cap) == Cardinality(DOMAIN b) >= cap
RequestOf(L, c, d) == {r \in L.scheduledRequests[c] : r.delegator = d}
HasRevoke(L, c, d) == \E r \in RequestOf(L, c, d) : r.action = "Revoke"

(***************************************************************************)
(* Candidate-side helpers (CandidateMetadata in types.rs).                 *)
(***************************************************************************)

(* update_active: re-insert the candidate's bond in the pool with amount   *)
update_active(pool, c, amt) ==
  {b \in pool : b.owner # c} \cup {[owner |-> c, amount |-> amt]}

(* reset_top_data: total_counted = bond + top total, mirrored in the pool  *)
(* when the candidate is Active.                                           *)
reset_top_data(L, c) ==
  LET info == [L.candidateInfo[c] EXCEPT
                 !.totalCounted = L.candidateInfo[c].bond
                                   + SumFunction(L.topDelegations[c])]
  IN [L EXCEPT !.candidateInfo[c] = info,
               !.candidatePool = IF info.status = "Active"
                                 THEN update_active(@, c, info.totalCounted) ELSE @]

(* The delegator record after its bond on c becomes amt (0: removed). The  *)
(* total moves by the difference, the DELEGATOR lock is set to the new     *)
(* total, and the record goes with its last delegation.                    *)
SetDelegatorBond(L, d, c, amt) ==
  LET had  == IF d \in DOMAIN L.delegatorState
              THEN L.delegatorState[d] ELSE [delegations |-> <<>>, total |-> 0]
      old  == IF c \in DOMAIN had.delegations THEN had.delegations[c] ELSE 0
      dels == IF amt = 0 THEN Drop(had.delegations, c)
              ELSE (c :> amt) @@ had.delegations
      tot  == had.total + amt - old
  IN IF DOMAIN dels = {}
     THEN [L EXCEPT !.delegatorState = Drop(@, d), !.delegatorLock[d] = 0]
     ELSE [L EXCEPT !.delegatorState = (d :> [delegations |-> dels, total |-> tot]) @@ @,
                    !.delegatorLock[d] = tot]

(* Remove every trace of delegator d at candidate c other than the bucket  *)
(* entry: the scheduled request and the auto-compound entry.               *)
ForgetAt(L, c, d) ==
  [L EXCEPT !.scheduledRequests[c] = {r \in @ : r.delegator # d},
            !.autoCompound[c] = Drop(@, d)]

(* Kick the lowest bottom delegation of c: its delegator loses the         *)
(* delegation, its request and auto-compound entry go, Total drops.        *)
KickLowestBottom(L, c) ==
  LET k == Lowest(L.bottomDelegations[c])
      a == L.bottomDelegations[c][k]
      L1 == [L EXCEPT !.bottomDelegations[c] = Drop(@, k), !.total = SatSub(@, a)]
  IN ForgetAt(SetDelegatorBond(L1, k, c, 0), c, k)

(* Mutant: a full bottom bucket admits an amount equal to its lowest.     *)
add_bottom_kicks_equal(L, c, d, amt, bumped) ==
  LET bot == L.bottomDelegations[c] IN
  IF Full(bot, MaxBottom) /\ ~bumped /\ amt < bot[Lowest(bot)] THEN Fail
  ELSE LET L1 == IF Full(bot, MaxBottom) THEN KickLowestBottom(L, c) ELSE L
       IN [L1 EXCEPT !.bottomDelegations[c] = (d :> amt) @@ @]

(* add_bottom_delegation: a full bottom bucket admits d only above its     *)
(* lowest entry (unless d was bumped from the top), kicking that entry.    *)
add_bottom_delegation(L, c, d, amt, bumped) ==
  LET bot == L.bottomDelegations[c] IN
  IF Full(bot, MaxBottom) /\ ~bumped /\ amt <= bot[Lowest(bot)] THEN Fail
  ELSE LET L1 == IF Full(bot, MaxBottom) THEN KickLowestBottom(L, c) ELSE L
       IN [L1 EXCEPT !.bottomDelegations[c] = (d :> amt) @@ @]

(* add_top_delegation: with the top full, the lowest top entry is bumped   *)
(* into the bottom bucket first.                                           *)
add_top_delegation(L, c, d, amt) ==
  LET top == L.topDelegations[c]
      lt  == Lowest(top)
      L1  == IF Full(top, MaxTop)
             THEN add_bottom_delegation([L EXCEPT !.topDelegations[c] = Drop(@, lt)],
                            c, lt, top[lt], TRUE)
             ELSE L
  IN reset_top_data([L1 EXCEPT !.topDelegations[c] = (d :> amt) @@ @], c)

(* add_delegation: into the top bucket when it has room or amt beats its   *)
(* lowest entry, else into the bottom bucket.                              *)
add_delegation(L, c, d, amt) ==
  LET top == L.topDelegations[c] IN
  IF ~Full(top, MaxTop) \/ amt > top[Lowest(top)]
  THEN add_top_delegation(L, c, d, amt)
  ELSE add_bottom_delegation(L, c, d, amt, FALSE)

(* increase_delegation: a top entry grows in place; a bottom entry that    *)
(* grows beyond the lowest top entry swaps places with it.                 *)
increase_delegation(L, c, d, more) ==
  LET top == L.topDelegations[c]
      bot == L.bottomDelegations[c]
  IN IF d \in DOMAIN top
     THEN reset_top_data([L EXCEPT !.topDelegations[c][d] = @ + more], c)
     ELSE IF bot[d] + more > top[Lowest(top)]
     THEN add_top_delegation([L EXCEPT !.bottomDelegations[c] = Drop(@, d)], c, d, bot[d] + more)
     ELSE [L EXCEPT !.bottomDelegations[c][d] = @ + more]

(* decrease_delegation: a top entry that falls below the highest bottom    *)
(* entry swaps places with it.                                             *)
decrease_delegation(L, c, d, less) ==
  LET top == L.topDelegations[c]
      bot == L.bottomDelegations[c]
      hb  == Highest(bot)
  IN IF d \in DOMAIN top
     THEN IF DOMAIN bot # {} /\ top[d] - less < bot[hb]
          THEN reset_top_data([L EXCEPT
                 !.topDelegations[c] = (hb :> bot[hb]) @@ Drop(@, d),
                 !.bottomDelegations[c] = (d :> top[d] - less) @@ Drop(@, hb)], c)
          ELSE reset_top_data([L EXCEPT !.topDelegations[c][d] = @ - less], c)
     ELSE [L EXCEPT !.bottomDelegations[c][d] = @ - less]

(* Mutant: the leaving top entry is not replaced from the bottom bucket. *)
rm_delegation_no_promotion(L, c, d) ==
  IF d \notin DOMAIN L.topDelegations[c]
  THEN [L EXCEPT !.bottomDelegations[c] = Drop(@, d)]
  ELSE reset_top_data([L EXCEPT !.topDelegations[c] = Drop(@, d)], c)

(* rm_delegation_if_exists: a top entry leaving promotes the highest       *)
(* bottom entry into the top bucket.                                       *)
rm_delegation_if_exists(L, c, d) ==
  LET top == L.topDelegations[c]
      bot == L.bottomDelegations[c]
  IN IF d \notin DOMAIN top
     THEN [L EXCEPT !.bottomDelegations[c] = Drop(@, d)]
     ELSE IF DOMAIN bot = {}
     THEN reset_top_data([L EXCEPT !.topDelegations[c] = Drop(@, d)], c)
     ELSE LET hb == Highest(bot) IN
          reset_top_data([L EXCEPT !.topDelegations[c] = (hb :> bot[hb]) @@ Drop(@, d),
                                 !.bottomDelegations[c] = Drop(@, hb)], c)

(***************************************************************************)
(* Candidate extrinsics (lib.rs, with CandidateMetadata from types.rs).    *)
(***************************************************************************)

NewCandidate(bond) ==
  [bond |-> bond, totalCounted |-> bond, status |-> "Active",
   exitRound |-> 0, request |-> {}]

InPool(L, c) == \E b \in L.candidatePool : b.owner = c
IsCandidate(L, c) == c \in DOMAIN L.candidateInfo
IsDelegator(L, d) == d \in DOMAIN L.delegatorState

join_candidates(L, c, bond) ==
  IF IsCandidate(L, c) \/ IsDelegator(L, c) \/ bond < MinCandidateStk
     \/ InPool(L, c)
  THEN Fail
  ELSE [L EXCEPT !.collatorLock[c] = bond,
                 !.candidateInfo = (c :> NewCandidate(bond)) @@ @,
                 !.topDelegations[c] = <<>>,
                 !.bottomDelegations[c] = <<>>,
                 !.candidatePool = @ \cup {[owner |-> c, amount |-> bond]},
                 !.total = @ + bond]

schedule_leave_candidates(L, c, now) ==
  IF ~IsCandidate(L, c) \/ L.candidateInfo[c].status = "Leaving" THEN Fail
  ELSE [L EXCEPT !.candidateInfo[c].status = "Leaving",
                 !.candidateInfo[c].exitRound = now + LeaveCandidatesDelay,
                 !.candidatePool = {b \in @ : b.owner # c}]

(* return_stake: a delegator of a leaving candidate loses that delegation, *)
(* its request and auto-compound entry there; one without a record of the  *)
(* delegation has its DELEGATOR lock removed.                              *)
return_stake(L, c, d) ==
  IF IsDelegator(L, d) /\ c \in DOMAIN L.delegatorState[d].delegations
  THEN ForgetAt(SetDelegatorBond(L, d, c, 0), c, d)
  ELSE [L EXCEPT !.delegatorLock[d] = 0]

(* Mutants: total_backing forgets the bottom bucket's total; the bottom   *)
(* bucket's delegators never get their stake returned.                    *)
execute_leave_backing_no_bottom(L, c, now) ==
  IF ~IsCandidate(L, c) \/ L.candidateInfo[c].status # "Leaving"
     \/ L.candidateInfo[c].exitRound > now
  THEN Fail
  ELSE LET top == L.topDelegations[c]
           L1  == FoldSet(LAMBDA d, acc : return_stake(acc, c, d), L,
                          DOMAIN top \cup DOMAIN L.bottomDelegations[c])
       IN [L1 EXCEPT !.collatorLock[c] = 0, !.candidateInfo = Drop(@, c),
                     !.scheduledRequests[c] = {}, !.autoCompound[c] = <<>>,
                     !.topDelegations[c] = <<>>, !.bottomDelegations[c] = <<>>,
                     !.total = SatSub(@, L.candidateInfo[c].bond + SumFunction(top))]
execute_leave_top_only(L, c, now) ==
  IF ~IsCandidate(L, c) \/ L.candidateInfo[c].status # "Leaving"
     \/ L.candidateInfo[c].exitRound > now
  THEN Fail
  ELSE LET top == L.topDelegations[c]
           bot == L.bottomDelegations[c]
           L1  == FoldSet(LAMBDA d, acc : return_stake(acc, c, d), L, DOMAIN top)
       IN [L1 EXCEPT !.collatorLock[c] = 0, !.candidateInfo = Drop(@, c),
                     !.scheduledRequests[c] = {}, !.autoCompound[c] = <<>>,
                     !.topDelegations[c] = <<>>, !.bottomDelegations[c] = <<>>,
                     !.total = SatSub(@, L.candidateInfo[c].bond + SumFunction(top)
                                         + SumFunction(bot))]

execute_leave_candidates(L, c, now) ==
  IF ~IsCandidate(L, c) \/ L.candidateInfo[c].status # "Leaving"
     \/ L.candidateInfo[c].exitRound > now
  THEN Fail
  ELSE LET top     == L.topDelegations[c]
           bot     == L.bottomDelegations[c]
           backing == L.candidateInfo[c].bond + SumFunction(top) + SumFunction(bot)
           Return(d, acc) == return_stake(acc, c, d)
           L1      == FoldSet(Return, L, DOMAIN top \cup DOMAIN bot)
       IN [L1 EXCEPT !.collatorLock[c] = 0,
                     !.candidateInfo = Drop(@, c),
                     !.scheduledRequests[c] = {},
                     !.autoCompound[c] = <<>>,
                     !.topDelegations[c] = <<>>,
                     !.bottomDelegations[c] = <<>>,
                     !.total = SatSub(@, backing)]

(* Mutant: the candidate re-enters the pool at its self bond, not at its *)
(* counted stake.                                                         *)
cancel_leave_with_bond(L, c) ==
  IF ~IsCandidate(L, c) \/ L.candidateInfo[c].status # "Leaving" \/ InPool(L, c)
  THEN Fail
  ELSE [L EXCEPT !.candidateInfo[c].status = "Active",
                 !.candidatePool = @ \cup {[owner |-> c, amount |-> L.candidateInfo[c].bond]}]

cancel_leave_candidates(L, c) ==
  IF ~IsCandidate(L, c) \/ L.candidateInfo[c].status # "Leaving" \/ InPool(L, c)
  THEN Fail
  ELSE [L EXCEPT !.candidateInfo[c].status = "Active",
                 !.candidatePool = @ \cup
                     {[owner |-> c, amount |-> L.candidateInfo[c].totalCounted]}]

go_offline(L, c) ==
  IF ~IsCandidate(L, c) \/ L.candidateInfo[c].status # "Active" THEN Fail
  ELSE [L EXCEPT !.candidateInfo[c].status = "Idle",
                 !.candidatePool = {b \in @ : b.owner # c}]

go_online(L, c) ==
  IF ~IsCandidate(L, c) \/ L.candidateInfo[c].status # "Idle" \/ InPool(L, c)
  THEN Fail
  ELSE [L EXCEPT !.candidateInfo[c].status = "Active",
                 !.candidatePool = @ \cup
                     {[owner |-> c, amount |-> L.candidateInfo[c].totalCounted]}]

candidate_bond_more(L, c, more) ==
  IF ~IsCandidate(L, c) THEN Fail
  ELSE LET L1 == [L EXCEPT !.candidateInfo[c].bond = @ + more,
                           !.candidateInfo[c].totalCounted = @ + more,
                           !.collatorLock[c] = @ + more,
                           !.total = @ + more]
       IN IF L1.candidateInfo[c].status = "Active"
          THEN [L1 EXCEPT !.candidatePool =
                   update_active(@, c, L1.candidateInfo[c].totalCounted)]
          ELSE L1

schedule_candidate_bond_less(L, c, less, now) ==
  IF ~IsCandidate(L, c) \/ L.candidateInfo[c].request # {}
     \/ L.candidateInfo[c].bond < less + MinCandidateStk
  THEN Fail
  ELSE [L EXCEPT !.candidateInfo[c].request =
                   {[amount |-> less, when |-> now + CandidateBondLessDelay]}]

execute_candidate_bond_less(L, c, now) ==
  IF ~IsCandidate(L, c) \/ L.candidateInfo[c].request = {} THEN Fail
  ELSE LET req == CHOOSE q \in L.candidateInfo[c].request : TRUE
           L1  == [L EXCEPT !.candidateInfo[c].bond = @ - req.amount,
                            !.candidateInfo[c].totalCounted = @ - req.amount,
                            !.candidateInfo[c].request = {},
                            !.collatorLock[c] = @ - req.amount,
                            !.total = SatSub(@, req.amount)]
       IN IF req.when > now THEN Fail
          ELSE IF L1.candidateInfo[c].status = "Active"
          THEN [L1 EXCEPT !.candidatePool =
                   update_active(@, c, L1.candidateInfo[c].totalCounted)]
          ELSE L1

cancel_candidate_bond_less(L, c) ==
  IF ~IsCandidate(L, c) \/ L.candidateInfo[c].request = {} THEN Fail
  ELSE [L EXCEPT !.candidateInfo[c].request = {}]

(***************************************************************************)
(* Delegator extrinsics (lib.rs, with auto_compound.rs and                 *)
(* delegation_requests.rs).                                                *)
(***************************************************************************)

Bonded(L, d, c) ==
  IF IsDelegator(L, d) /\ c \in DOMAIN L.delegatorState[d].delegations
  THEN L.delegatorState[d].delegations[c] ELSE 0

(* Mutant: no MinDelegation check, so an empty delegation is accepted.    *)
delegate_no_min(L, d, c, amt, pct) ==
  IF ~IsCandidate(L, c) \/ IsCandidate(L, d) \/ Bonded(L, d, c) > 0
     \/ (IsDelegator(L, d) /\ Cardinality(DOMAIN L.delegatorState[d].delegations)
                                >= MaxDelegationsPerDelegator)
  THEN Fail
  ELSE LET L1 == add_delegation(L, c, d, amt) IN
       IF Failed(L1) THEN Fail
       ELSE [SetDelegatorBond(L1, d, c, amt) EXCEPT
               !.total = @ + amt,
               !.autoCompound[c] = IF pct = 0 THEN @ ELSE (d :> pct) @@ @]

delegate_with_auto_compound(L, d, c, amt, pct) ==
  IF ~IsCandidate(L, c) \/ IsCandidate(L, d) \/ Bonded(L, d, c) > 0
     \/ amt < MinDelegation
     \/ (IsDelegator(L, d) /\ Cardinality(DOMAIN L.delegatorState[d].delegations)
                                >= MaxDelegationsPerDelegator)
     \/ (~IsDelegator(L, d) /\ amt < MinDelegatorStk)
  THEN Fail
  ELSE LET L1 == add_delegation(L, c, d, amt) IN
       IF Failed(L1) THEN Fail
       ELSE [SetDelegatorBond(L1, d, c, amt) EXCEPT
               !.total = @ + amt,
               !.autoCompound[c] = IF pct = 0 THEN @ ELSE (d :> pct) @@ @]

(* Mutant: the PendingDelegationRevoke check is dropped.                  *)
bond_more_despite_revoke(L, d, c, more) ==
  IF Bonded(L, d, c) = 0 \/ ~IsCandidate(L, c) THEN Fail
  ELSE [increase_delegation(SetDelegatorBond(L, d, c, Bonded(L, d, c) + more), c, d, more)
          EXCEPT !.total = @ + more]

delegation_bond_more_without_event(L, d, c, more) ==
  IF HasRevoke(L, c, d) \/ Bonded(L, d, c) = 0 \/ ~IsCandidate(L, c) THEN Fail
  ELSE [increase_delegation(SetDelegatorBond(L, d, c, Bonded(L, d, c) + more), c, d, more)
          EXCEPT !.total = @ + more]

NewRequest(d, action, amount, when) ==
  [delegator |-> d, action |-> action, amount |-> amount, when |-> when]

(* Mutant: a second request for the same delegation is accepted.          *)
schedule_revoke_twice(L, d, c, now) ==
  IF Bonded(L, d, c) = 0 THEN Fail
  ELSE [L EXCEPT !.scheduledRequests[c] = @ \cup
          {NewRequest(d, "Revoke", Bonded(L, d, c), now + RevokeDelegationDelay)}]

delegation_schedule_revoke(L, d, c, now) ==
  IF Bonded(L, d, c) = 0 \/ RequestOf(L, c, d) # {} THEN Fail
  ELSE [L EXCEPT !.scheduledRequests[c] = @ \cup
          {NewRequest(d, "Revoke", Bonded(L, d, c), now + RevokeDelegationDelay)}]

delegation_schedule_bond_decrease(L, d, c, less, now) ==
  IF Bonded(L, d, c) = 0 \/ RequestOf(L, c, d) # {}
     \/ Bonded(L, d, c) < less + MinDelegation
     \/ L.delegatorState[d].total < less + MinDelegatorStk
  THEN Fail
  ELSE [L EXCEPT !.scheduledRequests[c] = @ \cup
          {NewRequest(d, "Decrease", less, now + DelegationBondLessDelay)}]

(* delegator_leaves_candidate: the candidate side of a revoke; Total drops *)
(* by the amount the caller passes in.                                     *)
delegator_leaves_candidate(L, c, d, amount) ==
  IF ~IsCandidate(L, c) THEN Fail
  ELSE [rm_delegation_if_exists(L, c, d) EXCEPT !.total = SatSub(@, amount)]

delegation_execute_scheduled_request(L, d, c, now) ==
  IF RequestOf(L, c, d) = {} THEN Fail
  ELSE LET req    == CHOOSE r \in RequestOf(L, c, d) : TRUE
           bonded == Bonded(L, d, c)
       IN IF req.when > now THEN Fail
          ELSE IF req.action = "Revoke"
          THEN delegator_leaves_candidate(
                 ForgetAt(SetDelegatorBond(L, d, c, 0), c, d), c, d, req.amount)
          ELSE IF bonded <= req.amount
                  \/ L.delegatorState[d].total < req.amount + MinDelegatorStk
          THEN Fail
          ELSE LET L1 == [SetDelegatorBond(L, d, c, bonded - req.amount) EXCEPT
                            !.scheduledRequests[c] = {r \in @ : r.delegator # d},
                            !.total = SatSub(@, req.amount)]
               IN decrease_delegation(L1, c, d, req.amount)

delegation_cancel_request(L, d, c) ==
  IF RequestOf(L, c, d) = {} THEN Fail
  ELSE [L EXCEPT !.scheduledRequests[c] = {r \in @ : r.delegator # d}]

set_auto_compound(L, d, c, pct) ==
  IF Bonded(L, d, c) = 0 THEN Fail
  ELSE [L EXCEPT !.autoCompound[c] = IF pct = 0 THEN Drop(@, d) ELSE (d :> pct) @@ @]

(***************************************************************************)
(* Genesis: every genesis candidate joins with MinCandidateStk (the chain  *)
(* spec passes NORMAL_COLLATOR_MINIMUM_STAKE and no delegations); round 1. *)
(***************************************************************************)

EmptyLedger ==
  [candidateInfo |-> <<>>, delegatorState |-> <<>>,
   topDelegations |-> [c \in Cands |-> <<>>],
   bottomDelegations |-> [c \in Cands |-> <<>>],
   scheduledRequests |-> [c \in Cands |-> {}],
   autoCompound |-> [c \in Cands |-> <<>>],
   candidatePool |-> {}, total |-> 0,
   collatorLock |-> [c \in Cands |-> 0], delegatorLock |-> [d \in Dels |-> 0]]

(* The chain spec's ParachainStakingConfig: every invulnerable joins with *)
(* NORMAL_COLLATOR_MINIMUM_STAKE, which the runtime also takes for         *)
(* MinCandidateStk, and there are no genesis delegations.                  *)
ChainSpecCandidates == [c \in GenesisCandidates |-> MinCandidateStk]

GenesisLedger ==
  LET Join(c, acc) == join_candidates(acc, c, ChainSpecCandidates[c])
  IN FoldSet(Join, EmptyLedger, DOMAIN ChainSpecCandidates)

LedgerInit ==
  /\ candidateInfo = GenesisLedger.candidateInfo
  /\ topDelegations = GenesisLedger.topDelegations
  /\ bottomDelegations = GenesisLedger.bottomDelegations
  /\ delegatorState = GenesisLedger.delegatorState
  /\ scheduledRequests = GenesisLedger.scheduledRequests
  /\ autoCompound = GenesisLedger.autoCompound
  /\ candidatePool = GenesisLedger.candidatePool
  /\ total = GenesisLedger.total
  /\ collatorLock = GenesisLedger.collatorLock
  /\ delegatorLock = GenesisLedger.delegatorLock

(***************************************************************************)
(* One action per extrinsic; inputs range over small sets, and the amounts *)
(* that grow a bond are capped at MaxStake.                                *)
(***************************************************************************)

JoinCandidates ==
  \E c \in Cands, b \in BondAmounts : Commit(join_candidates(Ledger, c, b)) /\ UNCHANGED round
ScheduleLeaveCandidates ==
  \E c \in Cands : Commit(schedule_leave_candidates(Ledger, c, round)) /\ UNCHANGED round
ExecuteLeaveCandidates ==
  \E c \in Cands : Commit(execute_leave_candidates(Ledger, c, round)) /\ UNCHANGED round
CancelLeaveCandidates == \E c \in Cands : Commit(cancel_leave_candidates(Ledger, c)) /\ UNCHANGED round
GoOffline == \E c \in Cands : Commit(go_offline(Ledger, c)) /\ UNCHANGED round
GoOnline == \E c \in Cands : Commit(go_online(Ledger, c)) /\ UNCHANGED round
CandidateBondMore ==
  \E c \in DOMAIN candidateInfo, m \in MoreAmounts :
    /\ candidateInfo[c].bond + m <= MaxStake
    /\ Commit(candidate_bond_more(Ledger, c, m)) /\ UNCHANGED round
ScheduleCandidateBondLess ==
  \E c \in Cands, l \in LessAmounts :
    Commit(schedule_candidate_bond_less(Ledger, c, l, round)) /\ UNCHANGED round
ExecuteCandidateBondLess ==
  \E c \in Cands : Commit(execute_candidate_bond_less(Ledger, c, round)) /\ UNCHANGED round
CancelCandidateBondLess == \E c \in Cands : Commit(cancel_candidate_bond_less(Ledger, c)) /\ UNCHANGED round
Delegate ==
  \E d \in Dels, c \in Cands, a \in DelegationAmounts, p \in Percents :
    Commit(delegate_with_auto_compound(Ledger, d, c, a, p)) /\ UNCHANGED round
DelegatorBondMore ==
  \E d \in Dels, c \in Cands, m \in MoreAmounts :
    /\ Bonded(Ledger, d, c) + m <= MaxStake
    /\ Commit(delegation_bond_more_without_event(Ledger, d, c, m)) /\ UNCHANGED round
ScheduleRevokeDelegation ==
  \E d \in Dels, c \in Cands : Commit(delegation_schedule_revoke(Ledger, d, c, round)) /\ UNCHANGED round
ScheduleDelegatorBondLess ==
  \E d \in Dels, c \in Cands, l \in LessAmounts :
    Commit(delegation_schedule_bond_decrease(Ledger, d, c, l, round)) /\ UNCHANGED round
ExecuteDelegationRequest ==
  \E d \in Dels, c \in Cands :
    Commit(delegation_execute_scheduled_request(Ledger, d, c, round)) /\ UNCHANGED round
CancelDelegationRequest ==
  \E d \in Dels, c \in Cands : Commit(delegation_cancel_request(Ledger, d, c)) /\ UNCHANGED round
SetAutoCompound ==
  \E d \in Dels, c \in Cands, p \in Percents :
    Commit(set_auto_compound(Ledger, d, c, p)) /\ UNCHANGED round

LedgerNext ==
  \/ JoinCandidates \/ ScheduleLeaveCandidates \/ ExecuteLeaveCandidates
  \/ CancelLeaveCandidates \/ GoOffline \/ GoOnline \/ CandidateBondMore
  \/ ScheduleCandidateBondLess \/ ExecuteCandidateBondLess \/ CancelCandidateBondLess
  \/ Delegate \/ DelegatorBondMore \/ ScheduleRevokeDelegation
  \/ ScheduleDelegatorBondLess \/ ExecuteDelegationRequest \/ CancelDelegationRequest
  \/ SetAutoCompound

(* The round clock of new_session (round.update), on its own here; the     *)
(* whole session step is SessionPayout's NewSession.                       *)
RoundTick ==
  /\ round < MaxRound
  /\ round' = round + 1
  /\ UNCHANGED ledgerVars

vars == <<ledgerVars, round>>

Init == LedgerInit /\ round = 1

Next == LedgerNext \/ RoundTick

Spec == Init /\ [][Next]_vars

(***************************************************************************)
(* Properties.                                                             *)
(***************************************************************************)

IsPartialFn(f, D, R) == DOMAIN f \subseteq D /\ \A x \in DOMAIN f : f[x] \in R
Statuses == {"Active", "Idle", "Leaving"}

TypeOK ==
  /\ IsPartialFn(candidateInfo, Cands, [bond : Nat, totalCounted : Nat, status : Statuses,
                                       exitRound : Nat, request : SUBSET [amount : Nat, when : Nat]])
  /\ \A c \in Cands : /\ IsPartialFn(topDelegations[c], Dels, Nat \ {0})
                      /\ IsPartialFn(bottomDelegations[c], Dels, Nat \ {0})
                      /\ IsPartialFn(autoCompound[c], Dels, Percents)
                      /\ scheduledRequests[c] \subseteq
                           [delegator : Dels, action : {"Revoke", "Decrease"},
                            amount : Nat, when : Nat]
  /\ DOMAIN delegatorState \subseteq Dels
  /\ \A d \in DOMAIN delegatorState :
        /\ IsPartialFn(delegatorState[d].delegations, Cands, Nat \ {0})
        /\ delegatorState[d].total \in Nat
  /\ candidatePool \subseteq [owner : Cands, amount : Nat]
  /\ total \in Nat /\ round \in 1..MaxRound
  /\ collatorLock \in [Cands -> Nat] /\ delegatorLock \in [Dels -> Nat]

(* Total, the pallet's count of locked capital, is both the sum of every   *)
(* candidate's self bond and top and bottom delegations, and the sum of    *)
(* the COLLATOR and DELEGATOR locks the pallet holds on the ledger, after  *)
(* joins, kicks, revokes, decreases, bond increases and candidate exits.   *)
Backing(c) ==
  candidateInfo[c].bond + SumFunction(topDelegations[c]) + SumFunction(bottomDelegations[c])

TotalIsLockedStake ==
  /\ total = SumFunction([c \in DOMAIN candidateInfo |-> Backing(c)])
  /\ total = SumFunction(collatorLock) + SumFunction(delegatorLock)

(* Every delegation is recorded twice, in the candidate's top or bottom    *)
(* bucket and in the delegator's portfolio, with the same amount; the      *)
(* delegator's total is the sum of its portfolio and is what its DELEGATOR *)
(* lock holds, and an account that is no delegator holds no such lock.     *)
(* Kicks, exits, revokes and promotions each rewrite both sides.           *)
DelegationsAgree ==
  /\ \A c \in Cands, d \in Dels :
       /\ ~(d \in DOMAIN topDelegations[c] /\ d \in DOMAIN bottomDelegations[c])
       /\ Bonded(Ledger, d, c) =
            IF d \in DOMAIN topDelegations[c] THEN topDelegations[c][d]
            ELSE IF d \in DOMAIN bottomDelegations[c] THEN bottomDelegations[c][d]
            ELSE 0
  /\ \A d \in Dels :
       delegatorLock[d] = IF IsDelegator(Ledger, d) THEN delegatorState[d].total ELSE 0
  /\ \A d \in DOMAIN delegatorState :
       /\ delegatorState[d].total = SumFunction(delegatorState[d].delegations)
       /\ DOMAIN delegatorState[d].delegations \subseteq DOMAIN candidateInfo

(* A candidate's counted stake is its self bond plus its top bucket, its   *)
(* COLLATOR lock is its self bond, and the candidate pool holds exactly    *)
(* the Active candidates at their counted stake (what selection reads).    *)
CountedStakeInPool ==
  /\ \A c \in DOMAIN candidateInfo :
       /\ candidateInfo[c].totalCounted =
            candidateInfo[c].bond + SumFunction(topDelegations[c])
       /\ collatorLock[c] = candidateInfo[c].bond
  /\ candidatePool = {[owner |-> c, amount |-> candidateInfo[c].totalCounted] :
                        c \in {x \in DOMAIN candidateInfo :
                                 candidateInfo[x].status = "Active"}}

(* The bottom bucket only fills once the top bucket is full, neither bucket *)
(* exceeds its capacity, and no bottom delegation outweighs a top one.     *)
BucketsOrdered ==
  \A c \in DOMAIN candidateInfo :
    LET top == topDelegations[c]
        bot == bottomDelegations[c]
    IN /\ Cardinality(DOMAIN top) <= MaxTop
       /\ Cardinality(DOMAIN bot) <= MaxBottom
       /\ DOMAIN bot # {} =>
            /\ Full(top, MaxTop)
            /\ \A t \in DOMAIN top, b \in DOMAIN bot : top[t] >= bot[b]

(* Each pending request belongs to a live delegation, at most one per      *)
(* delegator and candidate; a revoke still names the whole delegation (it  *)
(* is what execution removes from Total) and a decrease leaves some of it. *)
(* Auto-compound entries exist only for live delegations.                  *)
RequestsMatchDelegations ==
  \A c \in Cands :
    /\ \A r \in scheduledRequests[c] :
         /\ RequestOf(Ledger, c, r.delegator) = {r}
         /\ r.action = "Revoke" => r.amount = Bonded(Ledger, r.delegator, c)
         /\ r.action = "Decrease" => r.amount < Bonded(Ledger, r.delegator, c)
    /\ \A d \in DOMAIN autoCompound[c] : Bonded(Ledger, d, c) > 0

(* The ledger implements StakingAbstract: the candidates' bonds, the       *)
(* delegations of both buckets and Total only ever move as one bond        *)
(* change, one delegation change (a kick only ever pushing out a strictly  *)
(* smaller delegation to the same candidate) or one candidate leaving with *)
(* all of its backing, and Total moves by exactly what moved.              *)
Abs == INSTANCE StakingAbstract WITH
         bond <- [c \in DOMAIN candidateInfo |-> candidateInfo[c].bond],
         backing <- [c \in Cands |-> topDelegations[c] @@ bottomDelegations[c]],
         total <- total

ImplementsAbstract == Abs!Spec
====
