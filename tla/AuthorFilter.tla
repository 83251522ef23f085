---------------------------- MODULE AuthorFilter ----------------------------
(***************************************************************************)
(* The Rococo runtime's NimbusApi::can_author, which a collator asks       *)
(* whether it may author the next block, composed with the session model.  *)
(* When the next block starts a session, the staking pallet will select    *)
(* new collators in that block's on_initialize, so the API predicts them   *)
(* with compute_top_candidates and applies the aura-style rule itself;     *)
(* otherwise it asks the author inherent's filter, AuraAuthorFilter over   *)
(* PotentialAuthors = SelectedCandidates.                                  *)
(***************************************************************************)
EXTENDS SessionPayout, Sequences

CONSTANTS
  Slots,         \* relay-parent numbers a collator may ask about
  KeyOwners      \* accounts that registered a NimbusId with session.set_keys

ASSUME Slots \subseteq Nat

(* A set of accounts as the sorted Vec the pallet stores (collators.sort()). *)
Sorted(S) == SortedOwners(AccountOrder, S)

(* PotentialAuthors (Get<Vec<AccountId>> for the pallet): SelectedCandidates. *)
PotentialAuthors == Sorted(selected)

(* The chain spec's SessionConfig: the session keys of every invulnerable, *)
(* the accounts the genesis candidates are built from.                     *)
GenesisKeyOwners == GenesisCandidates

(* lookup_account: the account owning the NimbusId's session key, if any.  *)
lookup_account(author) ==
  IF author \in GenesisKeyOwners \cup KeyOwners THEN {author} ELSE {}

(* DKGPeriodicSessions<Period, 0>::should_end_session for the next block:  *)
(* the block after the last one of a session.                              *)
ShouldEndSession == blockInRound = Period

(* The aura-style rule: the author for a slot is active[(slot >> 1) %      *)
(* active.len()]; with no active account the modulo divides by zero.       *)
AuraEligible(active, account, slot) ==
  IF Len(active) = 0 THEN [panics |-> TRUE, ok |-> FALSE]
  ELSE [panics |-> FALSE, ok |-> account = active[((slot \div 2) % Len(active)) + 1]]

(* Mutant: no prediction; the current SelectedCandidates are used even     *)
(* when the next block selects new ones.                                   *)
can_author_current_set(L, author, slot) ==
  IF lookup_account(author) = {} THEN [panics |-> FALSE, ok |-> FALSE]
  ELSE AuraEligible(PotentialAuthors, author, slot)

(* NimbusApi::can_author(author, relay_parent): at a session boundary, the *)
(* account of the NimbusId (not eligible without one) against the          *)
(* predicted top candidates; otherwise the author inherent's can_author.   *)
can_author(L, author, slot) ==
  IF lookup_account(author) = {} THEN [panics |-> FALSE, ok |-> FALSE]
  ELSE IF ShouldEndSession
       THEN AuraEligible(Sorted(compute_top_candidates(L.candidatePool)), author, slot)
       ELSE AuraEligible(PotentialAuthors, author, slot)

(* The check the chain applies to the author of a block: the author        *)
(* inherent's lookup and AuraAuthorFilter over the SelectedCandidates in   *)
(* force once the block's on_initialize has run.                           *)
ChainAccepts(sel, author, slot) ==
  /\ lookup_account(author) # {}
  /\ Len(Sorted(sel)) > 0
  /\ author = Sorted(sel)[((slot \div 2) % Len(Sorted(sel))) + 1]

(***************************************************************************)
(* Properties.                                                             *)
(***************************************************************************)

(* At a session boundary the API's answer, whenever it gives one, is the   *)
(* check the next block will pass: the collators compute_top_candidates    *)
(* predicts are the SelectedCandidates new_session installs, in the same   *)
(* order, for every author and slot, whatever extrinsics ran before.       *)
PredictionMatchesSelection ==
  [][NewSession =>
       \A a \in Cands, s \in Slots :
         LET ans == can_author(Ledger, a, s) IN
         ~ans.panics => (ans.ok <=> ChainAccepts(selected', a, s))]_allVars

(* The API never traps: a collator asking at any block gets an answer      *)
(* (the selection pallet falls back to the previous set when nobody        *)
(* qualifies, and the API is meant to mirror it).                          *)
CanAuthorNeverPanics ==
  \A a \in Cands, s \in Slots : ~can_author(Ledger, a, s).panics
====
