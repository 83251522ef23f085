---------------------------- MODULE PoolSelection ----------------------------
(***************************************************************************)
(* The CandidatePool as the OrderedSet<Bond> the extrinsics edit (insert   *)
(* of a new owner, update_active's remove-and-insert, remove by owner) and *)
(* TotalSelected, with compute_top_candidates of TopCandidates read in     *)
(* every state.  Every pool over the accounts and amounts is reachable, so *)
(* the properties check the selection over all of them.                    *)
(***************************************************************************)
EXTENDS TopCandidates

CONSTANTS
  AccountOrder,   \* the candidate accounts in AccountId order
  Amounts,        \* counted stakes a pool entry may have
  MinCollatorStk, \* Config::MinCollatorStk
  MinSelected,    \* Config::MinSelectedCandidates
  MaxSelected     \* the largest TotalSelected offered

Accounts == {AccountOrder[i] : i \in 1..Len(AccountOrder)}

VARIABLES pool, totalSelected

vars == <<pool, totalSelected>>

Owners == {b.owner : b \in pool}

Init == pool = {} /\ totalSelected = MinSelected

(* candidates.insert(Bond { owner, amount }): refused when the owner is    *)
(* already in the set (CandidateExists / AlreadyActive).                   *)
PoolInsert(acc, amt) ==
  /\ acc \notin Owners
  /\ pool' = pool \cup {[owner |-> acc, amount |-> amt]}
  /\ UNCHANGED totalSelected

(* Mutant: update_active inserts the new total without removing the old   *)
(* entry.                                                                  *)
update_active_no_remove(acc, amt) ==
  /\ acc \in Owners
  /\ pool' = pool \cup {[owner |-> acc, amount |-> amt]}
  /\ UNCHANGED totalSelected

(* update_active: remove(&Bond::from_owner(candidate)), then insert the    *)
(* new total.                                                              *)
UpdateActive(acc, amt) ==
  /\ acc \in Owners
  /\ pool' = {b \in pool : b.owner # acc} \cup {[owner |-> acc, amount |-> amt]}
  /\ UNCHANGED totalSelected

(* candidates.remove(&Bond::from_owner(collator)) of go_offline and        *)
(* schedule_leave_candidates.                                              *)
PoolRemove(acc) ==
  /\ acc \in Owners
  /\ pool' = {b \in pool : b.owner # acc}
  /\ UNCHANGED totalSelected

SetTotalSelected(n) ==
  /\ n >= MinSelected /\ n # totalSelected
  /\ totalSelected' = n
  /\ UNCHANGED pool

Next ==
  \/ \E a \in Accounts, amt \in Amounts : PoolInsert(a, amt) \/ UpdateActive(a, amt)
  \/ \E a \in Accounts : PoolRemove(a)
  \/ \E n \in MinSelected..MaxSelected : SetTotalSelected(n)

Spec == Init /\ [][Next]_vars

(***************************************************************************)
(* Properties.                                                             *)
(***************************************************************************)

Selected == ComputeTop(AccountOrder, pool, totalSelected, MinCollatorStk)
Qualified == {b \in pool : b.amount >= MinCollatorStk}
BondOf(a) == CHOOSE b \in pool : b.owner = a

(* What selection promises and SelectedCandidates relies on: as many       *)
(* collators as TotalSelected allows from the qualified candidates, none   *)
(* of them backed by less than a qualified candidate left out, listed      *)
(* once each in AccountId order (is_selected_candidate binary-searches     *)
(* the Vec).                                                               *)
TopIsLargest ==
  LET sel == {Selected[i] : i \in 1..Len(Selected)} IN
  /\ Len(Selected) = IF totalSelected < Cardinality(Qualified)
                     THEN totalSelected ELSE Cardinality(Qualified)
  /\ \A a \in sel, b \in Qualified : b.owner \notin sel => BondOf(a).amount >= b.amount
  /\ \A i \in 1..Len(Selected) - 1 :
       Position(AccountOrder, Selected[i]) < Position(AccountOrder, Selected[i + 1])

(* Spec section 4.6: candidates are ranked by amount, ties going to the    *)
(* smaller AccountId, and the first TotalSelected qualified ones are       *)
(* selected.                                                               *)
TieBreakMatchesSpec ==
  Selected = SpecTop(AccountOrder, pool, totalSelected, MinCollatorStk)
====
