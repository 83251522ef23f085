---------------------------- MODULE TopCandidates ----------------------------
(***************************************************************************)
(* compute_top_candidates as the code computes it, step by step, over the  *)
(* CandidatePool Vec: a stable sort by amount, reversed, cut to            *)
(* TotalSelected, filtered by MinCollatorStk and sorted by account.  The   *)
(* pool is an OrderedSet<Bond>, kept sorted by Bond's order, which         *)
(* compares owners only (the pallet removes a Bond by                      *)
(* Bond::from_owner(acc), whatever its amount).  An account order is a     *)
(* sequence listing the accounts in AccountId order.                       *)
(***************************************************************************)
EXTENDS Naturals, Sequences, FiniteSets

(* CandidatePool.0: the bonds of the pool, in owner order.                 *)
PoolVec(order, pool) ==
  LET owners == SelectSeq(order, LAMBDA a : \E b \in pool : b.owner = a)
  IN [i \in 1..Len(owners) |-> CHOOSE b \in pool : b.owner = owners[i]]

(* Insertion of x behind every entry whose amount is not greater: the      *)
(* stable sort_by(|a, b| a.amount.cmp(&b.amount)) keeps equal amounts in   *)
(* their pool order.                                                       *)
RECURSIVE InsertByAmount(_, _)
InsertByAmount(x, s) ==
  IF s = <<>> \/ x.amount < Head(s).amount THEN <<x>> \o s
  ELSE <<Head(s)>> \o InsertByAmount(x, Tail(s))

SortByAmount(s) ==
  LET RECURSIVE Sort(_, _)
      Sort(rest, acc) ==
        IF rest = <<>> THEN acc ELSE Sort(Tail(rest), InsertByAmount(Head(rest), acc))
  IN Sort(s, <<>>)

Rev(s) == [i \in 1..Len(s) |-> s[Len(s) - i + 1]]

(* .into_iter().rev().take(top_n)                                          *)
TakeTop(s, n) == SubSeq(Rev(s), 1, IF n < Len(s) THEN n ELSE Len(s))

(* .filter(|x| x.amount >= MinCollatorStk).map(|x| x.owner), then          *)
(* collators.sort(): the owners in account order.                          *)
SortedOwners(order, S) == SelectSeq(order, LAMBDA a : a \in S)

(* Mutant: the ascending sort is cut without .rev(), keeping the smallest. *)
ComputeTopNoRev(order, pool, n, minStk) ==
  LET s == SortByAmount(PoolVec(order, pool))
      taken == SubSeq(s, 1, IF n < Len(s) THEN n ELSE Len(s))
  IN SortedOwners(order, {taken[i].owner : i \in {j \in 1..Len(taken) : taken[j].amount >= minStk}})

ComputeTop(order, pool, n, minStk) ==
  LET taken == TakeTop(SortByAmount(PoolVec(order, pool)), n)
  IN SortedOwners(order, {taken[i].owner : i \in {j \in 1..Len(taken) : taken[j].amount >= minStk}})

(***************************************************************************)
(* The reference of spec section 4.6: sort by (amount desc, owner asc) and *)
(* take the first TotalSelected entries at or above MinCollatorStk.        *)
(***************************************************************************)
Position(order, a) == CHOOSE i \in 1..Len(order) : order[i] = a

SpecBetter(order, x, y) ==
  \/ x.amount > y.amount
  \/ x.amount = y.amount /\ Position(order, x.owner) < Position(order, y.owner)

SpecTop(order, pool, n, minStk) ==
  LET q == {b \in pool : b.amount >= minStk}
  IN SortedOwners(order,
       {b.owner : b \in {x \in q : Cardinality({y \in q : SpecBetter(order, y, x)}) < n}})
====
