--------------------------- MODULE MC_AuthorFilter ---------------------------
(* Instantiation of AuthorFilter for TLC: two genesis candidates with      *)
(* session keys, ordered c1 < c2, and four relay slots (two aura turns).   *)
EXTENDS AuthorFilter

CONSTANTS c1, c2, d1, ZeroAccount, BondAcct

TwoCands == {c1, c2}
NoDels == {}
WithZeroAccount == {ZeroAccount}
CandOrder == <<c1, c2>>
FourSlots == 0..3

AuthorGenesis ==
  [commission |-> 20, bondPercent |-> 30, bondAccount |-> ZeroAccount,
   expect |-> [min |-> 3, ideal |-> 4, max |-> 5],
   annual |-> [min |-> 48, ideal |-> 72, max |-> 96], blocksPerRound |-> 2]
====
