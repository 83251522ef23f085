-------------------------- MODULE MC_SessionPayout --------------------------
(* Instantiation of SessionPayout for TLC: two genesis candidates and up   *)
(* to three delegators, as model values.                                   *)
EXTENDS SessionPayout

CONSTANTS c1, c2, d1, d2, d3, ZeroAccount, BondAcct

TwoCands == {c1, c2}
CandOrder == <<c1, c2>>
OneOrder == <<c1>>
OneDel == {d1}
TwoDels == {d1, d2}
ThreeDels == {d1, d2, d3}
OneCand == {c1}
NoDels == {}
WithZeroAccount == {ZeroAccount}

(* Chain-spec staking configs: the bond account is the zero account as     *)
(* genesis leaves it; annual rates give per-round rates of 6/9/12 parts    *)
(* (2 everywhere for the rounding case) at 8 rounds a year.                *)
PayoutGenesis ==
  [commission |-> 20, bondPercent |-> 30, bondAccount |-> ZeroAccount,
   expect |-> [min |-> 3, max |-> 5], annual |-> [min |-> 48, ideal |-> 72, max |-> 96],
   blocksPerRound |-> 2]
RoundingGenesis ==
  [commission |-> 0, bondPercent |-> 0, bondAccount |-> ZeroAccount,
   expect |-> [min |-> 3, max |-> 5], annual |-> [min |-> 16, ideal |-> 16, max |-> 16],
   blocksPerRound |-> 2]
====
