---------------------------- MODULE MC_Governance ----------------------------
(* Instantiation of Governance for TLC: two genesis candidates, a bond     *)
(* account besides the genesis zero account, and one or two values for     *)
(* each setter besides the genesis ones.                                   *)
EXTENDS Governance

CONSTANTS c1, c2, d1, ZeroAccount, BondAcct

TwoCands == {c1, c2}
CandOrder == <<c1, c2>>
OneOrder == <<c1>>
OneCand == {c1}
NoDels == {}
WithBondAcct == {BondAcct}

GovGenesis ==
  [commission |-> 20, bondPercent |-> 30, bondAccount |-> ZeroAccount,
   expect |-> [min |-> 3, ideal |-> 4, max |-> 5],
   annual |-> [min |-> 48, ideal |-> 72, max |-> 96], blocksPerRound |-> 2]
TotalSelectedValues == {1, 2, 3}
CommissionValues == {0}
ReserveValues == {0}
BondAccountValues == {BondAcct}
ExpectValues == {[min |-> 1, ideal |-> 2, max |-> 3]}
AnnualValues ==
  {[min |-> 16, ideal |-> 32, max |-> 48], [min |-> 48, ideal |-> 32, max |-> 16]}
LongerRound == {4}
ShorterOrLonger == {2, 4}
InvulnerableValues == {<<c1>>, <<c1, c1>>, <<BondAcct>>}
====
