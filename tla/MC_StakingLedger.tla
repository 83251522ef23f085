-------------------------- MODULE MC_StakingLedger --------------------------
(* Two candidates (one joined at genesis) and three delegators, so that a  *)
(* candidate with one top and one bottom slot can be over-subscribed and   *)
(* kick; amounts 1..3 so that bonds tie, overtake and fall below another.  *)
EXTENDS StakingLedger

CONSTANTS c1, c2, d1, d2, d3

\* buckets: one genesis candidate over-subscribed by three delegators
BucketCands == {c1}
BucketDels == {d1, d2, d3}
\* exits: two candidates sharing two delegators, the second joining later
ExitCands == {c1, c2}
ExitDels == {d1, d2}
Genesis == {c1}
=============================================================================
