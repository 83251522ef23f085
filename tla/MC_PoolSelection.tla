---------------------------- MODULE MC_PoolSelection ----------------------------
(* Instantiation of PoolSelection for TLC: three accounts, stakes 1..3     *)
(* around a minimum of 2, TotalSelected from 1 to 3.                       *)
EXTENDS PoolSelection

CONSTANTS a1, a2, a3

ThreeAccounts == <<a1, a2, a3>>

====
