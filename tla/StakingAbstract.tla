--------------------------- MODULE StakingAbstract ---------------------------
(***************************************************************************)
(* What the staking ledger promises, without buckets, pools, requests or   *)
(* locks: which candidates exist with which self bond, who backs whom with *)
(* how much, and Total, the sum of all of it.  A step changes one          *)
(* candidate's bond, or one delegation (where a new delegation may push    *)
(* out one strictly smaller delegation to the same candidate), or removes  *)
(* a candidate together with all of its backing.  StakingLedger and        *)
(* SessionPayout implement it under the mapping in StakingLedger.          *)
(***************************************************************************)
EXTENDS Naturals, FiniteSets, FiniteSetsExt, Functions, TLC

CONSTANTS Cands, Dels

VARIABLES
  bond,     \* candidate -> self bond (domain: the candidates)
  backing,  \* candidate -> (delegator -> delegated amount)
  total     \* the sum of all bonds and delegations

absVars == <<bond, backing, total>>

Staked(b, k) ==
  SumFunction(b) + SumFunction([c \in DOMAIN k |-> SumFunction(k[c])])

Init ==
  /\ DOMAIN bond \subseteq Cands
  /\ DOMAIN backing = Cands
  /\ \A c \in Cands : DOMAIN backing[c] \subseteq Dels
  /\ total = Staked(bond, backing)

(* A candidate joins, or its self bond grows or shrinks.                   *)
SetBond(c, amt) ==
  /\ amt > 0
  /\ c \notin DOMAIN bond => backing[c] = <<>>
  /\ bond' = (c :> amt) @@ bond
  /\ total' = total + amt - (IF c \in DOMAIN bond THEN bond[c] ELSE 0)
  /\ UNCHANGED backing

(* A candidate leaves: its bond and every delegation to it are released.   *)
Leave(c) ==
  /\ c \in DOMAIN bond
  /\ bond' = Restrict(bond, DOMAIN bond \ {c})
  /\ backing' = [backing EXCEPT ![c] = <<>>]
  /\ total' = total - bond[c] - SumFunction(backing[c])

(* A new delegation; a full candidate may push out one delegation worth    *)
(* strictly less than the newcomer's amount.                               *)
Delegate(d, c, amt) ==
  /\ c \in DOMAIN bond /\ d \notin DOMAIN backing[c] /\ amt > 0
  /\ \/ /\ backing' = [backing EXCEPT ![c] = (d :> amt) @@ @]
        /\ total' = total + amt
     \/ \E k \in DOMAIN backing[c] :
          /\ backing[c][k] < amt
          /\ backing' = [backing EXCEPT ![c] = (d :> amt) @@ Restrict(@, DOMAIN @ \ {k})]
          /\ total' = total + amt - backing[c][k]
  /\ UNCHANGED bond

(* An existing delegation changes amount, or is withdrawn (amt = 0).       *)
SetDelegation(d, c, amt) ==
  /\ d \in DOMAIN backing[c]
  /\ backing' = [backing EXCEPT ![c] = IF amt = 0 THEN Restrict(@, DOMAIN @ \ {d})
                                       ELSE (d :> amt) @@ @]
  /\ total' = total + amt - backing[c][d]
  /\ UNCHANGED bond

(* The inputs of a step are read off the state it leads to.                *)
Next ==
  \E c \in Cands :
    \/ Leave(c)
    \/ c \in DOMAIN bond' /\ SetBond(c, bond'[c])
    \/ \E d \in Dels :
         \/ d \in DOMAIN backing'[c] /\ Delegate(d, c, backing'[c][d])
         \/ SetDelegation(d, c, IF d \in DOMAIN backing'[c] THEN backing'[c][d] ELSE 0)

Spec == Init /\ [][Next]_absVars
====
