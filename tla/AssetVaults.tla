---------------------------- MODULE AssetVaults ----------------------------
(***************************************************************************)
(* What the Core Pool promises about each asset, with markets and users    *)
(* forgotten: the tokens it holds (cash), what suppliers may claim, and    *)
(* what borrowers owe.  Tokens come in only against a new claim or a       *)
(* smaller debt and go out only against a smaller claim or a new debt; a   *)
(* forfeited claim leaves its tokens behind.                               *)
(***************************************************************************)
EXTENDS Integers

CONSTANTS
  Assets,
  Flows    \* the amounts a step may move

VARIABLES cash, claims, loans

vaultVars == <<cash, claims, loans>>

VaultTypeOK ==
  /\ cash \in [Assets -> Nat]
  /\ claims \in [Assets -> Nat]
  /\ loans \in [Assets -> Nat]

VaultInit ==
  /\ cash = [a \in Assets |-> 0]
  /\ claims = [a \in Assets |-> 0]
  /\ loans = [a \in Assets |-> 0]

Deposit(a, x) ==
  /\ cash' = [cash EXCEPT ![a] = @ + x]
  /\ claims' = [claims EXCEPT ![a] = @ + x]
  /\ UNCHANGED loans

Redeem(a, x) ==
  /\ x <= cash[a] /\ x <= claims[a]
  /\ cash' = [cash EXCEPT ![a] = @ - x]
  /\ claims' = [claims EXCEPT ![a] = @ - x]
  /\ UNCHANGED loans

Lend(a, x) ==
  /\ x <= cash[a]
  /\ cash' = [cash EXCEPT ![a] = @ - x]
  /\ loans' = [loans EXCEPT ![a] = @ + x]
  /\ UNCHANGED claims

Collect(a, x) ==
  /\ x <= loans[a]
  /\ cash' = [cash EXCEPT ![a] = @ + x]
  /\ loans' = [loans EXCEPT ![a] = @ - x]
  /\ UNCHANGED claims

\* A claim is given up; its tokens stay.
Forfeit(a, x) ==
  /\ x <= claims[a]
  /\ claims' = [claims EXCEPT ![a] = @ - x]
  /\ UNCHANGED <<cash, loans>>

\* A liquidation: x of asset d's loans is paid in, y of asset c's claims is
\* paid out; d and c may be the same asset.
Settle(d, x, c, y) ==
  /\ x <= loans[d] /\ y <= claims[c]
  /\ y <= cash[c] + IF c = d THEN x ELSE 0
  /\ loans' = [loans EXCEPT ![d] = @ - x]
  /\ claims' = [claims EXCEPT ![c] = @ - y]
  /\ cash' = [a \in Assets |->
       cash[a] + (IF a = d THEN x ELSE 0) - (IF a = c THEN y ELSE 0)]

VaultNext ==
  \/ \E a \in Assets, x \in Flows :
       Deposit(a, x) \/ Redeem(a, x) \/ Lend(a, x) \/ Collect(a, x) \/ Forfeit(a, x)
  \/ \E d, c \in Assets, x, y \in Flows : Settle(d, x, c, y)

VaultSpec == VaultInit /\ [][VaultNext]_vaultVars

-----------------------------------------------------------------------------
\* Every claim is covered by tokens held and debts owed.
Covered == \A a \in Assets : claims[a] <= cash[a] + loans[a]
=============================================================================
