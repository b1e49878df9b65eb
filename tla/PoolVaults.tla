----------------------------- MODULE PoolVaults -----------------------------
(***************************************************************************)
(* The Core Pool implements the asset vaults: an asset's cash is the       *)
(* pool's token balance, and its claims and loans are the totals of the    *)
(* markets listed on it.                                                   *)
(***************************************************************************)
EXTENDS CorePool

CONSTANT Flows  \* the amounts an abstract step may move

\* A call moves its amount, or less when the position is smaller.
ASSUME FlowsCoverAmounts ==
  /\ Flows \subseteq Nat /\ 0 \in Flows
  /\ \A x \in Amounts : 0 .. x \subseteq Flows

Vaults == INSTANCE AssetVaults WITH
  cash   <- [a \in Assets |-> wallet[a][Pool]],
  claims <- [a \in Assets |-> Total(totalSupplied, MarketsOf(a))],
  loans  <- [a \in Assets |-> Total(totalBorrowed, MarketsOf(a))]

\* Every step of the pool moves the tokens, claims and debts of an asset as a
\* deposit, redemption, loan, collection, forfeit or settlement, or not at all.
ImplementsVaults == Vaults!VaultSpec
=============================================================================
