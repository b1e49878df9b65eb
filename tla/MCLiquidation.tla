---------------------------- MODULE MCLiquidation ----------------------------
(***************************************************************************)
(* An instance of the engine beside the pool for TLC: one borrower-to-be,  *)
(* one supplier who also liquidates, a collateral and a debt market.       *)
(***************************************************************************)
EXTENDS LiquidationEngine, TLC

CONSTANTS u1, u2, xlm, usdc, core, other

Term(asset, ceiling) ==
  [asset |-> asset, poolType |-> 0, collateralFactor |-> 5000,
   liquidationThreshold |-> 6000, emodeCategory |-> 0, debtCeiling |-> ceiling]

MCListings == [m \in Markets |-> {IF m = core THEN Term(xlm, 0) ELSE Term(usdc, 20)}]
MCPrices == [m \in Markets |-> IF m = core THEN {1} ELSE {1, 2}]
MCEndowment ==
  [a \in Assets |-> [u \in Users |->
     IF <<a, u>> \in {<<xlm, u1>>, <<usdc, u2>>} THEN 20 ELSE 0]]
MCAmounts == 1..40

\* Bounds of the exploration: both markets are listed and everything is wired
\* before anyone acts, the markets stay active and the gate is never asked.
Wired ==
  /\ corePool
  /\ Listed = Markets
  /\ \A d \in Dependencies : dependency[d] # NoAddress
Untouched == \A a \in Assets : wallet[a][Pool] = 0
WiredFirst == ~Untouched => Wired
SetUpInOrder ==
  /\ dependency["compliance"] # NoAddress => dependency["oracle"] # NoAddress
  /\ dependency["liquidation_engine"] # NoAddress => dependency["compliance"] # NoAddress
  /\ Listed # {} => dependency["liquidation_engine"] # NoAddress
  /\ other \in Listed => core \in Listed
  /\ corePool => Listed = Markets
ClockWhenAuctioned == sequence > 0 => auctions # <<>>
Quiet ==
  /\ \A m \in Listed : active[m]
  /\ \A m \in Markets : authorized[m] = Users

OneBorrower == \A m \in Markets : borrowed[m][u2] = 0

MCConstraint == WiredFirst /\ SetUpInOrder /\ ClockWhenAuctioned /\ Quiet
                  /\ OneBorrower
=============================================================================
