----------------------------- MODULE MCCorePool -----------------------------
(***************************************************************************)
(* Instances of the Core Pool for TLC: a shared core market and a second   *)
(* market, two users.                                                      *)
(***************************************************************************)
EXTENDS PoolVaults, TLC

CONSTANTS u1, u2, xlm, usdc, core, other

Term(asset, poolType, cf, lt, category, ceiling) ==
  [asset |-> asset, poolType |-> poolType, collateralFactor |-> cf,
   liquidationThreshold |-> lt, emodeCategory |-> category,
   debtCeiling |-> ceiling]

\* Books: the second market is a satellite on the core market's own asset.
BooksListings ==
  [m \in Markets |->
     IF m = core THEN {Term(xlm, 0, 5000, 6000, 0, 2)}
     ELSE {Term(xlm, 1, 5000, 6000, 0, 1), Term(usdc, 1, 5000, 6000, 0, 1)}]
BooksPrices == [m \in Markets |-> {2}]

\* Risk: two assets; the markets share an E-Mode category or not, and no
\* threshold is under the boosted factor.
RiskListings ==
  [m \in Markets |->
     IF m = core THEN {Term(xlm, 0, 8500, 9000, 1, 1)}
     ELSE {Term(usdc, 2, 8500, 9000, 1, 1), Term(usdc, 1, 5000, 6000, 0, 1)}]
RiskPrices == [m \in Markets |-> IF m = core THEN {5} ELSE {0, 5, 9}]

\* The thresholds the deployment script lists xlm_shared on.
EModeListings ==
  [m \in Markets |-> {Term(IF m = core THEN xlm ELSE usdc, 0, 7500, 8000, 1, 9)}]

Endow(x1, x2, c1, c2) ==
  [a \in Assets |-> [u \in Users |->
     IF a = xlm THEN (IF u = u1 THEN x1 ELSE x2) ELSE (IF u = u1 THEN c1 ELSE c2)]]
BooksEndowment == Endow(2, 1, 0, 1)
RiskEndowment  == Endow(2, 0, 0, 1)

Permissioned(m) == m \in Listed /\ terms[m].poolType = PermissionedPool

\* Bounds of the exploration.  The oracle and the engine are bound before the
\* first listing, and at most one thing is out of order at a time: a paused
\* market, a failing oracle, a gate that is not bound or that keeps users out
\* (where the pool asks it).
Disorder ==
  {<<"paused", m>> : m \in {n \in Listed : ~active[n]}}
    \cup {<<"no price", m>> : m \in {n \in Listed : price[n] = 0}}
    \cup {<<"gate", m>> : m \in {n \in Listed : Permissioned(n)
             /\ (authorized[n] # Users \/ dependency["compliance"] = NoAddress)}}

WiredFirst ==
  Listed # {} => /\ dependency["oracle"] # NoAddress
                 /\ dependency["liquidation_engine"] # NoAddress
GateMatters ==
  \A m \in Markets : authorized[m] # Users => Permissioned(m)
OneDisorder == Cardinality(Disorder) <= 1

MCConstraint == WiredFirst /\ GateMatters /\ OneDisorder
=============================================================================
