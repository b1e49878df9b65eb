------------------------------ MODULE CorePool ------------------------------
(***************************************************************************)
(* The Core Pool contract: markets, positions, market totals, health       *)
(* factors and the tokens the pool holds.                                  *)
(*                                                                         *)
(* One action is one transaction.  The ledger runs transactions one at a   *)
(* time and rolls back every write of a call that fails, so a failed call  *)
(* is no step, and an action's guards are all the conditions under which   *)
(* the handler returns Ok (its own checks and those of the calls it makes: *)
(* the token transfer, the oracle, the compliance gate).                   *)
(*                                                                         *)
(* What the pool reads from other contracts is the environment: `price`    *)
(* (the oracle's answer per market, 0 when there is none) and `authorized` *)
(* (the users the compliance gate lets through) change by steps of their   *)
(* own, and `wallet` is the token contracts' ledger.                       *)
(***************************************************************************)
EXTENDS Tally

CONSTANTS
  Users,        \* accounts that supply, borrow, repay and liquidate
  Pool,         \* the pool contract's own address
  Admins,       \* addresses that may become the pool's admin
  Contracts,    \* addresses a dependency may be bound to
  NoAddress,    \* nothing bound
  Markets,      \* market identifiers
  Assets,       \* token contracts
  Listings,     \* per market, the terms the admin may list it on
  Endowment,    \* tokens of each asset each user starts with
  Amounts,      \* the amounts calls are made with
  Prices        \* per market, what the oracle may answer (0: no usable price)

\* The health factor's scale: basis points, 10_000 is 1.0.
BPS == 10000
\* The collateral factor of an account whose positions are all in one category.
EModeFactor == 9000
\* pool_type of a market that only the compliance gate's users may borrow from.
PermissionedPool == 2

Dependencies == {"oracle", "compliance", "liquidation_engine"}

MarketTerms ==
  [asset: Assets, poolType: 0..2, collateralFactor: Nat,
   liquidationThreshold: Nat, emodeCategory: Nat, debtCeiling: Nat]

ASSUME UsersAssumption == IsFiniteSet(Users) /\ Pool \notin Users
ASSUME MarketsAssumption ==
  /\ IsFiniteSet(Markets) /\ IsFiniteSet(Assets)
  /\ Listings \in [Markets -> SUBSET MarketTerms]
  /\ Prices \in [Markets -> SUBSET Nat]
ASSUME AddressAssumption == NoAddress \notin Admins \cup Contracts
ASSUME AmountsAssumption ==
  Amounts \subseteq Nat \ {0} /\ Endowment \in [Assets -> [Users -> Nat]]

VARIABLES
  admin,          \* DataKey::Admin
  dependency,     \* DataKey::Dependency(name)
  terms,          \* the immutable fields of MarketConfig, on MarketsList
  active,         \* MarketConfig.active
  totalSupplied,  \* MarketConfig.total_supplied
  totalBorrowed,  \* MarketConfig.total_borrowed
  supplied,       \* PositionState.supplied, per market and user
  borrowed,       \* PositionState.borrowed, per market and user
  wallet,         \* token balances, per asset and account
  price,          \* oracle.get_price per market, 0 when it fails
  authorized      \* users for whom compliance.check_authorized succeeds

adminVars == <<admin, dependency, terms, active>>
bookVars  == <<totalSupplied, totalBorrowed, supplied, borrowed>>
envVars   == <<price, authorized>>
vars      == <<adminVars, bookVars, wallet, envVars>>

Accounts == Users \cup {Pool}
Listed   == DOMAIN terms
MarketsOf(a) == {m \in Listed : terms[m].asset = a}

TypeOK ==
  /\ admin \in Admins \cup {NoAddress}
  /\ dependency \in [Dependencies -> Contracts \cup {NoAddress}]
  /\ Listed \subseteq Markets
  /\ terms \in [Listed -> MarketTerms]
  /\ active \in [Markets -> BOOLEAN]
  /\ totalSupplied \in [Markets -> Int]
  /\ totalBorrowed \in [Markets -> Int]
  /\ supplied \in [Markets -> [Users -> Nat]]
  /\ borrowed \in [Markets -> [Users -> Nat]]
  /\ wallet \in [Assets -> [Accounts -> Nat]]
  /\ price \in [Markets -> Nat]
  /\ authorized \in [Markets -> SUBSET Users]

Init ==
  /\ admin = NoAddress
  /\ dependency = [d \in Dependencies |-> NoAddress]
  /\ terms = [m \in {} |-> 0]
  /\ active = [m \in Markets |-> FALSE]
  /\ totalSupplied = [m \in Markets |-> 0]
  /\ totalBorrowed = [m \in Markets |-> 0]
  /\ supplied = [m \in Markets |-> [u \in Users |-> 0]]
  /\ borrowed = [m \in Markets |-> [u \in Users |-> 0]]
  /\ wallet = [a \in Assets |-> [x \in Accounts |->
                 IF x = Pool THEN 0 ELSE Endowment[a][x]]]
  /\ price \in {p \in [Markets -> UNION {Prices[m] : m \in Markets}] :
                 \A m \in Markets : p[m] \in Prices[m]}
  /\ authorized = [m \in Markets |-> Users]

-----------------------------------------------------------------------------
(***************************************************************************)
(* Health factors.  They are functions of a book (sup, bor), because       *)
(* withdraw and borrow evaluate them on the positions they are about to    *)
(* leave.                                                                  *)
(***************************************************************************)
OpenMarkets(sup, bor, u) == {m \in Listed : sup[m][u] # 0 \/ bor[m][u] # 0}

\* E-Mode: every open position of the account is in market m's category.
InEMode(sup, bor, u, m) ==
  /\ terms[m].emodeCategory # 0
  /\ \A n \in OpenMarkets(sup, bor, u) :
       terms[n].emodeCategory = terms[m].emodeCategory

\* The share of a collateral's value that counts: the threshold is never boosted.
Factor(sup, bor, u, m, useThreshold) ==
  IF useThreshold THEN terms[m].liquidationThreshold
  ELSE IF InEMode(sup, bor, u, m) THEN EModeFactor
  ELSE terms[m].collateralFactor

CollateralValue(sup, bor, u, useThreshold) ==
  Total([m \in Listed |->
           (sup[m][u] * price[m] * Factor(sup, bor, u, m, useThreshold)) \div BPS],
        Listed)

DebtValue(bor, u) == Total([m \in Listed |-> bor[m][u] * price[m]], Listed)

\* The computation ends with an answer: an oracle, and a price for each position.
HasHealthFactor(sup, bor, u) ==
  /\ dependency["oracle"] # NoAddress
  /\ \A m \in OpenMarkets(sup, bor, u) : price[m] > 0

\* The answer is 1.0 or more (an account without debt gets the largest i128).
Healthy(sup, bor, u, useThreshold) ==
  LET debt == DebtValue(bor, u)
  IN  debt > 0 =>
        (CollateralValue(sup, bor, u, useThreshold) * BPS) \div debt >= BPS

PassesHealthCheck(sup, bor, u) ==
  HasHealthFactor(sup, bor, u) /\ Healthy(sup, bor, u, FALSE)

-----------------------------------------------------------------------------
Plus(book, m, u, amount)  == [book EXCEPT ![m][u] = @ + amount]
Minus(book, m, u, amount) == [book EXCEPT ![m][u] = @ - amount]

\* The ledger after `amount` of asset a went from one account to another.
Moved(ledger, a, from, to, amount) ==
  [ledger EXCEPT ![a] = [x \in Accounts |->
     ledger[a][x] - (IF x = from THEN amount ELSE 0)
                  + (IF x = to THEN amount ELSE 0)]]

\* A token transfer in the transaction: it fails when the balance is short.
Transfer(a, from, to, amount) ==
  /\ wallet[a][from] >= amount
  /\ wallet' = Moved(wallet, a, from, to, amount)

-----------------------------------------------------------------------------
(***************************************************************************)
(* Administration.                                                         *)
(***************************************************************************)
\* Whoever calls first names the admin: initialize asks for no signature.
Initialize(x) ==
  /\ admin = NoAddress
  /\ admin' = x
  /\ UNCHANGED <<dependency, terms, active, bookVars, wallet, envVars>>

SetDependency(d, c) ==
  /\ admin # NoAddress
  /\ dependency' = [dependency EXCEPT ![d] = c]
  /\ UNCHANGED <<admin, terms, active, bookVars, wallet, envVars>>

CreateMarket(m, t) ==
  /\ admin # NoAddress
  /\ m \notin Listed
  /\ terms' = [n \in Listed \cup {m} |-> IF n = m THEN t ELSE terms[n]]
  /\ active' = [active EXCEPT ![m] = TRUE]
  /\ totalSupplied' = [totalSupplied EXCEPT ![m] = 0]
  /\ totalBorrowed' = [totalBorrowed EXCEPT ![m] = 0]
  /\ UNCHANGED <<admin, dependency, supplied, borrowed, wallet, envVars>>

PauseMarket(m) ==
  /\ admin # NoAddress
  /\ m \in Listed
  /\ active' = [active EXCEPT ![m] = FALSE]
  /\ UNCHANGED <<admin, dependency, terms, bookVars, wallet, envVars>>

ResumeMarket(m) ==
  /\ admin # NoAddress
  /\ m \in Listed
  /\ active' = [active EXCEPT ![m] = TRUE]
  /\ UNCHANGED <<admin, dependency, terms, bookVars, wallet, envVars>>

-----------------------------------------------------------------------------
(***************************************************************************)
(* The users' operations.                                                  *)
(***************************************************************************)
\* Wrong on purpose: supply without the check that the market is active.
SupplyWhenPaused(u, m, amount) ==
  /\ m \in Listed
  /\ Transfer(terms[m].asset, u, Pool, amount)
  /\ supplied' = Plus(supplied, m, u, amount)
  /\ totalSupplied' = [totalSupplied EXCEPT ![m] = @ + amount]
  /\ UNCHANGED <<totalBorrowed, borrowed, adminVars, envVars>>

\* No health check and no compliance check.
Supply(u, m, amount) ==
  /\ m \in Listed /\ active[m]
  /\ Transfer(terms[m].asset, u, Pool, amount)
  /\ supplied' = Plus(supplied, m, u, amount)
  /\ totalSupplied' = [totalSupplied EXCEPT ![m] = @ + amount]
  /\ UNCHANGED <<totalBorrowed, borrowed, adminVars, envVars>>

\* Wrong on purpose: withdraw without the check of the position.
WithdrawOverdrawn(u, m, amount) ==
  /\ m \in Listed /\ active[m]
  /\ supplied' = Minus(supplied, m, u, amount)
  /\ PassesHealthCheck(supplied', borrowed, u)
  /\ totalSupplied' = [totalSupplied EXCEPT ![m] = @ - amount]
  /\ Transfer(terms[m].asset, Pool, u, amount)
  /\ UNCHANGED <<totalBorrowed, borrowed, adminVars, envVars>>

\* Wrong on purpose: the health check before the position is lowered.
WithdrawCheckedEarly(u, m, amount) ==
  /\ m \in Listed /\ active[m]
  /\ supplied[m][u] >= amount
  /\ PassesHealthCheck(supplied, borrowed, u)
  /\ supplied' = Minus(supplied, m, u, amount)
  /\ totalSupplied' = [totalSupplied EXCEPT ![m] = @ - amount]
  /\ Transfer(terms[m].asset, Pool, u, amount)
  /\ UNCHANGED <<totalBorrowed, borrowed, adminVars, envVars>>

Withdraw(u, m, amount) ==
  /\ m \in Listed /\ active[m]
  /\ supplied[m][u] >= amount
  /\ supplied' = Minus(supplied, m, u, amount)
  /\ PassesHealthCheck(supplied', borrowed, u)
  /\ totalSupplied' = [totalSupplied EXCEPT ![m] = @ - amount]
  /\ Transfer(terms[m].asset, Pool, u, amount)
  /\ UNCHANGED <<totalBorrowed, borrowed, adminVars, envVars>>

\* Wrong on purpose: the ceiling compared before the new debt is added.
BorrowPastCeiling(u, m, amount) ==
  /\ m \in Listed /\ active[m]
  /\ totalBorrowed[m] < terms[m].debtCeiling
  /\ terms[m].poolType = PermissionedPool =>
       dependency["compliance"] # NoAddress /\ u \in authorized[m]
  /\ borrowed' = Plus(borrowed, m, u, amount)
  /\ PassesHealthCheck(supplied, borrowed', u)
  /\ totalBorrowed' = [totalBorrowed EXCEPT ![m] = @ + amount]
  /\ Transfer(terms[m].asset, Pool, u, amount)
  /\ UNCHANGED <<totalSupplied, supplied, adminVars, envVars>>

\* Wrong on purpose: the health check before the debt is written.
BorrowCheckedEarly(u, m, amount) ==
  /\ m \in Listed /\ active[m]
  /\ totalBorrowed[m] + amount <= terms[m].debtCeiling
  /\ terms[m].poolType = PermissionedPool =>
       dependency["compliance"] # NoAddress /\ u \in authorized[m]
  /\ PassesHealthCheck(supplied, borrowed, u)
  /\ borrowed' = Plus(borrowed, m, u, amount)
  /\ totalBorrowed' = [totalBorrowed EXCEPT ![m] = @ + amount]
  /\ Transfer(terms[m].asset, Pool, u, amount)
  /\ UNCHANGED <<totalSupplied, supplied, adminVars, envVars>>

Borrow(u, m, amount) ==
  /\ m \in Listed /\ active[m]
  /\ totalBorrowed[m] + amount <= terms[m].debtCeiling
  /\ terms[m].poolType = PermissionedPool =>
       dependency["compliance"] # NoAddress /\ u \in authorized[m]
  /\ borrowed' = Plus(borrowed, m, u, amount)
  /\ PassesHealthCheck(supplied, borrowed', u)
  /\ totalBorrowed' = [totalBorrowed EXCEPT ![m] = @ + amount]
  /\ Transfer(terms[m].asset, Pool, u, amount)
  /\ UNCHANGED <<totalSupplied, supplied, adminVars, envVars>>

\* Wrong on purpose: the whole amount is taken, whatever the debt.
RepayOverpaid(u, m, amount) ==
  /\ m \in Listed
  /\ LET paid == Least(amount, borrowed[m][u]) IN
       /\ Transfer(terms[m].asset, u, Pool, amount)
       /\ borrowed' = Minus(borrowed, m, u, paid)
       /\ totalBorrowed' = [totalBorrowed EXCEPT ![m] = @ - paid]
  /\ UNCHANGED <<totalSupplied, supplied, adminVars, envVars>>

\* Open in a paused market too; never takes more than the debt.
Repay(u, m, amount) ==
  /\ m \in Listed
  /\ LET paid == Least(amount, borrowed[m][u]) IN
       /\ Transfer(terms[m].asset, u, Pool, paid)
       /\ borrowed' = Minus(borrowed, m, u, paid)
       /\ totalBorrowed' = [totalBorrowed EXCEPT ![m] = @ - paid]
  /\ UNCHANGED <<totalSupplied, supplied, adminVars, envVars>>

-----------------------------------------------------------------------------
(***************************************************************************)
(* The operations of the contracts bound as dependencies.                  *)
(***************************************************************************)
\* The claim is struck from the book; the tokens stay in the pool.
ComplianceClawback(u, m, amount) ==
  /\ dependency["compliance"] # NoAddress
  /\ m \in Listed
  /\ LET clawed == Least(amount, supplied[m][u]) IN
       /\ supplied' = Minus(supplied, m, u, clawed)
       /\ totalSupplied' = [totalSupplied EXCEPT ![m] = @ - clawed]
  /\ UNCHANGED <<totalBorrowed, borrowed, wallet, adminVars, envVars>>

\* Wrong on purpose: the two markets' records are read before either is written,
\* so in a market that is both, the second write loses the first.
LiquidateFromStaleRecord(l, b, d, c, repay, reward) ==
  /\ dependency["liquidation_engine"] # NoAddress
  /\ {d, c} \subseteq Listed
  /\ LET paid   == Least(repay, borrowed[d][b])
         seized == Least(reward, supplied[c][b])
         afterRepay == Moved(wallet, terms[d].asset, l, Pool, paid)
     IN
       /\ borrowed' = Minus(borrowed, d, b, paid)
       /\ totalBorrowed' =
            IF d = c THEN totalBorrowed ELSE [totalBorrowed EXCEPT ![d] = @ - paid]
       /\ supplied' = Minus(supplied, c, b, seized)
       /\ totalSupplied' = [totalSupplied EXCEPT ![c] = @ - seized]
       /\ wallet[terms[d].asset][l] >= paid
       /\ afterRepay[terms[c].asset][Pool] >= seized
       /\ wallet' = Moved(afterRepay, terms[c].asset, Pool, l, seized)
  /\ UNCHANGED <<adminVars, envVars>>

\* Wrong on purpose: the reward asked for is paid, not what was seized.
LiquidateUncapped(l, b, d, c, repay, reward) ==
  /\ dependency["liquidation_engine"] # NoAddress
  /\ {d, c} \subseteq Listed
  /\ LET paid   == Least(repay, borrowed[d][b])
         seized == Least(reward, supplied[c][b])
         afterRepay == Moved(wallet, terms[d].asset, l, Pool, paid)
     IN
       /\ borrowed' = Minus(borrowed, d, b, paid)
       /\ totalBorrowed' = [totalBorrowed EXCEPT ![d] = @ - paid]
       /\ supplied' = Minus(supplied, c, b, seized)
       /\ totalSupplied' = [totalSupplied EXCEPT ![c] = @ - seized]
       /\ wallet[terms[d].asset][l] >= paid
       /\ afterRepay[terms[c].asset][Pool] >= reward
       /\ wallet' = Moved(afterRepay, terms[c].asset, Pool, l, reward)
  /\ UNCHANGED <<adminVars, envVars>>

\* The engine's settlement: l pays borrower b's debt in market d and takes b's
\* collateral in market c, each cut down to what the position holds.
LiquidatePosition(l, b, d, c, repay, reward) ==
  /\ dependency["liquidation_engine"] # NoAddress
  /\ {d, c} \subseteq Listed
  /\ LET paid   == Least(repay, borrowed[d][b])
         seized == Least(reward, supplied[c][b])
         afterRepay == Moved(wallet, terms[d].asset, l, Pool, paid)
     IN
       /\ borrowed' = Minus(borrowed, d, b, paid)
       /\ totalBorrowed' = [totalBorrowed EXCEPT ![d] = @ - paid]
       /\ supplied' = Minus(supplied, c, b, seized)
       /\ totalSupplied' = [totalSupplied EXCEPT ![c] = @ - seized]
       /\ wallet[terms[d].asset][l] >= paid
       /\ afterRepay[terms[c].asset][Pool] >= seized
       /\ wallet' = Moved(afterRepay, terms[c].asset, Pool, l, seized)
  /\ UNCHANGED <<adminVars, envVars>>

-----------------------------------------------------------------------------
(***************************************************************************)
(* The environment.                                                        *)
(***************************************************************************)
\* The oracle's answer for a market changes (0: it fails or trips).
OraclePriceMoves(m, p) ==
  /\ price' = [price EXCEPT ![m] = p]
  /\ UNCHANGED <<adminVars, bookVars, wallet, authorized>>

\* The compliance gate's answers for a market change.
ComplianceGateMoves(m, us) ==
  /\ authorized' = [authorized EXCEPT ![m] = us]
  /\ UNCHANGED <<adminVars, bookVars, wallet, price>>

-----------------------------------------------------------------------------
AdminStep ==
  \/ \E x \in Admins : Initialize(x)
  \/ \E d \in Dependencies, c \in Contracts : SetDependency(d, c)
  \/ \E m \in Markets : \E t \in Listings[m] : CreateMarket(m, t)
  \/ \E m \in Markets : PauseMarket(m) \/ ResumeMarket(m)

UserStep ==
  \E u \in Users, m \in Markets, amount \in Amounts :
    \/ Supply(u, m, amount)
    \/ Withdraw(u, m, amount)
    \/ Borrow(u, m, amount)
    \/ Repay(u, m, amount)

ContractStep ==
  \/ \E u \in Users, m \in Markets, amount \in Amounts :
       ComplianceClawback(u, m, amount)
  \/ \E l, b \in Users, d, c \in Markets,
        repay \in Amounts, reward \in Amounts \cup {0} :
       LiquidatePosition(l, b, d, c, repay, reward)

EnvironmentStep ==
  \/ \E m \in Markets : \E p \in Prices[m] : OraclePriceMoves(m, p)
  \/ \E m \in Markets : \E us \in SUBSET Users : ComplianceGateMoves(m, us)

Next == AdminStep \/ UserStep \/ ContractStep \/ EnvironmentStep

Spec == Init /\ [][Next]_vars

-----------------------------------------------------------------------------
(***************************************************************************)
(* Correctness.                                                            *)
(***************************************************************************)
\* Each market's totals are the sums of its users' positions: every handler
\* that writes a position writes the total by the same amount, and none of
\* them loses the other's write (position.rs keeps the two by hand).
Matches(totals, book) ==
  \A m \in Markets : totals[m] = Total(book[m], Users)
TotalsMatch ==
  Matches(totalSupplied, supplied) /\ Matches(totalBorrowed, borrowed)

\* The tokens the pool holds of an asset and the debts in it cover every
\* supplier's claim, whichever markets share the asset and whatever was paid
\* out, repaid, seized or clawed back in between.
ClaimsCovered ==
  \A a \in Assets :
    Total(totalSupplied, MarketsOf(a))
      <= wallet[a][Pool] + Total(totalBorrowed, MarketsOf(a))

\* The debts of a market's users never add up to more than its debt ceiling.
DebtCeilingHeld ==
  \A m \in Listed : Total(borrowed[m], Users) <= terms[m].debtCeiling

\* The inductive form of the three: a market that is not listed has no
\* positions, which is why listing it may set its totals to zero.  (A market's
\* terms are one of its listings: the health-factor proofs need that.)
UnlistedMarketsEmpty ==
  \A m \in Markets \ Listed : \A u \in Users :
    supplied[m][u] = 0 /\ borrowed[m][u] = 0
TermsAsListed == \A m \in Listed : terms[m] \in Listings[m]
BooksInv == TypeOK /\ UnlistedMarketsEmpty /\ TotalsMatch /\ DebtCeilingHeld

\* Debt appears only in an active market, for a user the compliance gate lets
\* through if the market is permissioned, and on an account that has a health
\* factor of at least 1.0 with the new debt counted.
NewDebtIsAdmissible ==
  [][\A m \in Markets, u \in Users :
       borrowed'[m][u] > borrowed[m][u] =>
         /\ active[m]
         /\ terms[m].poolType = PermissionedPool =>
              dependency["compliance"] # NoAddress /\ u \in authorized[m]
         /\ PassesHealthCheck(supplied', borrowed', u)]_vars

\* While a market is paused its claims and debts only shrink, and no user
\* takes a claim out of it: what leaves is seized or clawed back.
PausedMarketsOnlyShrink ==
  [][\A m \in Listed : ~active[m] =>
       /\ \A u \in Users : /\ supplied'[m][u] <= supplied[m][u]
                           /\ borrowed'[m][u] <= borrowed[m][u]
       /\ UserStep => supplied'[m] = supplied[m]]_vars

\* Each listing's threshold is at least the factor loans against it are given
\* by, the boosted one included.  Nothing in create_market asks for this.
ThresholdsDominate ==
  \A m \in Markets : \A t \in Listings[m] :
    /\ t.collateralFactor <= t.liquidationThreshold
    /\ t.emodeCategory # 0 => EModeFactor <= t.liquidationThreshold

\* An account the engine cannot liquidate stays so through any operation of
\* any user at unmoved prices: only prices, a clawback or a liquidation can
\* put an account under its liquidation threshold.
NoSuddenLiquidation ==
  [][\A u \in Users :
       /\ Healthy(supplied, borrowed, u, TRUE)
       /\ ~Healthy(supplied, borrowed, u, TRUE)'
       => ~(UserStep \/ AdminStep)]_vars

\* The documented E-Mode threshold: an account whose open positions are all in
\* one category is not liquidatable while its debt is at most 93% of its
\* collateral's value.
EModeThreshold == 9300
EModeThresholdHolds ==
  \A u \in Users :
    LET open == OpenMarkets(supplied, borrowed, u)
        worth == Total([m \in open |-> supplied[m][u] * price[m]], open)
    IN  /\ HasHealthFactor(supplied, borrowed, u)
        /\ \A m \in open : InEMode(supplied, borrowed, u, m)
        /\ DebtValue(borrowed, u) * BPS <= worth * EModeThreshold
        => Healthy(supplied, borrowed, u, TRUE)
=============================================================================
