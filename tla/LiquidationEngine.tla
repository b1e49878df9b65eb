-------------------------- MODULE LiquidationEngine --------------------------
(***************************************************************************)
(* The Liquidation Engine beside the Core Pool: an auction records an      *)
(* unhealthy account's collateral in one market and debt in another, and   *)
(* is filled in parts, each paid at a discount that grows with the         *)
(* ledgers.  The records are a snapshot: the pool moves on, and settles    *)
(* what is asked of it cut down to the position as it is then.             *)
(*                                                                         *)
(* The pool's liquidation_engine dependency, when bound, is this engine.   *)
(* fill_via_flash_loan (and so execute_op) always fails, because the       *)
(* pool's flash_loan does; run_protocol_liquidator and finalize_bad_debt   *)
(* always fail, because the pool is then to move tokens of the engine,     *)
(* which does not sign for the pool.  They are no steps.                   *)
(***************************************************************************)
EXTENDS CorePool, Sequences

CONSTANTS
  Engine,       \* the engine contract's own address
  CallAmounts,  \* the amounts the pool's calls are made with
  FillAmounts,  \* the amounts fills are made with
  Ledgers,      \* how many ledgers may close between two transactions
  MaxSequence,  \* bound of the ledger sequence
  MaxAuctions   \* bound of the number of auctions

ASSUME EngineAssumption ==
  /\ Engine \in Contracts
  /\ CallAmounts \subseteq Amounts /\ FillAmounts \subseteq Amounts
  /\ Ledgers \subseteq Nat \ {0} /\ MaxSequence \in Nat /\ MaxAuctions \in Nat

\* The discount's window in ledgers and its end value in basis points.
MaxLedgers == 100
MaxDiscount == 1000

VARIABLES
  corePool,  \* initialize has named the pool
  auctions,  \* DataKey::Auction(id) for id in 1..AuctionCount
  sequence,  \* the ledger's sequence number
  opening    \* history, read by properties only: amounts each auction opened with

engineVars == <<corePool, auctions, sequence, opening>>
allVars == <<vars, engineVars>>

AuctionRecord ==
  [user: Users, debtMarket: Markets, collateralMarket: Markets,
   debt: Nat, collateral: Nat, startLedger: Nat, active: BOOLEAN]
OpeningRecord == [debt: Nat, collateral: Nat]

EngineTypeOK ==
  /\ corePool \in BOOLEAN
  /\ auctions \in Seq(AuctionRecord)
  /\ sequence \in Nat
  /\ opening \in Seq(OpeningRecord)
  /\ Len(opening) = Len(auctions)

EngineInit ==
  /\ Init
  /\ corePool = FALSE
  /\ auctions = <<>>
  /\ sequence = 0
  /\ opening = <<>>

-----------------------------------------------------------------------------
\* Wrong on purpose: the discount goes on growing after the window.
DiscountUnbounded(elapsed) == (elapsed * MaxDiscount) \div MaxLedgers

\* discount_bps: linear over the window, constant after it.
Discount(elapsed) == (Least(elapsed, MaxLedgers) * MaxDiscount) \div MaxLedgers

\* Wrong on purpose: the reward is not cut down to the recorded collateral.
RewardUncut(auction, amount) ==
  (((amount * auction.collateral) \div auction.debt)
     * (BPS + Discount(sequence - auction.startLedger))) \div BPS

\* The collateral a fill of the amount earns: its part of the recorded
\* collateral, raised by the discount, at most all of it.
Reward(auction, amount) ==
  LET proportional == (amount * auction.collateral) \div auction.debt
      raised == (proportional * (BPS + Discount(sequence - auction.startLedger))) \div BPS
  IN  Least(raised, auction.collateral)

-----------------------------------------------------------------------------
InitializeEngine ==
  /\ ~corePool
  /\ corePool' = TRUE
  /\ UNCHANGED <<vars, auctions, sequence, opening>>

\* Anyone may open an auction on an account under its liquidation threshold,
\* as often as the account stays there.
CreateAuction(b, d, c) ==
  /\ corePool
  /\ HasHealthFactor(supplied, borrowed, b)
  /\ ~Healthy(supplied, borrowed, b, TRUE)
  /\ supplied[c][b] > 0 /\ borrowed[d][b] > 0
  /\ Len(auctions) < MaxAuctions
  /\ auctions' = Append(auctions,
       [user |-> b, debtMarket |-> d, collateralMarket |-> c,
        debt |-> borrowed[d][b], collateral |-> supplied[c][b],
        startLedger |-> sequence, active |-> TRUE])
  /\ opening' = Append(opening, [debt |-> borrowed[d][b], collateral |-> supplied[c][b]])
  /\ UNCHANGED <<vars, corePool, sequence>>

\* Wrong on purpose: any fill closes the auction, one in part too.
FillCloses(l, id, amount) ==
  LET auction == auctions[id]
      reward == Reward(auction, amount)
      debt == auction.debt - amount
      collateral == auction.collateral - reward
  IN
    /\ auction.active
    /\ amount <= auction.debt
    /\ reward \in Amounts \cup {0}
    /\ dependency["liquidation_engine"] = Engine
    /\ LiquidatePosition(l, auction.user, auction.debtMarket,
                         auction.collateralMarket, amount, reward)
    /\ auctions' = [auctions EXCEPT ![id] =
         [auction EXCEPT !.debt = debt, !.collateral = collateral,
                         !.active = FALSE]]
    /\ UNCHANGED <<corePool, sequence, opening>>

\* Wrong on purpose: the two amounts in each other's place.
FillSwapsAmounts(l, id, amount) ==
  LET auction == auctions[id]
      reward == Reward(auction, amount)
      debt == auction.debt - amount
      collateral == auction.collateral - reward
  IN
    /\ auction.active
    /\ amount <= auction.debt
    /\ reward \in Amounts \cup {0}
    /\ dependency["liquidation_engine"] = Engine
    /\ LiquidatePosition(l, auction.user, auction.debtMarket,
                         auction.collateralMarket, reward, amount)
    /\ auctions' = [auctions EXCEPT ![id] =
         [auction EXCEPT !.debt = debt, !.collateral = collateral,
                         !.active = debt > 0 /\ collateral > 0]]
    /\ UNCHANGED <<corePool, sequence, opening>>

\* The recorded amounts fall by what was asked for, also when the pool settled
\* less.  Nothing looks at the account's health again.  (The reward is one of
\* the model's numbers: a bound.)
FillAuction(l, id, amount) ==
  LET auction == auctions[id]
      reward == Reward(auction, amount)
      debt == auction.debt - amount
      collateral == auction.collateral - reward
  IN
    /\ auction.active
    /\ amount <= auction.debt
    /\ reward \in Amounts \cup {0}
    /\ dependency["liquidation_engine"] = Engine
    /\ LiquidatePosition(l, auction.user, auction.debtMarket,
                         auction.collateralMarket, amount, reward)
    /\ auctions' = [auctions EXCEPT ![id] =
         [auction EXCEPT !.debt = debt, !.collateral = collateral,
                         !.active = debt > 0 /\ collateral > 0]]
    /\ UNCHANGED <<corePool, sequence, opening>>

\* Ledgers close.
LedgersClose(n) ==
  /\ sequence + n <= MaxSequence
  /\ sequence' = sequence + n
  /\ UNCHANGED <<vars, corePool, auctions, opening>>

\* What else happens to the pool.
PoolCall(u, m, amount) ==
  \/ Supply(u, m, amount)
  \/ Withdraw(u, m, amount)
  \/ Borrow(u, m, amount)
  \/ Repay(u, m, amount)
  \/ ComplianceClawback(u, m, amount)

PoolStep ==
  /\ \/ AdminStep
     \/ \E u \in Users, m \in Markets, amount \in CallAmounts : PoolCall(u, m, amount)
     \/ EnvironmentStep
  /\ UNCHANGED engineVars

EngineStep ==
  \/ InitializeEngine
  \/ \E b \in Users, d, c \in Markets : CreateAuction(b, d, c)
  \/ \E l \in Users, id \in DOMAIN auctions, amount \in FillAmounts :
       FillAuction(l, id, amount)
  \/ \E n \in Ledgers : LedgersClose(n)

EngineNext == PoolStep \/ EngineStep

EngineSpec == EngineInit /\ [][EngineNext]_allVars

-----------------------------------------------------------------------------
(***************************************************************************)
(* Correctness.                                                            *)
(***************************************************************************)
\* The engine drives the pool as the pool's own specification allows: every
\* settlement is one liquidate_position and nothing else touches the pool, so
\* whatever holds of the pool holds beside the engine.
ImplementsPool == Spec

\* A fill may take the last of the collateral for a part of the debt, and from
\* then on neither a fill nor finalize_bad_debt accepts the auction.  However the
\* fills were cut and timed, what a closed auction leaves unpaid is at most an
\* eleventh (1000 in 11000) of the debt it opened with.
StrandsAtMostAnEleventh ==
  \A id \in DOMAIN auctions :
    ~auctions[id].active =>
      auctions[id].debt * (BPS + MaxDiscount) <= opening[id].debt * MaxDiscount

\* Over an auction's whole life, through fills in parts at different discounts,
\* the part of the collateral given away is at most 1.1 times the part of the
\* debt that was paid.
DiscountCapped ==
  \A id \in DOMAIN auctions :
    (opening[id].collateral - auctions[id].collateral) * opening[id].debt * BPS
      <= (opening[id].debt - auctions[id].debt) * opening[id].collateral
           * (BPS + MaxDiscount)

\* The inductive form of the three: an auction is open exactly while both amounts
\* are left; it opened in the past and with collateral, and what is left of its
\* record is at most what it opened with.
OpenWhileBothLeft ==
  \A id \in DOMAIN auctions :
    auctions[id].active <=> auctions[id].debt > 0 /\ auctions[id].collateral > 0
RecordsFall ==
  \A id \in DOMAIN auctions :
    /\ auctions[id].startLedger <= sequence
    /\ opening[id].collateral > 0
    /\ auctions[id].debt <= opening[id].debt
    /\ auctions[id].collateral <= opening[id].collateral
RecordsInv == EngineTypeOK /\ OpenWhileBothLeft /\ RecordsFall /\ DiscountCapped

\* What a step that fills auction id took from the borrower's books.
Filled(id) == id \in DOMAIN auctions /\ auctions'[id] # auctions[id]
Paid(id) ==
  LET a == auctions[id] IN borrowed[a.debtMarket][a.user] - borrowed'[a.debtMarket][a.user]
Seized(id) ==
  LET a == auctions[id]
  IN  supplied[a.collateralMarket][a.user] - supplied'[a.collateralMarket][a.user]

\* While the borrower owes at least the recorded debt, collateral is seized
\* only against payment, at the recorded ratio and at most 10% more.
CurrentFillsPay ==
  [][\A id \in DOMAIN auctions :
       /\ Filled(id)
       /\ borrowed[auctions[id].debtMarket][auctions[id].user] >= auctions[id].debt
       => Seized(id) * auctions[id].debt * BPS
            <= Paid(id) * auctions[id].collateral * (BPS + MaxDiscount)]_allVars

\* What the documents say of a fill: collateral is bought at the oracle's price
\* less the curve's discount of the moment.
CollateralAtCurvePrice ==
  [][\A id \in DOMAIN auctions :
       Filled(id) =>
         Seized(id) * price[auctions[id].collateralMarket]
             * (BPS - Discount(sequence - auctions[id].startLedger))
           <= Paid(id) * price[auctions[id].debtMarket] * BPS]_allVars
=============================================================================
