--------------------------- MODULE CorePoolProofs ---------------------------
(***************************************************************************)
(* Proofs about the Core Pool and the Liquidation Engine beside it, for    *)
(* every set of users, markets and assets, every listing, endowment,       *)
(* amount and price: the pool by itself; that it implements the asset      *)
(* vaults, and so covers every supplier's claim; then the engine: its      *)
(* steps are steps of the pool, its records stay sound, and the collateral *)
(* an auction gives away stays within the discount over its whole life.    *)
(***************************************************************************)
EXTENDS LiquidationEngine, PoolVaults, TallyProofs

\* Moving tokens between two accounts that have them keeps a well-typed ledger.
LEMMA MovedType ==
  ASSUME NEW ledger \in [Assets -> [Accounts -> Nat]], NEW a \in Assets,
         NEW from \in Accounts, NEW to \in Accounts, NEW amount \in Nat,
         ledger[a][from] >= amount
  PROVE  Moved(ledger, a, from, to, amount) \in [Assets -> [Accounts -> Nat]]
BY DEF Moved

\* A position changed by an amount it can bear stays a natural number.
LEMMA BookType ==
  ASSUME NEW book \in [Markets -> [Users -> Nat]], NEW m \in Markets,
         NEW u \in Users, NEW amount \in Nat
  PROVE  /\ Plus(book, m, u, amount) \in [Markets -> [Users -> Nat]]
         /\ amount <= book[m][u] =>
              Minus(book, m, u, amount) \in [Markets -> [Users -> Nat]]
BY DEF Plus, Minus

LEMMA LeastType ==
  ASSUME NEW a \in Nat, NEW b \in Nat
  PROVE  Least(a, b) \in Nat /\ Least(a, b) <= a /\ Least(a, b) <= b
BY DEF Least

\* What a repayment does, with the amount cut down to the debt.
LEMMA RepaySteps ==
  ASSUME TypeOK, NEW u \in Users, NEW m \in Markets, NEW amount \in Amounts,
         Repay(u, m, amount)
  PROVE  \E paid \in Nat :
           /\ paid <= amount /\ paid <= borrowed[m][u]
           /\ m \in Listed /\ terms[m].asset \in Assets
           /\ Transfer(terms[m].asset, u, Pool, paid)
           /\ borrowed' = Minus(borrowed, m, u, paid)
           /\ totalBorrowed' = [totalBorrowed EXCEPT ![m] = @ - paid]
           /\ UNCHANGED <<totalSupplied, supplied, admin, dependency, terms,
                          active, price, authorized>>
<1> DEFINE paid == Least(amount, borrowed[m][u])
<1>1. amount \in Nat /\ borrowed[m][u] \in Nat
  BY AmountsAssumption DEF TypeOK
<1>2. paid \in Nat /\ paid <= amount /\ paid <= borrowed[m][u]
  BY <1>1, LeastType
<1>3. m \in Listed /\ terms[m].asset \in Assets
  BY DEF Repay, TypeOK, MarketTerms
<1> USE <1>2
<1>4. WITNESS paid \in Nat
<1>5. QED BY <1>2, <1>3 DEF Repay, adminVars, envVars

\* What a clawback does, with the amount cut down to the claim.
LEMMA ClawbackSteps ==
  ASSUME TypeOK, NEW u \in Users, NEW m \in Markets, NEW amount \in Amounts,
         ComplianceClawback(u, m, amount)
  PROVE  \E clawed \in Nat :
           /\ clawed <= amount /\ clawed <= supplied[m][u]
           /\ m \in Listed /\ terms[m].asset \in Assets
           /\ supplied' = Minus(supplied, m, u, clawed)
           /\ totalSupplied' = [totalSupplied EXCEPT ![m] = @ - clawed]
           /\ UNCHANGED <<totalBorrowed, borrowed, wallet, admin, dependency,
                          terms, active, price, authorized>>
<1> DEFINE clawed == Least(amount, supplied[m][u])
<1>1. amount \in Nat /\ supplied[m][u] \in Nat
  BY AmountsAssumption DEF TypeOK
<1>2. clawed \in Nat /\ clawed <= amount /\ clawed <= supplied[m][u]
  BY <1>1, LeastType
<1>3. m \in Listed /\ terms[m].asset \in Assets
  BY DEF ComplianceClawback, TypeOK, MarketTerms
<1> USE <1>2
<1>4. WITNESS clawed \in Nat
<1>5. QED BY <1>2, <1>3 DEF ComplianceClawback, adminVars, envVars

\* What a liquidation does, with debt and reward cut down to the positions.
LEMMA LiquidationSteps ==
  ASSUME TypeOK, NEW l \in Users, NEW b \in Users, NEW d \in Markets,
         NEW c \in Markets, NEW repay \in Amounts,
         NEW reward \in Amounts \cup {0},
         LiquidatePosition(l, b, d, c, repay, reward)
  PROVE  \E paid, seized \in Nat :
           /\ paid <= repay /\ paid <= borrowed[d][b]
           /\ seized <= reward /\ seized <= supplied[c][b]
           /\ d \in Listed /\ c \in Listed
           /\ terms[d].asset \in Assets /\ terms[c].asset \in Assets
           /\ borrowed' = Minus(borrowed, d, b, paid)
           /\ totalBorrowed' = [totalBorrowed EXCEPT ![d] = @ - paid]
           /\ supplied' = Minus(supplied, c, b, seized)
           /\ totalSupplied' = [totalSupplied EXCEPT ![c] = @ - seized]
           /\ wallet[terms[d].asset][l] >= paid
           /\ Moved(wallet, terms[d].asset, l, Pool, paid)
                [terms[c].asset][Pool] >= seized
           /\ wallet' = Moved(Moved(wallet, terms[d].asset, l, Pool, paid),
                              terms[c].asset, Pool, l, seized)
           /\ UNCHANGED <<admin, dependency, terms, active, price, authorized>>
<1> DEFINE paid   == Least(repay, borrowed[d][b])
           seized == Least(reward, supplied[c][b])
<1>1. /\ repay \in Nat /\ borrowed[d][b] \in Nat
      /\ reward \in Nat /\ supplied[c][b] \in Nat
  BY AmountsAssumption DEF TypeOK
<1>2. paid \in Nat /\ paid <= repay /\ paid <= borrowed[d][b]
  BY <1>1, LeastType
<1>3. seized \in Nat /\ seized <= reward /\ seized <= supplied[c][b]
  BY <1>1, LeastType
<1>4. d \in Listed /\ c \in Listed
  BY DEF LiquidatePosition
<1>5. terms[d].asset \in Assets /\ terms[c].asset \in Assets
  BY <1>4 DEF TypeOK, MarketTerms
<1> USE <1>2, <1>3
<1>6. WITNESS paid \in Nat, seized \in Nat
<1>7. QED BY <1>2, <1>3, <1>4, <1>5 DEF LiquidatePosition, adminVars, envVars

\* Every step keeps the pool well typed.
LEMMA TypeStep == TypeOK /\ [Next]_vars => TypeOK'
<1> SUFFICES ASSUME TypeOK, [Next]_vars PROVE TypeOK'
  OBVIOUS
<1> USE UsersAssumption, MarketsAssumption, AddressAssumption, AmountsAssumption
<1> USE DEF TypeOK
<1>1. ASSUME NEW x \in Admins, Initialize(x) PROVE TypeOK'
  BY <1>1 DEF Initialize, bookVars, envVars, Listed
<1>2. ASSUME NEW d \in Dependencies, NEW c \in Contracts, SetDependency(d, c)
      PROVE  TypeOK'
  BY <1>2 DEF SetDependency, bookVars, envVars, Listed
<1>3. ASSUME NEW m \in Markets, NEW t \in Listings[m], CreateMarket(m, t)
      PROVE  TypeOK'
  BY <1>3 DEF CreateMarket, envVars, Listed
<1>4. ASSUME NEW m \in Markets, PauseMarket(m) \/ ResumeMarket(m)
      PROVE  TypeOK'
  BY <1>4 DEF PauseMarket, ResumeMarket, bookVars, envVars, Listed
<1>5. ASSUME NEW u \in Users, NEW m \in Markets, NEW amount \in Amounts,
             Supply(u, m, amount)
      PROVE  TypeOK'
  <2>1. wallet' \in [Assets -> [Accounts -> Nat]]
    BY <1>5, MovedType DEF Supply, Transfer, Accounts, MarketTerms
  <2>2. supplied' \in [Markets -> [Users -> Nat]]
    BY <1>5, BookType DEF Supply
  <2>3. totalSupplied' \in [Markets -> Int]
    BY <1>5 DEF Supply
  <2>4. UNCHANGED <<admin, dependency, terms, active, price, authorized,
                   totalBorrowed, borrowed>>
    BY <1>5 DEF Supply, adminVars, envVars
  <2>5. QED BY <2>1, <2>2, <2>3, <2>4 DEF Listed
<1>6. ASSUME NEW u \in Users, NEW m \in Markets, NEW amount \in Amounts,
             Withdraw(u, m, amount)
      PROVE  TypeOK'
  <2>1. wallet' \in [Assets -> [Accounts -> Nat]]
    BY <1>6, MovedType DEF Withdraw, Transfer, Accounts, MarketTerms
  <2>2. supplied' \in [Markets -> [Users -> Nat]]
    BY <1>6, BookType DEF Withdraw
  <2>3. totalSupplied' \in [Markets -> Int]
    BY <1>6 DEF Withdraw
  <2>4. UNCHANGED <<admin, dependency, terms, active, price, authorized,
                   totalBorrowed, borrowed>>
    BY <1>6 DEF Withdraw, adminVars, envVars
  <2>5. QED BY <2>1, <2>2, <2>3, <2>4 DEF Listed
<1>7. ASSUME NEW u \in Users, NEW m \in Markets, NEW amount \in Amounts,
             Borrow(u, m, amount)
      PROVE  TypeOK'
  <2>1. wallet' \in [Assets -> [Accounts -> Nat]]
    BY <1>7, MovedType DEF Borrow, Transfer, Accounts, MarketTerms
  <2>2. borrowed' \in [Markets -> [Users -> Nat]]
    BY <1>7, BookType DEF Borrow
  <2>3. totalBorrowed' \in [Markets -> Int]
    BY <1>7 DEF Borrow
  <2>4. UNCHANGED <<admin, dependency, terms, active, price, authorized,
                   totalSupplied, supplied>>
    BY <1>7 DEF Borrow, adminVars, envVars
  <2>5. QED BY <2>1, <2>2, <2>3, <2>4 DEF Listed
<1>8. ASSUME NEW u \in Users, NEW m \in Markets, NEW amount \in Amounts,
             Repay(u, m, amount)
      PROVE  TypeOK'
  <2>1. PICK paid \in Nat :
          /\ paid <= borrowed[m][u] /\ terms[m].asset \in Assets
          /\ Transfer(terms[m].asset, u, Pool, paid)
          /\ borrowed' = Minus(borrowed, m, u, paid)
          /\ totalBorrowed' = [totalBorrowed EXCEPT ![m] = @ - paid]
          /\ UNCHANGED <<totalSupplied, supplied, admin, dependency, terms,
                         active, price, authorized>>
    BY <1>8, RepaySteps
  <2>2. wallet' \in [Assets -> [Accounts -> Nat]]
    BY <2>1, MovedType DEF Transfer, Accounts
  <2>3. borrowed' \in [Markets -> [Users -> Nat]]
    BY <2>1, BookType
  <2>4. totalBorrowed' \in [Markets -> Int]
    BY <2>1
  <2>5. QED BY <2>1, <2>2, <2>3, <2>4 DEF Listed
<1>9. ASSUME NEW u \in Users, NEW m \in Markets, NEW amount \in Amounts,
             ComplianceClawback(u, m, amount)
      PROVE  TypeOK'
  <2>1. PICK clawed \in Nat :
          /\ clawed <= supplied[m][u]
          /\ supplied' = Minus(supplied, m, u, clawed)
          /\ totalSupplied' = [totalSupplied EXCEPT ![m] = @ - clawed]
          /\ UNCHANGED <<totalBorrowed, borrowed, wallet, admin, dependency,
                         terms, active, price, authorized>>
    BY <1>9, ClawbackSteps
  <2>2. supplied' \in [Markets -> [Users -> Nat]]
    BY <2>1, BookType
  <2>3. totalSupplied' \in [Markets -> Int]
    BY <2>1
  <2>4. QED BY <2>1, <2>2, <2>3 DEF Listed
<1>10. ASSUME NEW l \in Users, NEW b \in Users, NEW d \in Markets,
              NEW c \in Markets, NEW repay \in Amounts,
              NEW reward \in Amounts \cup {0},
              LiquidatePosition(l, b, d, c, repay, reward)
       PROVE  TypeOK'
  <2>1. PICK paid \in Nat, seized \in Nat :
          /\ paid <= repay /\ paid <= borrowed[d][b]
          /\ seized <= reward /\ seized <= supplied[c][b]
          /\ d \in Listed /\ c \in Listed
          /\ terms[d].asset \in Assets /\ terms[c].asset \in Assets
          /\ borrowed' = Minus(borrowed, d, b, paid)
          /\ totalBorrowed' = [totalBorrowed EXCEPT ![d] = @ - paid]
          /\ supplied' = Minus(supplied, c, b, seized)
          /\ totalSupplied' = [totalSupplied EXCEPT ![c] = @ - seized]
          /\ wallet[terms[d].asset][l] >= paid
          /\ Moved(wallet, terms[d].asset, l, Pool, paid)
               [terms[c].asset][Pool] >= seized
          /\ wallet' = Moved(Moved(wallet, terms[d].asset, l, Pool, paid),
                             terms[c].asset, Pool, l, seized)
          /\ UNCHANGED <<admin, dependency, terms, active, price, authorized>>
    <3> HIDE DEF TypeOK
    <3> QED BY ONLY <1>10, TypeOK, LiquidationSteps
  <2> DEFINE afterRepay == Moved(wallet, terms[d].asset, l, Pool, paid)
  <2>2. afterRepay \in [Assets -> [Accounts -> Nat]]
    BY <2>1, MovedType DEF Accounts
  <2>3. wallet' \in [Assets -> [Accounts -> Nat]]
    <3>1. /\ afterRepay[terms[c].asset][Pool] >= seized
          /\ wallet' = Moved(afterRepay, terms[c].asset, Pool, l, seized)
          /\ terms[c].asset \in Assets /\ Pool \in Accounts /\ l \in Accounts
          /\ seized \in Nat
      BY <2>1 DEF Accounts
    <3> HIDE DEF afterRepay
    <3>2. QED BY <2>2, <3>1, MovedType
  <2>4. /\ borrowed' \in [Markets -> [Users -> Nat]]
        /\ supplied' \in [Markets -> [Users -> Nat]]
    BY <2>1, BookType
  <2>5. /\ totalSupplied' \in [Markets -> Int]
        /\ totalBorrowed' \in [Markets -> Int]
    BY <2>1
  <2>6. QED BY <2>1, <2>3, <2>4, <2>5 DEF Listed
<1>11. ASSUME NEW m \in Markets, NEW p \in Prices[m], OraclePriceMoves(m, p)
       PROVE  TypeOK'
  BY <1>11 DEF OraclePriceMoves, adminVars, bookVars, Listed
<1>12. ASSUME NEW m \in Markets, NEW us \in SUBSET Users, ComplianceGateMoves(m, us)
       PROVE  TypeOK'
  BY <1>12 DEF ComplianceGateMoves, adminVars, bookVars, Listed
<1>13. CASE UNCHANGED vars
  BY <1>13 DEF vars, adminVars, bookVars, envVars, Listed
<1>14. QED
  BY <1>1, <1>2, <1>3, <1>4, <1>5, <1>6, <1>7, <1>8, <1>9, <1>10, <1>11,
     <1>12, <1>13
  DEF Next, AdminStep, UserStep, ContractStep, EnvironmentStep

LEMMA TypeInit == Init => TypeOK
BY UsersAssumption, MarketsAssumption, AddressAssumption, AmountsAssumption
DEF Init, TypeOK, Accounts, Listed, Dependencies, MarketTerms

\* The states of the pool are well typed: in particular no position and no
\* token balance is ever negative, whatever the callers ask for.
THEOREM TypeCorrect == Spec => []TypeOK
<1>1. QED BY TypeInit, TypeStep, PTL DEF Spec

-----------------------------------------------------------------------------
(***************************************************************************)
(* The totals of the markets.                                              *)
(***************************************************************************)
\* A position and its market's total raised together still match.
LEMMA MatchesPlus ==
  ASSUME NEW book \in [Markets -> [Users -> Nat]], NEW totals \in [Markets -> Int],
         NEW m \in Markets, NEW u \in Users, NEW amount \in Nat,
         Matches(totals, book)
  PROVE  Matches([totals EXCEPT ![m] = @ + amount], Plus(book, m, u, amount))
<1> USE UsersAssumption
<1> DEFINE after == Plus(book, m, u, amount)
<1>1. \A n \in Markets \ {m} : after[n] = book[n]
  BY DEF Plus
<1>2. /\ book[m] \in [Users -> Nat] /\ after[m] \in [Users -> Nat]
      /\ after[m][u] = book[m][u] + amount
      /\ \A x \in Users \ {u} : book[m][x] = after[m][x]
  BY DEF Plus
<1>3. Total(after[m], Users) = Total(book[m], Users) - book[m][u] + after[m][u]
  <2> HIDE DEF after
  <2> QED BY <1>2, TotalChange
<1>4. Total(book[m], Users) \in Nat
  BY <1>2, TotalType
<1> HIDE DEF after
<1>5. QED BY <1>1, <1>2, <1>3, <1>4 DEF Matches, after

\* A position and its market's total lowered together still match.
LEMMA MatchesMinus ==
  ASSUME NEW book \in [Markets -> [Users -> Nat]], NEW totals \in [Markets -> Int],
         NEW m \in Markets, NEW u \in Users, NEW amount \in Nat,
         amount <= book[m][u], Matches(totals, book)
  PROVE  Matches([totals EXCEPT ![m] = @ - amount], Minus(book, m, u, amount))
<1> USE UsersAssumption
<1> DEFINE after == Minus(book, m, u, amount)
<1>1. \A n \in Markets \ {m} : after[n] = book[n]
  BY DEF Minus
<1>2. /\ book[m] \in [Users -> Nat] /\ after[m] \in [Users -> Nat]
      /\ after[m][u] = book[m][u] - amount
      /\ \A x \in Users \ {u} : book[m][x] = after[m][x]
  BY DEF Minus
<1>3. Total(after[m], Users) = Total(book[m], Users) - book[m][u] + after[m][u]
  <2> HIDE DEF after
  <2> QED BY <1>2, TotalChange
<1>4. Total(book[m], Users) \in Nat
  BY <1>2, TotalType
<1> HIDE DEF after
<1>5. QED BY <1>1, <1>2, <1>3, <1>4 DEF Matches, after

LEMMA BooksInit == Init => BooksInv
<1> USE UsersAssumption, MarketsAssumption
<1> SUFFICES ASSUME Init PROVE BooksInv
  OBVIOUS
<1>1. TypeOK
  BY TypeInit
<1>2. \A m \in Markets : /\ Total(supplied[m], Users) = 0
                        /\ Total(borrowed[m], Users) = 0
  <2> TAKE m \in Markets
  <2>1. \A u \in Users : supplied[m][u] = 0 /\ borrowed[m][u] = 0
    BY DEF Init
  <2>2. QED BY <2>1, TotalZero
<1>3. UnlistedMarketsEmpty
  BY DEF Init, UnlistedMarketsEmpty
<1>4. TotalsMatch
  BY <1>2 DEF Init, TotalsMatch, Matches
<1>5. DebtCeilingHeld
  BY DEF Init, DebtCeilingHeld, Listed
<1>6. QED BY <1>1, <1>3, <1>4, <1>5 DEF BooksInv

\* Every step keeps totals, positions and ceilings in agreement.  A step that
\* leaves the books alone is settled by <1>1; the others write one position
\* and its market's total, except the liquidation, which writes two pairs.
LEMMA BooksStep == BooksInv /\ [Next]_vars => BooksInv'
<1> SUFFICES ASSUME BooksInv, [Next]_vars PROVE BooksInv'
  OBVIOUS
<1> USE UsersAssumption, MarketsAssumption, AmountsAssumption
<1>0. TypeOK /\ TypeOK'
  BY TypeStep DEF BooksInv
<1>1. ASSUME UNCHANGED <<terms, bookVars>> PROVE BooksInv'
  BY <1>0, <1>1
  DEF BooksInv, UnlistedMarketsEmpty, TotalsMatch, Matches, DebtCeilingHeld,
      Listed, bookVars
<1>2. ASSUME NEW m \in Markets, NEW t \in Listings[m], CreateMarket(m, t)
      PROVE  BooksInv'
  <2>1. /\ supplied' = supplied /\ borrowed' = borrowed
        /\ m \notin Listed /\ Listed' = Listed \cup {m}
        /\ terms'[m] = t /\ \A n \in Listed : terms'[n] = terms[n]
    BY <1>0, <1>2 DEF CreateMarket, Listed, TypeOK
  <2>2. Total(supplied[m], Users) = 0 /\ Total(borrowed[m], Users) = 0
    <3>1. \A u \in Users : supplied[m][u] = 0 /\ borrowed[m][u] = 0
      BY <2>1 DEF BooksInv, UnlistedMarketsEmpty
    <3>2. QED BY <3>1, TotalZero
  <2>3. UnlistedMarketsEmpty'
    BY <2>1 DEF BooksInv, UnlistedMarketsEmpty
  <2>4. TotalsMatch'
    BY <1>0, <1>2, <2>1, <2>2 DEF CreateMarket, BooksInv, TotalsMatch, Matches, TypeOK
  <2>5. DebtCeilingHeld'
    <3>1. t.debtCeiling \in Nat
      BY DEF MarketTerms
    <3>2. QED BY <2>1, <2>2, <3>1 DEF BooksInv, DebtCeilingHeld
  <2>6. QED BY <1>0, <2>3, <2>4, <2>5 DEF BooksInv
<1>3. ASSUME NEW u \in Users, NEW m \in Markets, NEW amount \in Nat,
             m \in Listed,
             supplied' = Plus(supplied, m, u, amount),
             totalSupplied' = [totalSupplied EXCEPT ![m] = @ + amount],
             UNCHANGED <<terms, totalBorrowed, borrowed>>
      PROVE  BooksInv'
  <2>1. Matches(totalSupplied, supplied)'
    BY <1>0, <1>3, MatchesPlus DEF BooksInv, TotalsMatch, TypeOK
  <2>2. UnlistedMarketsEmpty'
    BY <1>0, <1>3 DEF BooksInv, UnlistedMarketsEmpty, Plus, Listed, TypeOK
  <2>3. QED
    BY <1>0, <1>3, <2>1, <2>2
    DEF BooksInv, TotalsMatch, Matches, DebtCeilingHeld, Listed
<1>4. ASSUME NEW u \in Users, NEW m \in Markets, NEW amount \in Nat,
             m \in Listed, amount <= supplied[m][u],
             supplied' = Minus(supplied, m, u, amount),
             totalSupplied' = [totalSupplied EXCEPT ![m] = @ - amount]
      PROVE  /\ Matches(totalSupplied, supplied)'
             /\ \A n \in Markets \ Listed : \A x \in Users : supplied'[n][x] = 0
  <2>1. Matches(totalSupplied, supplied)'
    BY <1>0, <1>4, MatchesMinus DEF BooksInv, TotalsMatch, TypeOK
  <2>2. \A n \in Markets \ Listed : \A x \in Users : supplied'[n][x] = 0
    BY <1>0, <1>4 DEF BooksInv, UnlistedMarketsEmpty, Minus, TypeOK
  <2>3. QED BY <2>1, <2>2
<1>5. ASSUME NEW u \in Users, NEW m \in Markets, NEW amount \in Nat,
             m \in Listed, totalBorrowed[m] + amount <= terms[m].debtCeiling,
             borrowed' = Plus(borrowed, m, u, amount),
             totalBorrowed' = [totalBorrowed EXCEPT ![m] = @ + amount],
             UNCHANGED <<terms, totalSupplied, supplied>>
      PROVE  BooksInv'
  <2>1. Matches(totalBorrowed, borrowed)'
    BY <1>0, <1>5, MatchesPlus DEF BooksInv, TotalsMatch, TypeOK
  <2>2. UnlistedMarketsEmpty'
    BY <1>0, <1>5 DEF BooksInv, UnlistedMarketsEmpty, Plus, Listed, TypeOK
  <2>3. DebtCeilingHeld'
    <3> SUFFICES ASSUME NEW n \in Listed PROVE Total(borrowed'[n], Users) <= terms[n].debtCeiling
      BY <1>5 DEF DebtCeilingHeld, Listed
    <3>1. n \in Markets /\ totalBorrowed'[n] = Total(borrowed'[n], Users)
      BY <1>0, <2>1 DEF Matches, TypeOK
    <3>2. CASE n = m
      BY <1>0, <1>5, <3>1, <3>2 DEF TypeOK
    <3>3. CASE n # m
      <4>1. borrowed'[n] = borrowed[n]
        BY <1>0, <1>5, <3>1, <3>3 DEF Plus, TypeOK
      <4>2. QED BY <4>1 DEF BooksInv, DebtCeilingHeld
    <3>4. QED BY <3>2, <3>3
  <2>4. QED
    BY <1>0, <1>5, <2>1, <2>2, <2>3 DEF BooksInv, TotalsMatch, Matches
<1>6. ASSUME NEW u \in Users, NEW m \in Markets, NEW amount \in Nat,
             m \in Listed, amount <= borrowed[m][u],
             borrowed' = Minus(borrowed, m, u, amount),
             totalBorrowed' = [totalBorrowed EXCEPT ![m] = @ - amount],
             terms' = terms
      PROVE  /\ Matches(totalBorrowed, borrowed)' /\ DebtCeilingHeld'
             /\ \A n \in Markets \ Listed : \A x \in Users : borrowed'[n][x] = 0
  <2>1. Matches(totalBorrowed, borrowed)'
    BY <1>0, <1>6, MatchesMinus DEF BooksInv, TotalsMatch, TypeOK
  <2>2. \A n \in Markets \ Listed : \A x \in Users : borrowed'[n][x] = 0
    BY <1>0, <1>6 DEF BooksInv, UnlistedMarketsEmpty, Minus, TypeOK
  <2>3. DebtCeilingHeld'
    <3> SUFFICES ASSUME NEW n \in Listed PROVE Total(borrowed'[n], Users) <= terms[n].debtCeiling
      BY <1>6 DEF DebtCeilingHeld, Listed
    <3>1. /\ n \in Markets /\ totalBorrowed'[n] = Total(borrowed'[n], Users)
          /\ totalBorrowed[n] = Total(borrowed[n], Users)
      BY <1>0, <2>1 DEF Matches, TypeOK, BooksInv, TotalsMatch
    <3>2. totalBorrowed'[n] <= totalBorrowed[n] /\ terms[n].debtCeiling \in Nat
      BY <1>0, <1>6, <3>1 DEF TypeOK, MarketTerms
    <3>3. totalBorrowed[n] <= terms[n].debtCeiling
      BY <3>1 DEF BooksInv, DebtCeilingHeld
    <3>4. QED BY <1>0, <3>1, <3>2, <3>3 DEF TypeOK
  <2>4. QED BY <2>1, <2>2, <2>3
<1>7. ASSUME NEW u \in Users, NEW m \in Markets, NEW amount \in Amounts
      PROVE  /\ Supply(u, m, amount) => BooksInv'
             /\ Withdraw(u, m, amount) => BooksInv'
             /\ Borrow(u, m, amount) => BooksInv'
             /\ Repay(u, m, amount) => BooksInv'
             /\ ComplianceClawback(u, m, amount) => BooksInv'
  <2>0. amount \in Nat
    OBVIOUS
  <2>1. ASSUME Supply(u, m, amount) PROVE BooksInv'
    BY <1>3, <2>0, <2>1 DEF Supply, adminVars
  <2>2. ASSUME Withdraw(u, m, amount) PROVE BooksInv'
    <3>1. /\ m \in Listed /\ amount <= supplied[m][u]
          /\ supplied' = Minus(supplied, m, u, amount)
          /\ totalSupplied' = [totalSupplied EXCEPT ![m] = @ - amount]
          /\ UNCHANGED <<terms, totalBorrowed, borrowed>>
      BY <1>0, <2>0, <2>2 DEF Withdraw, adminVars, TypeOK
    <3>2. QED
      BY <1>0, <1>4, <2>0, <3>1
      DEF BooksInv, TotalsMatch, UnlistedMarketsEmpty, Matches, DebtCeilingHeld, Listed
  <2>3. ASSUME Borrow(u, m, amount) PROVE BooksInv'
    BY <1>5, <2>0, <2>3 DEF Borrow, adminVars
  <2>4. ASSUME Repay(u, m, amount) PROVE BooksInv'
    <3>1. PICK paid \in Nat :
            /\ paid <= borrowed[m][u] /\ m \in Listed
            /\ borrowed' = Minus(borrowed, m, u, paid)
            /\ totalBorrowed' = [totalBorrowed EXCEPT ![m] = @ - paid]
            /\ UNCHANGED <<terms, totalSupplied, supplied>>
      BY <1>0, <2>4, RepaySteps
    <3>2. QED
      BY <1>0, <1>6, <3>1
      DEF BooksInv, TotalsMatch, UnlistedMarketsEmpty, Matches, Listed
  <2>5. ASSUME ComplianceClawback(u, m, amount) PROVE BooksInv'
    <3>1. PICK clawed \in Nat :
            /\ clawed <= supplied[m][u] /\ m \in Listed
            /\ supplied' = Minus(supplied, m, u, clawed)
            /\ totalSupplied' = [totalSupplied EXCEPT ![m] = @ - clawed]
            /\ UNCHANGED <<terms, totalBorrowed, borrowed>>
      BY <1>0, <2>5, ClawbackSteps
    <3>2. QED
      BY <1>0, <1>4, <3>1
      DEF BooksInv, TotalsMatch, UnlistedMarketsEmpty, Matches, DebtCeilingHeld, Listed
  <2>6. QED BY <2>1, <2>2, <2>3, <2>4, <2>5
<1>8. ASSUME NEW l \in Users, NEW b \in Users, NEW d \in Markets,
             NEW c \in Markets, NEW repay \in Amounts,
             NEW reward \in Amounts \cup {0},
             LiquidatePosition(l, b, d, c, repay, reward)
      PROVE  BooksInv'
  <2>1. PICK paid, seized \in Nat :
          /\ paid <= borrowed[d][b] /\ seized <= supplied[c][b]
          /\ d \in Listed /\ c \in Listed
          /\ borrowed' = Minus(borrowed, d, b, paid)
          /\ totalBorrowed' = [totalBorrowed EXCEPT ![d] = @ - paid]
          /\ supplied' = Minus(supplied, c, b, seized)
          /\ totalSupplied' = [totalSupplied EXCEPT ![c] = @ - seized]
          /\ terms' = terms
    <3>1. QED BY ONLY <1>0, <1>8, LiquidationSteps
  <2>2. QED
    BY <1>0, <1>4, <1>6, <2>1
    DEF BooksInv, TotalsMatch, UnlistedMarketsEmpty, Listed
<1>9. CASE UNCHANGED vars
  BY <1>1, <1>9 DEF vars, adminVars
<1>10. CASE AdminStep \/ EnvironmentStep
  BY <1>1, <1>2, <1>10
  DEF AdminStep, EnvironmentStep, Initialize, SetDependency, PauseMarket,
      ResumeMarket, OraclePriceMoves, ComplianceGateMoves, adminVars
<1>11. CASE UserStep \/ ContractStep
  BY <1>7, <1>8, <1>11 DEF UserStep, ContractStep
<1>12. QED BY <1>9, <1>10, <1>11 DEF Next

\* A market's totals are the sums of its users' positions, its debts stay
\* under its ceiling, and a market nobody listed has no positions.
THEOREM BooksAgree == Spec => []BooksInv
<1>1. QED BY BooksInit, BooksStep, PTL DEF Spec

\* The totals kept by hand next to the positions (position.rs) never drift.
THEOREM TotalsAlwaysMatch == Spec => []TotalsMatch
<1>1. BooksInv => TotalsMatch
  BY DEF BooksInv
<1>2. QED BY <1>1, BooksAgree, PTL

\* No market's users ever owe more than its debt ceiling (borrow's check,
\* read with every other operation that writes a debt).
THEOREM DebtCeilingAlwaysHeld == Spec => []DebtCeilingHeld
<1>1. BooksInv => DebtCeilingHeld
  BY DEF BooksInv
<1>2. QED BY <1>1, BooksAgree, PTL

-----------------------------------------------------------------------------
(***************************************************************************)
(* What a step may not do.                                                 *)
(***************************************************************************)
\* Debts and claims lowered by Minus are nowhere higher than before.
LEMMA MinusLowers ==
  ASSUME NEW book \in [Markets -> [Users -> Nat]], NEW m \in Markets,
         NEW u \in Users, NEW amount \in Nat
  PROVE  \A n \in Markets, x \in Users :
           Minus(book, m, u, amount)[n][x] <= book[n][x]
BY DEF Minus

\* Which operation may raise a debt: a borrow by the debtor, in that market.
LEMMA OnlyBorrowRaisesDebt ==
  ASSUME TypeOK, [Next]_vars, NEW m \in Markets, NEW u \in Users,
         borrowed'[m][u] > borrowed[m][u]
  PROVE  \E amount \in Amounts : Borrow(u, m, amount)
<1> USE AmountsAssumption
<1>1. borrowed[m][u] \in Nat
  BY DEF TypeOK
<1>2. ASSUME borrowed' = borrowed PROVE FALSE
  BY <1>1, <1>2
<1>3. ASSUME NEW n \in Markets, NEW x \in Users, NEW amount \in Nat,
             borrowed' = Minus(borrowed, n, x, amount)
      PROVE  FALSE
  <2>1. Minus(borrowed, n, x, amount)[m][u] <= borrowed[m][u]
    BY MinusLowers DEF TypeOK
  <2>2. borrowed'[m][u] \in Nat
    BY TypeStep DEF TypeOK
  <2>3. QED BY <1>1, <1>3, <2>1, <2>2
<1>4. ASSUME NEW x \in Users, NEW n \in Markets, NEW amount \in Amounts
      PROVE  /\ ~Supply(x, n, amount) /\ ~Withdraw(x, n, amount)
             /\ ~ComplianceClawback(x, n, amount)
             /\ ~Repay(x, n, amount)
             /\ Borrow(x, n, amount) => Borrow(u, m, amount)
  <2>1. ~Supply(x, n, amount) /\ ~Withdraw(x, n, amount)
        /\ ~ComplianceClawback(x, n, amount)
    BY <1>2 DEF Supply, Withdraw, ComplianceClawback
  <2>2. ASSUME Repay(x, n, amount) PROVE FALSE
    <3>1. PICK paid \in Nat : borrowed' = Minus(borrowed, n, x, paid)
      BY <2>2, RepaySteps
    <3>2. QED BY <1>3, <3>1
  <2>3. ASSUME Borrow(x, n, amount) PROVE x = u /\ n = m
    BY <1>1, <2>3 DEF Borrow, Plus, TypeOK
  <2>4. QED BY <2>1, <2>2, <2>3
<1>5. ASSUME NEW l \in Users, NEW b \in Users, NEW d \in Markets,
             NEW c \in Markets, NEW repay \in Amounts,
             NEW reward \in Amounts \cup {0},
             LiquidatePosition(l, b, d, c, repay, reward)
      PROVE  FALSE
  <2>1. PICK paid \in Nat : borrowed' = Minus(borrowed, d, b, paid)
    BY ONLY TypeOK, <1>5, LiquidationSteps
  <2>2. QED BY <1>3, <2>1
<1>6. ~AdminStep /\ ~EnvironmentStep /\ ~UNCHANGED vars
  BY <1>2
  DEF AdminStep, EnvironmentStep, Initialize, SetDependency, CreateMarket,
      PauseMarket, ResumeMarket, OraclePriceMoves, ComplianceGateMoves,
      bookVars, vars
<1>7. QED BY <1>4, <1>5, <1>6 DEF Next, UserStep, ContractStep

\* Borrow's checks cannot be avoided: whatever operation leaves a user with a
\* larger debt, the market is active, the gate let the user through, and the
\* account's health factor with that debt is at least 1.0.
THEOREM NewDebtAlwaysAdmissible == Spec => NewDebtIsAdmissible
<1>1. TypeOK /\ [Next]_vars =>
        [\A m \in Markets, u \in Users :
           borrowed'[m][u] > borrowed[m][u] =>
             /\ active[m]
             /\ terms[m].poolType = PermissionedPool =>
                  dependency["compliance"] # NoAddress /\ u \in authorized[m]
             /\ PassesHealthCheck(supplied', borrowed', u)]_vars
  <2> SUFFICES ASSUME TypeOK, [Next]_vars, NEW m \in Markets, NEW u \in Users,
                      borrowed'[m][u] > borrowed[m][u]
               PROVE  /\ active[m]
                      /\ terms[m].poolType = PermissionedPool =>
                           /\ dependency["compliance"] # NoAddress
                           /\ u \in authorized[m]
                      /\ PassesHealthCheck(supplied', borrowed', u)
    OBVIOUS
  <2>1. PICK amount \in Amounts : Borrow(u, m, amount)
    BY OnlyBorrowRaisesDebt
  <2>2. supplied' = supplied
    BY <2>1 DEF Borrow
  <2>3. QED BY <2>1, <2>2 DEF Borrow
<1>2. QED BY <1>1, TypeCorrect, PTL DEF Spec, NewDebtIsAdmissible

\* A user's operation leaves the claims of a paused market alone.
LEMMA UsersLeavePausedClaims ==
  ASSUME TypeOK, UserStep, NEW m \in Markets, ~active[m]
  PROVE  supplied'[m] = supplied[m]
<1> USE AmountsAssumption
<1>1. PICK u \in Users, n \in Markets, amount \in Amounts :
        \/ Supply(u, n, amount) \/ Withdraw(u, n, amount)
        \/ Borrow(u, n, amount) \/ Repay(u, n, amount)
  BY DEF UserStep
<1>2. CASE Supply(u, n, amount)
  BY <1>2 DEF Supply, Plus, TypeOK
<1>3. CASE Withdraw(u, n, amount)
  BY <1>3 DEF Withdraw, Minus, TypeOK
<1>4. CASE Borrow(u, n, amount) \/ Repay(u, n, amount)
  BY <1>4 DEF Borrow, Repay
<1>5. QED BY <1>1, <1>2, <1>3, <1>4

\* Nor do the bound contracts raise any claim.
LEMMA ContractsOnlyLowerClaims ==
  ASSUME TypeOK, ContractStep, NEW m \in Markets, NEW u \in Users
  PROVE  supplied'[m][u] <= supplied[m][u]
<1> USE AmountsAssumption
<1>1. ASSUME NEW x \in Users, NEW n \in Markets, NEW amount \in Amounts,
             ComplianceClawback(x, n, amount)
      PROVE  supplied'[m][u] <= supplied[m][u]
  <2>1. PICK clawed \in Nat : supplied' = Minus(supplied, n, x, clawed)
    BY <1>1, ClawbackSteps
  <2>2. QED BY <2>1, MinusLowers DEF TypeOK
<1>2. ASSUME NEW l \in Users, NEW b \in Users, NEW d \in Markets,
             NEW c \in Markets, NEW repay \in Amounts,
             NEW reward \in Amounts \cup {0},
             LiquidatePosition(l, b, d, c, repay, reward)
      PROVE  supplied'[m][u] <= supplied[m][u]
  <2>1. PICK seized \in Nat : supplied' = Minus(supplied, c, b, seized)
    BY ONLY TypeOK, <1>2, LiquidationSteps
  <2>2. QED BY <2>1, MinusLowers DEF TypeOK
<1>3. QED BY <1>1, <1>2 DEF ContractStep

\* Pausing a market closes every way to add to it and every way a user has to
\* take a claim out of it; only repayments, seizures and clawbacks are left.
THEOREM PausedMarketsAlwaysShrink == Spec => PausedMarketsOnlyShrink
<1>1. TypeOK /\ [Next]_vars =>
        [\A m \in Listed : ~active[m] =>
           /\ \A u \in Users : /\ supplied'[m][u] <= supplied[m][u]
                               /\ borrowed'[m][u] <= borrowed[m][u]
           /\ UserStep => supplied'[m] = supplied[m]]_vars
  <2> SUFFICES ASSUME TypeOK, [Next]_vars, NEW m \in Listed, ~active[m]
               PROVE  /\ \A u \in Users : /\ supplied'[m][u] <= supplied[m][u]
                                          /\ borrowed'[m][u] <= borrowed[m][u]
                      /\ UserStep => supplied'[m] = supplied[m]
    OBVIOUS
  <2>1. m \in Markets /\ TypeOK'
    BY TypeStep DEF TypeOK
  <2>2. UserStep => supplied'[m] = supplied[m]
    BY <2>1, UsersLeavePausedClaims
  <2>3. ASSUME NEW u \in Users PROVE borrowed'[m][u] <= borrowed[m][u]
    <3>1. ~(borrowed'[m][u] > borrowed[m][u])
      BY <2>1, OnlyBorrowRaisesDebt DEF Borrow
    <3>2. borrowed'[m][u] \in Nat /\ borrowed[m][u] \in Nat
      BY <2>1 DEF TypeOK
    <3>3. QED BY <3>1, <3>2
  <2>4. ASSUME NEW u \in Users PROVE supplied'[m][u] <= supplied[m][u]
    <3>1. supplied[m][u] \in Nat
      BY <2>1 DEF TypeOK
    <3>2. CASE ContractStep
      BY <2>1, <3>2, ContractsOnlyLowerClaims
    <3>3. CASE UserStep
      BY <2>2, <3>1, <3>3
    <3>4. CASE AdminStep \/ EnvironmentStep \/ UNCHANGED vars
      <4>1. supplied' = supplied
        BY <3>4
        DEF AdminStep, EnvironmentStep, Initialize, SetDependency, CreateMarket,
            PauseMarket, ResumeMarket, OraclePriceMoves, ComplianceGateMoves,
            bookVars, vars
      <4>2. QED BY <3>1, <4>1
    <3>5. QED BY <3>2, <3>3, <3>4 DEF Next
  <2>5. QED BY <2>2, <2>3, <2>4
<1>2. QED BY <1>1, TypeCorrect, PTL DEF Spec, PausedMarketsOnlyShrink

-----------------------------------------------------------------------------
(***************************************************************************)
(* Health factors.                                                         *)
(***************************************************************************)
\* A quotient scaled by BPS reaches BPS exactly when the dividend reaches the
\* divisor: rounding down costs no account its health.
LEMMA QuotientAtLeastOne ==
  ASSUME NEW x \in Nat, NEW d \in Nat, d > 0
  PROVE  (x * BPS) \div d >= BPS <=> x >= d
<1> DEFINE q == (x * BPS) \div d
           r == (x * BPS) % d
<1>1. q \in Int /\ r \in 0 .. (d - 1) /\ x * BPS = d * q + r
  BY DEF BPS
<1> HIDE DEF q, r
<1>2. ASSUME q >= BPS PROVE x >= d
  <2>1. d * q >= d * BPS
    BY <1>1, <1>2 DEF BPS
  <2>2. QED BY <1>1, <2>1 DEF BPS
<1>3. ASSUME ~(q >= BPS) PROVE ~(x >= d)
  <2>1. q <= BPS - 1
    BY <1>1, <1>3 DEF BPS
  <2>2. d * q <= d * (BPS - 1)
    BY <1>1, <2>1 DEF BPS
  <2>3. d * (BPS - 1) + d = d * BPS
    BY DEF BPS
  <2>4. QED BY <1>1, <2>2, <2>3 DEF BPS
<1>4. QED BY <1>2, <1>3 DEF q

\* The share of a larger amount by a larger factor is larger.
LEMMA ShareMonotone ==
  ASSUME NEW x \in Nat, NEW y \in Nat, NEW p \in Nat, NEW f \in Nat,
         NEW g \in Nat, x <= y, f <= g
  PROVE  /\ (x * p * f) \div BPS \in Nat /\ (y * p * g) \div BPS \in Nat
         /\ (x * p * f) \div BPS <= (y * p * g) \div BPS
<1>1. x * p \in Nat /\ y * p \in Nat /\ x * p <= y * p
  BY ProductMonotone
<1>2. x * p * f \in Nat /\ y * p * g \in Nat /\ x * p * f <= y * p * g
  BY <1>1, ProductMonotone
<1> DEFINE a == x * p * f
           b == y * p * g
<1>3. a \in Nat /\ b \in Nat /\ a <= b
  BY <1>2
<1> HIDE DEF a, b
<1>4. a \div BPS \in Nat /\ b \div BPS \in Nat /\ a \div BPS <= b \div BPS
  BY <1>3 DEF BPS
<1>5. QED BY <1>4 DEF a, b

\* Health is collateral value against debt value.
LEMMA HealthyMeans ==
  ASSUME NEW sup, NEW bor, NEW u, NEW useThreshold,
         CollateralValue(sup, bor, u, useThreshold) \in Nat, DebtValue(bor, u) \in Nat
  PROVE  Healthy(sup, bor, u, useThreshold)
           <=> \/ DebtValue(bor, u) = 0
               \/ CollateralValue(sup, bor, u, useThreshold) >= DebtValue(bor, u)
<1> DEFINE cv == CollateralValue(sup, bor, u, useThreshold)
           dv == DebtValue(bor, u)
<1>1. cv \in Nat /\ dv \in Nat
  OBVIOUS
<1>2. Healthy(sup, bor, u, useThreshold) <=> (dv > 0 => (cv * BPS) \div dv >= BPS)
  BY DEF Healthy
<1> HIDE DEF cv, dv
<1>3. dv > 0 => ((cv * BPS) \div dv >= BPS <=> cv >= dv)
  BY <1>1, QuotientAtLeastOne
<1>4. (dv > 0 => (cv * BPS) \div dv >= BPS) <=> (dv = 0 \/ cv >= dv)
  BY <1>1, <1>3
<1>5. QED BY <1>2, <1>4 DEF cv, dv

\* At its liquidation thresholds, an account with larger claims is worth more.
LEMMA CollateralMonotone ==
  ASSUME TypeOK, NEW u \in Users, NEW bor, NEW boz,
         NEW sup \in [Markets -> [Users -> Nat]],
         NEW sur \in [Markets -> [Users -> Nat]],
         \A m \in Listed : sup[m][u] <= sur[m][u]
  PROVE  /\ CollateralValue(sup, bor, u, TRUE) \in Nat
         /\ CollateralValue(sur, boz, u, TRUE) \in Nat
         /\ CollateralValue(sup, bor, u, TRUE) <= CollateralValue(sur, boz, u, TRUE)
<1> DEFINE low  == [m \in Listed |->
                     (sup[m][u] * price[m] * terms[m].liquidationThreshold) \div BPS]
           high == [m \in Listed |->
                     (sur[m][u] * price[m] * terms[m].liquidationThreshold) \div BPS]
<1>1. \A m \in Listed : low[m] \in Nat /\ high[m] \in Nat /\ low[m] <= high[m]
  <2> TAKE m \in Listed
  <2>1. /\ sup[m][u] \in Nat /\ sur[m][u] \in Nat /\ price[m] \in Nat
        /\ terms[m].liquidationThreshold \in Nat /\ sup[m][u] <= sur[m][u]
    BY DEF TypeOK, MarketTerms
  <2> DEFINE lt == terms[m].liquidationThreshold
  <2>2. lt <= lt
    BY <2>1
  <2>3. /\ (sup[m][u] * price[m] * lt) \div BPS \in Nat
        /\ (sur[m][u] * price[m] * lt) \div BPS \in Nat
        /\ (sup[m][u] * price[m] * lt) \div BPS <= (sur[m][u] * price[m] * lt) \div BPS
    BY <2>1, <2>2, ShareMonotone
  <2>4. QED BY <2>3
<1>2. IsFiniteSet(Listed)
  BY MarketsAssumption, FS_Subset DEF TypeOK
<1>3. /\ CollateralValue(sup, bor, u, TRUE) = Total(low, Listed)
      /\ CollateralValue(sur, boz, u, TRUE) = Total(high, Listed)
  BY DEF CollateralValue, Factor
<1> HIDE DEF low, high
<1>4. Total(low, Listed) \in Nat /\ Total(high, Listed) \in Nat
  BY <1>1, <1>2, TotalType
<1>5. Total(low, Listed) <= Total(high, Listed)
  BY <1>1, <1>2, TotalMonotone
<1>6. QED BY <1>3, <1>4, <1>5

\* At the factors loans are given by, it is worth at most as much, if each
\* listing's threshold dominates its factors.
LEMMA FactorsUnderThresholds ==
  ASSUME TypeOK, NEW u \in Users, NEW bor,
         NEW sup \in [Markets -> [Users -> Nat]],
         ThresholdsDominate, \A m \in Listed : terms[m] \in Listings[m]
  PROVE  /\ CollateralValue(sup, bor, u, FALSE) \in Nat
         /\ CollateralValue(sup, bor, u, FALSE) <= CollateralValue(sup, bor, u, TRUE)
<1> DEFINE low  == [m \in Listed |->
                     (sup[m][u] * price[m] * Factor(sup, bor, u, m, FALSE)) \div BPS]
           high == [m \in Listed |->
                     (sup[m][u] * price[m] * Factor(sup, bor, u, m, TRUE)) \div BPS]
<1>1. \A m \in Listed : low[m] \in Nat /\ high[m] \in Nat /\ low[m] <= high[m]
  <2> TAKE m \in Listed
  <2>1. sup[m][u] \in Nat /\ price[m] \in Nat
    BY DEF TypeOK
  <2>2. /\ terms[m].collateralFactor \in Nat /\ terms[m].liquidationThreshold \in Nat
        /\ terms[m].collateralFactor <= terms[m].liquidationThreshold
        /\ terms[m].emodeCategory # 0 => EModeFactor <= terms[m].liquidationThreshold
    BY DEF TypeOK, MarketTerms, ThresholdsDominate
  <2> DEFINE x == sup[m][u]  p == price[m]
             f == Factor(sup, bor, u, m, FALSE)
             g == Factor(sup, bor, u, m, TRUE)
  <2>3. f \in Nat /\ g \in Nat /\ f <= g
    BY <2>2 DEF Factor, InEMode, EModeFactor
  <2>4. x \in Nat /\ p \in Nat /\ x <= x
    BY <2>1
  <2>5. /\ (x * p * f) \div BPS \in Nat /\ (x * p * g) \div BPS \in Nat
        /\ (x * p * f) \div BPS <= (x * p * g) \div BPS
    <3> HIDE DEF x, p, f, g
    <3> QED BY <2>3, <2>4, ShareMonotone
  <2>6. QED BY <2>5
<1>2. IsFiniteSet(Listed)
  BY MarketsAssumption, FS_Subset DEF TypeOK
<1>3. /\ CollateralValue(sup, bor, u, FALSE) = Total(low, Listed)
      /\ CollateralValue(sup, bor, u, TRUE) = Total(high, Listed)
  BY DEF CollateralValue
<1> HIDE DEF low, high
<1>4. Total(low, Listed) \in Nat /\ Total(high, Listed) \in Nat
  BY <1>1, <1>2, TotalType
<1>5. Total(low, Listed) <= Total(high, Listed)
  BY <1>1, <1>2, TotalMonotone
<1>6. QED BY <1>3, <1>4, <1>5

\* An account with larger debts owes more.
LEMMA DebtMonotone ==
  ASSUME TypeOK, NEW u \in Users,
         NEW bor \in [Markets -> [Users -> Nat]],
         NEW boz \in [Markets -> [Users -> Nat]],
         \A m \in Listed : bor[m][u] <= boz[m][u]
  PROVE  /\ DebtValue(bor, u) \in Nat /\ DebtValue(boz, u) \in Nat
         /\ DebtValue(bor, u) <= DebtValue(boz, u)
<1> DEFINE low  == [m \in Listed |-> bor[m][u] * price[m]]
           high == [m \in Listed |-> boz[m][u] * price[m]]
<1>1. \A m \in Listed : low[m] \in Nat /\ high[m] \in Nat /\ low[m] <= high[m]
  <2> TAKE m \in Listed
  <2>1. /\ bor[m][u] \in Nat /\ boz[m][u] \in Nat /\ price[m] \in Nat
        /\ bor[m][u] <= boz[m][u] /\ price[m] <= price[m]
    BY DEF TypeOK
  <2>2. /\ bor[m][u] * price[m] \in Nat /\ boz[m][u] * price[m] \in Nat
        /\ bor[m][u] * price[m] <= boz[m][u] * price[m]
    BY <2>1, ProductMonotone
  <2>3. QED BY <2>2
<1>2. IsFiniteSet(Listed)
  BY MarketsAssumption, FS_Subset DEF TypeOK
<1>3. DebtValue(bor, u) = Total(low, Listed) /\ DebtValue(boz, u) = Total(high, Listed)
  BY DEF DebtValue
<1> HIDE DEF low, high
<1>4. Total(low, Listed) \in Nat /\ Total(high, Listed) \in Nat
  BY <1>1, <1>2, TotalType
<1>5. Total(low, Listed) <= Total(high, Listed)
  BY <1>1, <1>2, TotalMonotone
<1>6. QED BY <1>3, <1>4, <1>5

\* More claims and smaller debts keep an account out of liquidation.
LEMMA HealthKept ==
  ASSUME TypeOK, NEW u \in Users,
         NEW sup \in [Markets -> [Users -> Nat]],
         NEW sur \in [Markets -> [Users -> Nat]],
         NEW bor \in [Markets -> [Users -> Nat]],
         NEW boz \in [Markets -> [Users -> Nat]],
         \A m \in Listed : sup[m][u] <= sur[m][u],
         \A m \in Listed : boz[m][u] <= bor[m][u],
         Healthy(sup, bor, u, TRUE)
  PROVE  Healthy(sur, boz, u, TRUE)
<1> DEFINE before == CollateralValue(sup, bor, u, TRUE)
           after  == CollateralValue(sur, boz, u, TRUE)
           owed   == DebtValue(bor, u)
           owes   == DebtValue(boz, u)
<1>1. before \in Nat /\ after \in Nat /\ before <= after
  BY CollateralMonotone
<1>2. owed \in Nat /\ owes \in Nat /\ owes <= owed
  BY DebtMonotone
<1>3. owed = 0 \/ before >= owed
  BY <1>1, <1>2, HealthyMeans
<1>4. (owes = 0 \/ after >= owes) => Healthy(sur, boz, u, TRUE)
  BY <1>1, <1>2, HealthyMeans
<1> HIDE DEF before, after, owed, owes
<1>5. owes = 0 \/ after >= owes
  BY <1>1, <1>2, <1>3
<1>6. QED BY <1>4, <1>5

\* The health check at the collateral factors is the stricter one.
LEMMA CheckedIsHealthy ==
  ASSUME TypeOK, NEW u \in Users,
         NEW sup \in [Markets -> [Users -> Nat]],
         NEW bor \in [Markets -> [Users -> Nat]],
         ThresholdsDominate, TermsAsListed, PassesHealthCheck(sup, bor, u)
  PROVE  Healthy(sup, bor, u, TRUE)
<1> DEFINE lent   == CollateralValue(sup, bor, u, FALSE)
           called == CollateralValue(sup, bor, u, TRUE)
           owed   == DebtValue(bor, u)
<1>1. lent \in Nat /\ lent <= called
  BY FactorsUnderThresholds DEF TermsAsListed
<1>2. called \in Nat
  <2>1. \A m \in Listed : sup[m][u] <= sup[m][u]
    BY DEF TypeOK
  <2>2. QED BY <2>1, CollateralMonotone
<1>3. owed \in Nat
  <2>1. \A m \in Listed : bor[m][u] <= bor[m][u]
    BY DEF TypeOK
  <2>2. QED BY <2>1, DebtMonotone
<1>4. owed = 0 \/ lent >= owed
  BY <1>1, <1>3, HealthyMeans DEF PassesHealthCheck
<1>5. (owed = 0 \/ called >= owed) => Healthy(sup, bor, u, TRUE)
  BY <1>2, <1>3, HealthyMeans
<1> HIDE DEF lent, called, owed
<1>6. owed = 0 \/ called >= owed
  BY <1>1, <1>2, <1>3, <1>4
<1>7. QED BY <1>5, <1>6

\* A market's terms never change: they stay one of its listings.
LEMMA TermsStep == TypeOK /\ TermsAsListed /\ [Next]_vars => TermsAsListed'
<1> SUFFICES ASSUME TypeOK, TermsAsListed, [Next]_vars PROVE TermsAsListed'
  OBVIOUS
<1>1. ASSUME terms' = terms PROVE TermsAsListed'
  BY <1>1 DEF TermsAsListed, Listed
<1>2. ASSUME NEW m \in Markets, NEW t \in Listings[m], CreateMarket(m, t)
      PROVE  TermsAsListed'
  BY <1>2 DEF CreateMarket, TermsAsListed, Listed
<1>3. CASE AdminStep
  BY <1>1, <1>2, <1>3
  DEF AdminStep, Initialize, SetDependency, PauseMarket, ResumeMarket
<1>4. CASE UserStep \/ ContractStep
  BY <1>1, <1>4
  DEF UserStep, ContractStep, Supply, Withdraw, Borrow, Repay,
      ComplianceClawback, LiquidatePosition, adminVars
<1>5. CASE EnvironmentStep \/ UNCHANGED vars
  BY <1>1, <1>5
  DEF EnvironmentStep, OraclePriceMoves, ComplianceGateMoves, adminVars, vars
<1>6. QED BY <1>3, <1>4, <1>5 DEF Next

\* No user's operation costs anyone's account its health: another user's
\* account is untouched, supplying and repaying only add to it, and borrowing
\* and withdrawing pass the stricter check.
LEMMA UsersKeepHealth ==
  ASSUME TypeOK, TypeOK', TermsAsListed, ThresholdsDominate, UserStep,
         NEW u \in Users, Healthy(supplied, borrowed, u, TRUE)
  PROVE  Healthy(supplied', borrowed', u, TRUE)
<1> USE AmountsAssumption
<1>0. /\ supplied \in [Markets -> [Users -> Nat]] /\ supplied' \in [Markets -> [Users -> Nat]]
      /\ borrowed \in [Markets -> [Users -> Nat]] /\ borrowed' \in [Markets -> [Users -> Nat]]
      /\ Listed \subseteq Markets
  BY DEF TypeOK
<1>1. PICK x \in Users, n \in Markets, amount \in Amounts :
        \/ Supply(x, n, amount) \/ Withdraw(x, n, amount)
        \/ Borrow(x, n, amount) \/ Repay(x, n, amount)
  BY DEF UserStep
<1>2. ASSUME \A m \in Listed : /\ supplied[m][u] <= supplied'[m][u]
                              /\ borrowed'[m][u] <= borrowed[m][u]
      PROVE  Healthy(supplied', borrowed', u, TRUE)
  BY <1>0, <1>2, HealthKept
<1>3. CASE Supply(x, n, amount)
  <2>1. \A m \in Listed : /\ supplied[m][u] <= supplied'[m][u]
                         /\ borrowed'[m][u] <= borrowed[m][u]
    BY <1>0, <1>3 DEF Supply, Plus
  <2>2. QED BY <1>2, <2>1
<1>4. CASE Repay(x, n, amount)
  <2>1. PICK paid \in Nat : /\ borrowed' = Minus(borrowed, n, x, paid)
                            /\ supplied' = supplied
    BY <1>4, RepaySteps
  <2>2. \A m \in Listed : borrowed'[m][u] <= borrowed[m][u]
    BY <1>0, <2>1, MinusLowers
  <2>3. \A m \in Listed : supplied[m][u] <= supplied'[m][u]
    BY <1>0, <2>1
  <2>4. QED BY <1>2, <2>2, <2>3
<1>5. CASE Borrow(x, n, amount) \/ Withdraw(x, n, amount)
  <2>1. CASE x = u
    <3>1. PassesHealthCheck(supplied', borrowed', u)
      BY <1>5, <2>1 DEF Borrow, Withdraw
    <3>2. QED BY <1>0, <3>1, CheckedIsHealthy
  <2>2. CASE x # u
    <3>1. \A m \in Listed : /\ supplied[m][u] <= supplied'[m][u]
                           /\ borrowed'[m][u] <= borrowed[m][u]
      BY <1>0, <1>5, <2>2 DEF Borrow, Withdraw, Plus, Minus
    <3>2. QED BY <1>2, <3>1
  <2>3. QED BY <2>1, <2>2
<1>6. QED BY <1>1, <1>3, <1>4, <1>5

\* An account's values depend on prices, terms and its own positions; a market
\* listed a moment ago adds nothing to them.
LEMMA SameHealth ==
  ASSUME Listed \subseteq Listed', price' = price,
         \A m \in Listed : terms'[m] = terms[m],
         NEW u \in Users,
         \A m \in Listed' \ Listed : /\ price[m] \in Nat /\ terms'[m] \in MarketTerms
                                     /\ supplied'[m][u] = 0 /\ borrowed'[m][u] = 0,
         Healthy(supplied', borrowed', u, TRUE)
  PROVE  Healthy(supplied, borrowed, u, TRUE)'
<1> DEFINE worth == [m \in Listed |->
             (supplied'[m][u] * price[m] * terms[m].liquidationThreshold) \div BPS]
           woorth == [m \in Listed' |->
             (supplied'[m][u] * price'[m] * terms'[m].liquidationThreshold) \div BPS]
           owes == [m \in Listed |-> borrowed'[m][u] * price[m]]
           owees == [m \in Listed' |-> borrowed'[m][u] * price'[m]]
<1>1. Total(woorth, Listed') = Total(worth, Listed)
  <2>1. \A m \in Listed : worth[m] = woorth[m]
    OBVIOUS
  <2>2. \A m \in Listed' \ Listed : woorth[m] = 0
    <3> TAKE m \in Listed' \ Listed
    <3> DEFINE p == price[m]  f == terms'[m].liquidationThreshold
    <3>1. p \in Nat /\ f \in Nat /\ supplied'[m][u] = 0
      BY DEF MarketTerms
    <3>2. (0 * p * f) \div BPS = 0
      <4> HIDE DEF p, f
      <4> QED BY <3>1 DEF BPS
    <3>3. QED BY <3>1, <3>2
  <2> HIDE DEF worth, woorth
  <2>3. QED BY <2>1, <2>2, TotalExtend
<1>2. Total(owees, Listed') = Total(owes, Listed)
  <2>1. \A m \in Listed : owes[m] = owees[m]
    OBVIOUS
  <2>2. \A m \in Listed' \ Listed : owees[m] = 0
    OBVIOUS
  <2> HIDE DEF owes, owees
  <2>3. QED BY <2>1, <2>2, TotalExtend
<1>3. CollateralValue(supplied', borrowed', u, TRUE) = Total(worth, Listed)
  BY DEF CollateralValue, Factor
<1>4. CollateralValue(supplied, borrowed, u, TRUE)' = Total(woorth, Listed')
  BY DEF CollateralValue, Factor
<1>5. DebtValue(borrowed', u) = Total(owes, Listed)
  BY DEF DebtValue
<1>6. DebtValue(borrowed, u)' = Total(owees, Listed')
  BY DEF DebtValue
<1> HIDE DEF worth, woorth, owes, owees
<1>7. QED BY <1>1, <1>2, <1>3, <1>4, <1>5, <1>6 DEF Healthy

\* No operation of a user or of the admin makes anyone liquidatable, on every
\* listing whose thresholds dominate its factors.  (Without that the deployed
\* E-Mode listings let a borrower in at 90% against a threshold of 80%.)
THEOREM NoSuddenLiquidations == ThresholdsDominate => (Spec => NoSuddenLiquidation)
<1> SUFFICES ASSUME ThresholdsDominate PROVE Spec => NoSuddenLiquidation
  OBVIOUS
<1>1. Init => TermsAsListed
  BY DEF Init, TermsAsListed, Listed
<1>2. BooksInv /\ TermsAsListed /\ [Next]_vars =>
        [\A u \in Users :
           /\ Healthy(supplied, borrowed, u, TRUE)
           /\ ~Healthy(supplied, borrowed, u, TRUE)'
           => ~(UserStep \/ AdminStep)]_vars
  <2> SUFFICES ASSUME BooksInv, TermsAsListed, [Next]_vars, NEW u \in Users,
                      Healthy(supplied, borrowed, u, TRUE), UserStep \/ AdminStep
               PROVE  Healthy(supplied, borrowed, u, TRUE)'
    OBVIOUS
  <2>1. TypeOK /\ TypeOK'
    BY TypeStep DEF BooksInv
  <2>2. CASE UserStep
    <3>1. Healthy(supplied', borrowed', u, TRUE)
      BY <2>1, <2>2, UsersKeepHealth
    <3>2. price' = price /\ terms' = terms
      BY <2>2
      DEF UserStep, Supply, Withdraw, Borrow, Repay, adminVars, envVars
    <3>3. Listed' = Listed /\ \A m \in Listed : terms'[m] = terms[m]
      BY <3>2 DEF Listed
    <3>4. QED BY <3>1, <3>2, <3>3, SameHealth
  <2>3. CASE AdminStep
    <3>1. UNCHANGED <<supplied, borrowed, price>>
      BY <2>3
      DEF AdminStep, Initialize, SetDependency, CreateMarket, PauseMarket,
          ResumeMarket, bookVars, envVars
    <3>2. Healthy(supplied', borrowed', u, TRUE)
      BY <3>1
    <3>3. Listed \subseteq Listed' /\ \A m \in Listed : terms'[m] = terms[m]
      BY <2>3
      DEF AdminStep, Initialize, SetDependency, CreateMarket, PauseMarket,
          ResumeMarket, Listed
    <3>4. \A m \in Listed' \ Listed :
            /\ price[m] \in Nat /\ terms'[m] \in MarketTerms
            /\ supplied'[m][u] = 0 /\ borrowed'[m][u] = 0
      BY <2>1, <3>1 DEF TypeOK, BooksInv, UnlistedMarketsEmpty
    <3>5. QED BY <3>1, <3>2, <3>3, <3>4, SameHealth
  <2>4. QED BY <2>2, <2>3
<1>3. QED
  BY <1>1, <1>2, BooksAgree, TermsStep, TypeCorrect, PTL DEF Spec, NoSuddenLiquidation

-----------------------------------------------------------------------------
(***************************************************************************)
(* The pool implements the asset vaults.                                   *)
(***************************************************************************)
\* The abstract state, as PoolVaults maps it.
Cash         == [a \in Assets |-> wallet[a][Pool]]
Sums(totals) == [a \in Assets |-> Total(totals, MarketsOf(a))]

-----------------------------------------------------------------------------
(***************************************************************************)
(* Sums over the markets of an asset.                                      *)
(***************************************************************************)
LEMMA AssetMarkets ==
  ASSUME TypeOK, NEW a
  PROVE  MarketsOf(a) \subseteq Markets /\ IsFiniteSet(MarketsOf(a))
<1>1. MarketsOf(a) \subseteq Markets
  BY DEF MarketsOf, TypeOK
<1>2. QED BY <1>1, MarketsAssumption, FS_Subset

LEMMA SumsType ==
  ASSUME TypeOK, NEW totals \in [Markets -> Nat]
  PROVE  Sums(totals) \in [Assets -> Nat]
<1>1. ASSUME NEW a \in Assets PROVE Total(totals, MarketsOf(a)) \in Nat
  <2>1. MarketsOf(a) \subseteq Markets /\ IsFiniteSet(MarketsOf(a))
    BY AssetMarkets
  <2>2. \A m \in MarketsOf(a) : totals[m] \in Nat
    BY <2>1
  <2>3. QED BY <2>1, <2>2, TotalType
<1>2. QED BY <1>1 DEF Sums

\* Setting one market's total moves its asset's sum by the difference.
LEMMA SumsChange ==
  ASSUME TypeOK, NEW totals \in [Markets -> Nat], NEW after \in [Markets -> Nat],
         NEW m \in Listed, \A n \in Markets \ {m} : after[n] = totals[n],
         NEW a \in Assets
  PROVE  Sums(after)[a] = IF terms[m].asset = a
                          THEN Sums(totals)[a] - totals[m] + after[m]
                          ELSE Sums(totals)[a]
<1> DEFINE S == MarketsOf(a)
<1>1. S \subseteq Markets /\ IsFiniteSet(S)
  BY AssetMarkets
<1>2. m \in S <=> terms[m].asset = a
  BY DEF MarketsOf
<1>3. /\ \A n \in S : totals[n] \in Nat
      /\ \A n \in S : after[n] \in Nat
      /\ \A n \in S \ {m} : totals[n] = after[n]
  BY <1>1
<1> HIDE DEF S
<1>4. CASE m \in S
  <2>1. Total(after, S) = Total(totals, S) - totals[m] + after[m]
    BY <1>1, <1>3, <1>4, TotalChange
  <2>2. QED BY <1>2, <1>4, <2>1 DEF Sums, S
<1>5. CASE m \notin S
  <2>1. \A n \in S : totals[n] = after[n]
    BY <1>3, <1>5
  <2>2. Total(totals, S) = Total(after, S)
    BY <2>1, TotalSame
  <2>3. QED BY <1>2, <1>5, <2>2 DEF Sums, S
<1>6. QED BY <1>4, <1>5

LEMMA SumsRaised ==
  ASSUME TypeOK, NEW totals \in [Markets -> Nat], NEW after \in [Markets -> Nat],
         NEW m \in Listed, NEW x \in Nat, after[m] = totals[m] + x,
         \A n \in Markets \ {m} : after[n] = totals[n]
  PROVE  /\ Sums(after) = [Sums(totals) EXCEPT ![terms[m].asset] = @ + x]
         /\ x <= Sums(after)[terms[m].asset]
<1>1. m \in Markets
  BY DEF TypeOK
<1>2. totals[m] \in Nat
  BY <1>1
<1>3. Sums(totals) \in [Assets -> Nat] /\ Sums(after) \in [Assets -> Nat]
  BY SumsType
<1>4. \A a \in Assets : Sums(after)[a] = IF terms[m].asset = a
                          THEN Sums(totals)[a] - totals[m] + after[m]
                          ELSE Sums(totals)[a]
  BY SumsChange
<1>5. \A a \in Assets :
        Sums(after)[a] = [Sums(totals) EXCEPT ![terms[m].asset] = @ + x][a]
  BY <1>2, <1>3, <1>4
<1>6. Sums(after) = [Sums(totals) EXCEPT ![terms[m].asset] = @ + x]
  BY <1>3, <1>5
<1>7. x <= Sums(after)[terms[m].asset]
  <2> DEFINE a == terms[m].asset
  <2>1. a \in Assets
    BY DEF TypeOK, MarketTerms
  <2>2. Sums(after)[a] = Sums(totals)[a] - totals[m] + after[m] /\ Sums(totals)[a] \in Nat
    BY <1>3, <1>4, <2>1
  <2>3. QED BY <1>2, <2>2
<1>8. QED BY <1>6, <1>7

\* Lowering it by an amount it can bear; the asset's sum can bear it too.
LEMMA SumsLowered ==
  ASSUME TypeOK, NEW totals \in [Markets -> Nat], NEW m \in Listed, NEW x \in Nat,
         x <= totals[m]
  PROVE  /\ Sums([totals EXCEPT ![m] = @ - x])
              = [Sums(totals) EXCEPT ![terms[m].asset] = @ - x]
         /\ x <= Sums(totals)[terms[m].asset]
<1> DEFINE after == [totals EXCEPT ![m] = @ - x]
<1>1. m \in Markets /\ terms[m].asset \in Assets
  BY DEF TypeOK, MarketTerms
<1>2. /\ after \in [Markets -> Nat] /\ after[m] = totals[m] - x
      /\ \A n \in Markets \ {m} : after[n] = totals[n]
  BY <1>1
<1>3. totals[m] \in Nat
  BY <1>1
<1> HIDE DEF after
<1>4. Sums(totals) \in [Assets -> Nat] /\ Sums(after) \in [Assets -> Nat]
  BY <1>2, SumsType
<1>5. \A a \in Assets : Sums(after)[a] = IF terms[m].asset = a
                          THEN Sums(totals)[a] - totals[m] + after[m]
                          ELSE Sums(totals)[a]
  BY <1>2, SumsChange
<1>6. \A a \in Assets :
        Sums(after)[a] = [Sums(totals) EXCEPT ![terms[m].asset] = @ - x][a]
  BY <1>2, <1>3, <1>4, <1>5
<1>7. Sums(after) = [Sums(totals) EXCEPT ![terms[m].asset] = @ - x]
  BY <1>4, <1>6
<1>8. x <= Sums(totals)[terms[m].asset]
  <2> DEFINE a == terms[m].asset
  <2>1. Sums(after)[a] = Sums(totals)[a] - totals[m] + after[m]
    BY <1>1, <1>5
  <2>2. Sums(after)[a] \in Nat /\ Sums(totals)[a] \in Nat
    BY <1>1, <1>4
  <2>3. QED BY <1>2, <1>3, <2>1, <2>2
<1>9. QED BY <1>7, <1>8 DEF after

-----------------------------------------------------------------------------
(***************************************************************************)
(* The pool's own balance.                                                 *)
(***************************************************************************)
LEMMA CashReceived ==
  ASSUME TypeOK, NEW a \in Assets, NEW u \in Users, NEW x \in Nat,
         wallet' = Moved(wallet, a, u, Pool, x)
  PROVE  Cash' = [Cash EXCEPT ![a] = @ + x]
<1>1. u # Pool /\ u \in Accounts /\ Pool \in Accounts
  BY UsersAssumption DEF Accounts
<1>2. \A b \in Assets : wallet'[b][Pool] = IF b = a THEN wallet[b][Pool] + x
                                                    ELSE wallet[b][Pool]
  BY <1>1 DEF Moved, TypeOK
<1>3. QED BY <1>2 DEF Cash

LEMMA CashPaid ==
  ASSUME TypeOK, NEW a \in Assets, NEW u \in Users, NEW x \in Nat,
         wallet' = Moved(wallet, a, Pool, u, x)
  PROVE  Cash' = [Cash EXCEPT ![a] = @ - x]
<1>1. u # Pool /\ u \in Accounts /\ Pool \in Accounts
  BY UsersAssumption DEF Accounts
<1>2. \A b \in Assets : wallet'[b][Pool] = IF b = a THEN wallet[b][Pool] - x
                                                    ELSE wallet[b][Pool]
  BY <1>1 DEF Moved, TypeOK
<1>3. QED BY <1>2 DEF Cash

\* A settlement's two transfers.
LEMMA CashSettled ==
  ASSUME TypeOK, NEW d \in Assets, NEW c \in Assets, NEW l \in Users,
         NEW x \in Nat, NEW y \in Nat,
         wallet[d][l] >= x,
         Moved(wallet, d, l, Pool, x)[c][Pool] >= y,
         wallet' = Moved(Moved(wallet, d, l, Pool, x), c, Pool, l, y)
  PROVE  /\ y <= Cash[c] + IF c = d THEN x ELSE 0
         /\ Cash' = [a \in Assets |->
              Cash[a] + (IF a = d THEN x ELSE 0) - (IF a = c THEN y ELSE 0)]
<1> DEFINE between == Moved(wallet, d, l, Pool, x)
<1>1. l # Pool /\ l \in Accounts /\ Pool \in Accounts
  BY UsersAssumption DEF Accounts
<1>2. between \in [Assets -> [Accounts -> Nat]]
  BY <1>1, MovedType DEF TypeOK
<1>3. \A a \in Assets : between[a][Pool] = Cash[a] + IF a = d THEN x ELSE 0
  BY <1>1 DEF Cash, Moved, TypeOK
<1>4. between[c][Pool] >= y /\ wallet' = Moved(between, c, Pool, l, y)
  OBVIOUS
<1> HIDE DEF between
<1>5. \A a \in Assets : wallet'[a][Pool] = between[a][Pool] - IF a = c THEN y ELSE 0
  BY <1>1, <1>2, <1>4 DEF Moved
<1>6. y <= Cash[c] + IF c = d THEN x ELSE 0
  BY <1>2, <1>3, <1>4, <1>1
<1>7. \A a \in Assets : Cash'[a] =
        Cash[a] + (IF a = d THEN x ELSE 0) - (IF a = c THEN y ELSE 0)
  <2> TAKE a \in Assets
  <2>1. wallet'[a][Pool] = between[a][Pool] - IF a = c THEN y ELSE 0
    BY <1>5
  <2>2. between[a][Pool] = Cash[a] + IF a = d THEN x ELSE 0
    BY <1>3
  <2>3. Cash'[a] = wallet'[a][Pool]
    BY DEF Cash
  <2>4. Cash[a] \in Nat
    BY <1>1 DEF Cash, TypeOK
  <2> DEFINE was == Cash[a]  mid == between[a][Pool]  now == wallet'[a][Pool]
             i == IF a = d THEN x ELSE 0
             o == IF a = c THEN y ELSE 0
  <2>5. was \in Nat /\ i \in Nat /\ o \in Nat /\ mid = was + i /\ now = mid - o
    BY <2>1, <2>2, <2>4
  <2>6. now = was + i - o
    <3> HIDE DEF was, mid, now, i, o
    <3> QED BY <2>5
  <2>7. QED BY <2>3, <2>6
<1>8. QED BY <1>6, <1>7 DEF Cash

-----------------------------------------------------------------------------
(***************************************************************************)
(* Every step of the pool is a step of the vaults.                         *)
(***************************************************************************)
\* With the listings unmoved, an asset's sum is taken over the same markets.
LEMMA SumsPrimed ==
  ASSUME terms' = terms
  PROVE  /\ Sums(totalSupplied)' = Sums(totalSupplied')
         /\ Sums(totalBorrowed)' = Sums(totalBorrowed')
<1>1. \A a \in Assets : MarketsOf(a)' = MarketsOf(a)
  BY DEF MarketsOf, Listed
<1>2. QED BY <1>1 DEF Sums

\* The four ways a step moves a total, read as a change of the asset's sum.
LEMMA ClaimsRaised ==
  ASSUME TypeOK, terms' = terms, totalSupplied \in [Markets -> Nat],
         NEW m \in Listed, NEW x \in Nat,
         totalSupplied' = [totalSupplied EXCEPT ![m] = @ + x]
  PROVE  Sums(totalSupplied)' = [Sums(totalSupplied) EXCEPT ![terms[m].asset] = @ + x]
<1> DEFINE after == [totalSupplied EXCEPT ![m] = @ + x]
<1>1. Sums(totalSupplied)' = Sums(after)
  BY SumsPrimed
<1>2. m \in Markets
  BY DEF TypeOK
<1>3. /\ after \in [Markets -> Nat] /\ after[m] = totalSupplied[m] + x
      /\ \A n \in Markets \ {m} : after[n] = totalSupplied[n]
  BY <1>2
<1> HIDE DEF after
<1>4. /\ Sums(after) = [Sums(totalSupplied) EXCEPT ![terms[m].asset] = @ + x]
      /\ x <= Sums(after)[terms[m].asset]
  BY <1>3, SumsRaised
<1>5. QED BY <1>1, <1>4

LEMMA ClaimsLowered ==
  ASSUME TypeOK, terms' = terms, totalSupplied \in [Markets -> Nat],
         NEW m \in Listed, NEW x \in Nat, x <= totalSupplied[m],
         totalSupplied' = [totalSupplied EXCEPT ![m] = @ - x]
  PROVE  /\ Sums(totalSupplied)' = [Sums(totalSupplied) EXCEPT ![terms[m].asset] = @ - x]
         /\ x <= Sums(totalSupplied)[terms[m].asset]
<1> DEFINE after == [totalSupplied EXCEPT ![m] = @ - x]
<1>1. Sums(totalSupplied)' = Sums(after)
  BY SumsPrimed
<1>2. /\ Sums(after) = [Sums(totalSupplied) EXCEPT ![terms[m].asset] = @ - x]
      /\ x <= Sums(totalSupplied)[terms[m].asset]
  BY SumsLowered
<1> HIDE DEF after
<1>3. QED BY <1>1, <1>2

LEMMA LoansRaised ==
  ASSUME TypeOK, terms' = terms, totalBorrowed \in [Markets -> Nat],
         NEW m \in Listed, NEW x \in Nat,
         totalBorrowed' = [totalBorrowed EXCEPT ![m] = @ + x]
  PROVE  Sums(totalBorrowed)' = [Sums(totalBorrowed) EXCEPT ![terms[m].asset] = @ + x]
<1> DEFINE after == [totalBorrowed EXCEPT ![m] = @ + x]
<1>1. Sums(totalBorrowed)' = Sums(after)
  BY SumsPrimed
<1>2. m \in Markets
  BY DEF TypeOK
<1>3. /\ after \in [Markets -> Nat] /\ after[m] = totalBorrowed[m] + x
      /\ \A n \in Markets \ {m} : after[n] = totalBorrowed[n]
  BY <1>2
<1> HIDE DEF after
<1>4. /\ Sums(after) = [Sums(totalBorrowed) EXCEPT ![terms[m].asset] = @ + x]
      /\ x <= Sums(after)[terms[m].asset]
  BY <1>3, SumsRaised
<1>5. QED BY <1>1, <1>4

LEMMA LoansLowered ==
  ASSUME TypeOK, terms' = terms, totalBorrowed \in [Markets -> Nat],
         NEW m \in Listed, NEW x \in Nat, x <= totalBorrowed[m],
         totalBorrowed' = [totalBorrowed EXCEPT ![m] = @ - x]
  PROVE  /\ Sums(totalBorrowed)' = [Sums(totalBorrowed) EXCEPT ![terms[m].asset] = @ - x]
         /\ x <= Sums(totalBorrowed)[terms[m].asset]
<1> DEFINE after == [totalBorrowed EXCEPT ![m] = @ - x]
<1>1. Sums(totalBorrowed)' = Sums(after)
  BY SumsPrimed
<1>2. /\ Sums(after) = [Sums(totalBorrowed) EXCEPT ![terms[m].asset] = @ - x]
      /\ x <= Sums(totalBorrowed)[terms[m].asset]
  BY SumsLowered
<1> HIDE DEF after
<1>3. QED BY <1>1, <1>2

LEMMA TotalsAreNat ==
  ASSUME BooksInv
  PROVE  /\ totalSupplied \in [Markets -> Nat] /\ totalBorrowed \in [Markets -> Nat]
         /\ \A m \in Markets, u \in Users : /\ supplied[m][u] <= totalSupplied[m]
                                          /\ borrowed[m][u] <= totalBorrowed[m]
<1> USE UsersAssumption
<1>1. ASSUME NEW m \in Markets
      PROVE  /\ totalSupplied[m] \in Nat /\ totalBorrowed[m] \in Nat
             /\ \A u \in Users : /\ supplied[m][u] <= totalSupplied[m]
                                /\ borrowed[m][u] <= totalBorrowed[m]
  <2>1. \A u \in Users : supplied[m][u] \in Nat /\ borrowed[m][u] \in Nat
    BY DEF BooksInv, TypeOK
  <2>2. Total(supplied[m], Users) \in Nat /\ Total(borrowed[m], Users) \in Nat
    BY <2>1, TotalType
  <2>3. \A u \in Users : /\ supplied[m][u] <= Total(supplied[m], Users)
                        /\ borrowed[m][u] <= Total(borrowed[m], Users)
    BY <2>1, TermUnderTotal
  <2>4. QED BY <2>2, <2>3 DEF BooksInv, TotalsMatch, Matches
<1>2. QED BY <1>1 DEF BooksInv, TypeOK

\* Each kind of operation, read on the abstract state.  <1>1 holds the facts
\* about flows, <1>2 the facts about totals.
LEMMA VaultStep ==
  BooksInv /\ [Next]_vars => [Vaults!VaultNext]_(Vaults!vaultVars)
<1> SUFFICES ASSUME BooksInv, [Next]_vars
             PROVE  [Vaults!VaultNext]_(Vaults!vaultVars)
  OBVIOUS
<1> DEFINE Claims == Sums(totalSupplied)
           Loans  == Sums(totalBorrowed)
<1>0. TypeOK /\ TypeOK'
  BY TypeStep DEF BooksInv
<1>1. /\ \A x \in Amounts : x \in Flows /\ x \in Nat
      /\ 0 \in Flows
      /\ \A x \in Amounts \cup {0}, y \in Nat : y <= x => y \in Flows
  BY FlowsCoverAmounts, AmountsAssumption
<1>2. /\ totalSupplied \in [Markets -> Nat] /\ totalBorrowed \in [Markets -> Nat]
      /\ \A m \in Markets, u \in Users : /\ supplied[m][u] <= totalSupplied[m]
                                       /\ borrowed[m][u] <= totalBorrowed[m]
  BY TotalsAreNat
<1>3. ASSUME Cash' = Cash, Claims' = Claims, Loans' = Loans
      PROVE  UNCHANGED Vaults!vaultVars
  BY <1>3 DEF Vaults!vaultVars, Cash, Sums
<1>4. ASSUME NEW u \in Users, NEW m \in Markets, NEW amount \in Amounts,
             Supply(u, m, amount)
      PROVE  Vaults!VaultNext
  <2>1. m \in Listed /\ terms[m].asset \in Assets /\ amount \in Nat /\ amount \in Flows
    BY <1>0, <1>1, <1>4 DEF Supply, TypeOK, MarketTerms
  <2>2. terms' = terms /\ totalBorrowed' = totalBorrowed
    BY <1>4 DEF Supply, adminVars
  <2>3. Cash' = [Cash EXCEPT ![terms[m].asset] = @ + amount]
    BY <1>0, <1>4, <2>1, CashReceived DEF Supply, Transfer
  <2>4. Claims' = [Claims EXCEPT ![terms[m].asset] = @ + amount]
    BY <1>0, <1>2, <1>4, <2>1, <2>2, ClaimsRaised DEF Supply
  <2>5. Loans' = Loans
    BY <2>2, SumsPrimed
  <2>6. Vaults!Deposit(terms[m].asset, amount)
    BY <2>3, <2>4, <2>5 DEF Vaults!Deposit, Cash, Sums
  <2>7. QED BY <2>1, <2>6 DEF Vaults!VaultNext
<1>5. ASSUME NEW u \in Users, NEW m \in Markets, NEW amount \in Amounts,
             Withdraw(u, m, amount)
      PROVE  Vaults!VaultNext
  <2>1. m \in Listed /\ terms[m].asset \in Assets /\ amount \in Nat /\ amount \in Flows
    BY <1>0, <1>1, <1>5 DEF Withdraw, TypeOK, MarketTerms
  <2>2. /\ terms' = terms /\ totalBorrowed' = totalBorrowed
        /\ totalSupplied' = [totalSupplied EXCEPT ![m] = @ - amount]
        /\ wallet[terms[m].asset][Pool] >= amount
        /\ wallet' = Moved(wallet, terms[m].asset, Pool, u, amount)
    BY <1>5 DEF Withdraw, adminVars, Transfer
  <2>3. /\ Cash' = [Cash EXCEPT ![terms[m].asset] = @ - amount]
        /\ amount <= Cash[terms[m].asset]
    <3>1. Cash' = [Cash EXCEPT ![terms[m].asset] = @ - amount]
      BY <1>0, <2>1, <2>2, CashPaid
    <3>2. amount <= Cash[terms[m].asset]
      BY <2>1, <2>2 DEF Cash
    <3>3. QED BY <3>1, <3>2
  <2>4. amount <= totalSupplied[m]
    <3>1. supplied[m][u] >= amount /\ supplied[m][u] \in Nat
      BY <1>0, <1>5 DEF Withdraw, TypeOK
    <3>2. QED BY <1>2, <2>1, <3>1
  <2>5. /\ Claims' = [Claims EXCEPT ![terms[m].asset] = @ - amount]
        /\ amount <= Claims[terms[m].asset]
    BY <1>0, <1>2, <2>1, <2>2, <2>4, ClaimsLowered
  <2>6. Loans' = Loans
    BY <2>2, SumsPrimed
  <2>7. Vaults!Redeem(terms[m].asset, amount)
    BY <2>3, <2>5, <2>6 DEF Vaults!Redeem, Cash, Sums
  <2>8. QED BY <2>1, <2>7 DEF Vaults!VaultNext
<1>6. ASSUME NEW u \in Users, NEW m \in Markets, NEW amount \in Amounts,
             Borrow(u, m, amount)
      PROVE  Vaults!VaultNext
  <2>1. m \in Listed /\ terms[m].asset \in Assets /\ amount \in Nat /\ amount \in Flows
    BY <1>0, <1>1, <1>6 DEF Borrow, TypeOK, MarketTerms
  <2>2. /\ terms' = terms /\ totalSupplied' = totalSupplied
        /\ totalBorrowed' = [totalBorrowed EXCEPT ![m] = @ + amount]
        /\ wallet[terms[m].asset][Pool] >= amount
        /\ wallet' = Moved(wallet, terms[m].asset, Pool, u, amount)
    BY <1>6 DEF Borrow, adminVars, Transfer
  <2>3. /\ Cash' = [Cash EXCEPT ![terms[m].asset] = @ - amount]
        /\ amount <= Cash[terms[m].asset]
    <3>1. Cash' = [Cash EXCEPT ![terms[m].asset] = @ - amount]
      BY <1>0, <2>1, <2>2, CashPaid
    <3>2. amount <= Cash[terms[m].asset]
      BY <2>1, <2>2 DEF Cash
    <3>3. QED BY <3>1, <3>2
  <2>4. Loans' = [Loans EXCEPT ![terms[m].asset] = @ + amount]
    BY <1>0, <1>2, <2>1, <2>2, LoansRaised
  <2>5. Claims' = Claims
    BY <2>2, SumsPrimed
  <2>6. Vaults!Lend(terms[m].asset, amount)
    BY <2>3, <2>4, <2>5 DEF Vaults!Lend, Cash, Sums
  <2>7. QED BY <2>1, <2>6 DEF Vaults!VaultNext
<1>7. ASSUME NEW u \in Users, NEW m \in Markets, NEW amount \in Amounts,
             Repay(u, m, amount)
      PROVE  Vaults!VaultNext
  <2>1. PICK paid \in Nat :
          /\ paid <= amount /\ paid <= borrowed[m][u]
          /\ m \in Listed /\ terms[m].asset \in Assets
          /\ wallet' = Moved(wallet, terms[m].asset, u, Pool, paid)
          /\ totalBorrowed' = [totalBorrowed EXCEPT ![m] = @ - paid]
          /\ terms' = terms /\ totalSupplied' = totalSupplied
    BY <1>0, <1>7, RepaySteps DEF Transfer
  <2>2. paid \in Flows
    BY <1>1, <2>1
  <2>3. Cash' = [Cash EXCEPT ![terms[m].asset] = @ + paid]
    BY <1>0, <2>1, CashReceived
  <2>4. paid <= totalBorrowed[m]
    <3>1. borrowed[m][u] \in Nat /\ totalBorrowed[m] \in Nat
      BY <1>0, <1>2 DEF TypeOK
    <3>2. QED BY <1>2, <2>1, <3>1
  <2>5. /\ Loans' = [Loans EXCEPT ![terms[m].asset] = @ - paid]
        /\ paid <= Loans[terms[m].asset]
    BY <1>0, <1>2, <2>1, <2>4, LoansLowered
  <2>6. Claims' = Claims
    BY <2>1, SumsPrimed
  <2>7. Vaults!Collect(terms[m].asset, paid)
    BY <2>3, <2>5, <2>6 DEF Vaults!Collect, Cash, Sums
  <2>8. QED BY <2>1, <2>2, <2>7 DEF Vaults!VaultNext
<1>8. ASSUME NEW u \in Users, NEW m \in Markets, NEW amount \in Amounts,
             ComplianceClawback(u, m, amount)
      PROVE  Vaults!VaultNext
  <2>1. PICK clawed \in Nat :
          /\ clawed <= amount /\ clawed <= supplied[m][u]
          /\ m \in Listed /\ terms[m].asset \in Assets
          /\ totalSupplied' = [totalSupplied EXCEPT ![m] = @ - clawed]
          /\ terms' = terms /\ totalBorrowed' = totalBorrowed /\ wallet' = wallet
    BY <1>0, <1>8, ClawbackSteps
  <2>2. clawed \in Flows
    BY <1>1, <2>1
  <2>3. clawed <= totalSupplied[m]
    <3>1. supplied[m][u] \in Nat /\ totalSupplied[m] \in Nat
      BY <1>0, <1>2 DEF TypeOK
    <3>2. QED BY <1>2, <2>1, <3>1
  <2>4. /\ Claims' = [Claims EXCEPT ![terms[m].asset] = @ - clawed]
        /\ clawed <= Claims[terms[m].asset]
    BY <1>0, <1>2, <2>1, <2>3, ClaimsLowered
  <2>5. Loans' = Loans /\ Cash' = Cash
    BY <2>1, SumsPrimed DEF Cash
  <2>6. Vaults!Forfeit(terms[m].asset, clawed)
    BY <2>4, <2>5 DEF Vaults!Forfeit, Cash, Sums
  <2>7. QED BY <2>1, <2>2, <2>6 DEF Vaults!VaultNext
<1>9. ASSUME NEW l \in Users, NEW b \in Users, NEW d \in Markets,
             NEW c \in Markets, NEW repay \in Amounts,
             NEW reward \in Amounts \cup {0},
             LiquidatePosition(l, b, d, c, repay, reward)
      PROVE  Vaults!VaultNext
  <2> DEFINE owed == terms[d].asset
             held == terms[c].asset
  <2>1. PICK paid, seized \in Nat :
          /\ paid <= repay /\ paid <= borrowed[d][b]
          /\ seized <= reward /\ seized <= supplied[c][b]
          /\ d \in Listed /\ c \in Listed
          /\ owed \in Assets /\ held \in Assets
          /\ totalBorrowed' = [totalBorrowed EXCEPT ![d] = @ - paid]
          /\ totalSupplied' = [totalSupplied EXCEPT ![c] = @ - seized]
          /\ wallet[owed][l] >= paid
          /\ Moved(wallet, owed, l, Pool, paid)[held][Pool] >= seized
          /\ wallet' = Moved(Moved(wallet, owed, l, Pool, paid), held, Pool, l, seized)
          /\ terms' = terms
    <3>1. QED BY ONLY <1>0, <1>9, LiquidationSteps
  <2>2. paid \in Flows /\ seized \in Flows
    BY <1>1, <2>1
  <2>3. /\ seized <= Cash[held] + IF held = owed THEN paid ELSE 0
        /\ Cash' = [a \in Assets |->
             Cash[a] + (IF a = owed THEN paid ELSE 0) - (IF a = held THEN seized ELSE 0)]
    <3> HIDE DEF owed, held
    <3>1. QED BY <1>0, <2>1, CashSettled
  <2>4. paid <= totalBorrowed[d] /\ seized <= totalSupplied[c]
    <3>1. /\ borrowed[d][b] \in Nat /\ totalBorrowed[d] \in Nat
          /\ supplied[c][b] \in Nat /\ totalSupplied[c] \in Nat
      BY <1>0, <1>2 DEF TypeOK
    <3>2. borrowed[d][b] <= totalBorrowed[d] /\ supplied[c][b] <= totalSupplied[c]
      BY <1>2
    <3>3. paid <= borrowed[d][b] /\ seized <= supplied[c][b]
      BY <2>1
    <3>4. QED BY <3>1, <3>2, <3>3
  <2>5. Claims' = [Claims EXCEPT ![held] = @ - seized] /\ seized <= Claims[held]
    BY <1>0, <1>2, <2>1, <2>4, ClaimsLowered
  <2>6. Loans' = [Loans EXCEPT ![owed] = @ - paid] /\ paid <= Loans[owed]
    BY <1>0, <1>2, <2>1, <2>4, LoansLowered
  <2>7. Vaults!Settle(owed, paid, held, seized)
    <3> HIDE DEF owed, held
    <3>1. QED BY <2>3, <2>5, <2>6 DEF Vaults!Settle, Cash, Sums
  <2>8. QED
    <3> HIDE DEF owed, held
    <3>1. QED BY <2>1, <2>2, <2>7 DEF Vaults!VaultNext
<1>10. ASSUME NEW m \in Markets, NEW t \in Listings[m], CreateMarket(m, t)
       PROVE  UNCHANGED Vaults!vaultVars
  <2>1. /\ m \notin Listed /\ Listed' = Listed \cup {m} /\ wallet' = wallet
        /\ \A n \in Listed : terms'[n] = terms[n]
        /\ totalSupplied' = [totalSupplied EXCEPT ![m] = 0]
        /\ totalBorrowed' = [totalBorrowed EXCEPT ![m] = 0]
    BY <1>10 DEF CreateMarket, Listed
  <2>2. ASSUME NEW a \in Assets
        PROVE  /\ Total(totalSupplied', MarketsOf(a)') = Total(totalSupplied, MarketsOf(a))
               /\ Total(totalBorrowed', MarketsOf(a)') = Total(totalBorrowed, MarketsOf(a))
    <3> DEFINE S == MarketsOf(a)  T == MarketsOf(a)'
    <3>1. S \subseteq T /\ T \subseteq S \cup {m} /\ S \subseteq Listed
      BY <2>1 DEF MarketsOf
    <3>2. /\ \A n \in S : totalSupplied[n] = totalSupplied'[n]
          /\ \A n \in T \ S : totalSupplied'[n] = 0
          /\ \A n \in S : totalBorrowed[n] = totalBorrowed'[n]
          /\ \A n \in T \ S : totalBorrowed'[n] = 0
      BY <1>0, <2>1, <3>1 DEF TypeOK
    <3> HIDE DEF S, T
    <3>3. Total(totalSupplied', T) = Total(totalSupplied, S)
      BY <3>1, <3>2, TotalExtend
    <3>4. Total(totalBorrowed', T) = Total(totalBorrowed, S)
      BY <3>1, <3>2, TotalExtend
    <3>5. QED BY <3>3, <3>4 DEF S, T
  <2>3. Claims' = Claims /\ Loans' = Loans
    BY <2>2 DEF Sums
  <2>4. Cash' = Cash
    BY <2>1 DEF Cash
  <2>5. QED BY <1>3, <2>3, <2>4
<1>11. ASSUME UNCHANGED <<terms, totalSupplied, totalBorrowed, wallet>>
       PROVE  UNCHANGED Vaults!vaultVars
  BY <1>3, <1>11, SumsPrimed DEF Cash
<1>12. CASE AdminStep
  BY <1>10, <1>11, <1>12
  DEF AdminStep, Initialize, SetDependency, PauseMarket, ResumeMarket, bookVars
<1>13. CASE UserStep \/ ContractStep
  BY <1>4, <1>5, <1>6, <1>7, <1>8, <1>9, <1>13 DEF UserStep, ContractStep
<1>14. CASE EnvironmentStep \/ UNCHANGED vars
  BY <1>11, <1>14
  DEF EnvironmentStep, OraclePriceMoves, ComplianceGateMoves, adminVars,
      bookVars, vars
<1>15. QED BY <1>12, <1>13, <1>14 DEF Next

LEMMA VaultsInitially == Init => Vaults!VaultInit
<1> SUFFICES ASSUME Init PROVE Vaults!VaultInit
  OBVIOUS
<1>1. \A a \in Assets : wallet[a][Pool] = 0
  BY DEF Init, Accounts
<1>2. \A a \in Assets : MarketsOf(a) = {}
  BY DEF Init, MarketsOf, Listed
<1>3. \A a \in Assets : /\ Total(totalSupplied, MarketsOf(a)) = 0
                       /\ Total(totalBorrowed, MarketsOf(a)) = 0
  BY <1>2, TotalZero
<1>4. QED BY <1>1, <1>3 DEF Vaults!VaultInit

-----------------------------------------------------------------------------
(***************************************************************************)
(* What the vaults promise: their claims are covered.                      *)
(***************************************************************************)
LEMMA CoveredInit == Vaults!VaultInit => Vaults!VaultTypeOK /\ Vaults!Covered
BY DEF Vaults!VaultInit, Vaults!VaultTypeOK, Vaults!Covered

\* VaultTypeOK and Covered, of any three functions.
Kept(cash, claims, loans) ==
  /\ cash \in [Assets -> Nat] /\ claims \in [Assets -> Nat] /\ loans \in [Assets -> Nat]
  /\ \A a \in Assets : claims[a] <= cash[a] + loans[a]

\* Every flow keeps the claims covered: a redemption or a loan is bounded by
\* the cash, a collection by the loans, a settlement by both.
LEMMA CoveredStep ==
  Vaults!VaultTypeOK /\ Vaults!Covered /\ [Vaults!VaultNext]_(Vaults!vaultVars)
    => Vaults!VaultTypeOK' /\ Vaults!Covered'
<1> DEFINE Claims == Sums(totalSupplied)
           Loans  == Sums(totalBorrowed)
<1>0. /\ Vaults!VaultTypeOK /\ Vaults!Covered <=> Kept(Cash, Claims, Loans)
      /\ Vaults!VaultTypeOK' /\ Vaults!Covered' <=> Kept(Cash, Claims, Loans)'
  BY DEF Vaults!VaultTypeOK, Vaults!Covered, Kept, Cash, Sums
<1> SUFFICES ASSUME Vaults!VaultTypeOK, Vaults!Covered, [Vaults!VaultNext]_(Vaults!vaultVars)
             PROVE  Kept(Cash, Claims, Loans)'
  BY <1>0
<1>1. Kept(Cash, Claims, Loans) /\ Flows \subseteq Nat
  BY <1>0, FlowsCoverAmounts
<1>2. ASSUME NEW a \in Assets, NEW x \in Flows, Vaults!Deposit(a, x)
      PROVE  Kept(Cash, Claims, Loans)'
  <2>1. /\ Cash' = [Cash EXCEPT ![a] = @ + x]
        /\ Claims' = [Claims EXCEPT ![a] = @ + x]
        /\ Loans' = Loans
    BY <1>2 DEF Vaults!Deposit, Cash, Sums
  <2>2. QED BY <1>1, <2>1 DEF Kept
<1>3. ASSUME NEW a \in Assets, NEW x \in Flows, Vaults!Redeem(a, x)
      PROVE  Kept(Cash, Claims, Loans)'
  <2>1. /\ Cash' = [Cash EXCEPT ![a] = @ - x]
        /\ Claims' = [Claims EXCEPT ![a] = @ - x]
        /\ Loans' = Loans
        /\ x <= Cash[a] /\ x <= Claims[a]
    BY <1>3 DEF Vaults!Redeem, Cash, Sums
  <2>2. QED BY <1>1, <2>1 DEF Kept
<1>4. ASSUME NEW a \in Assets, NEW x \in Flows, Vaults!Lend(a, x)
      PROVE  Kept(Cash, Claims, Loans)'
  <2>1. /\ Cash' = [Cash EXCEPT ![a] = @ - x]
        /\ Claims' = Claims
        /\ Loans' = [Loans EXCEPT ![a] = @ + x]
        /\ x <= Cash[a]
    BY <1>4 DEF Vaults!Lend, Cash, Sums
  <2>2. QED BY <1>1, <2>1 DEF Kept
<1>5. ASSUME NEW a \in Assets, NEW x \in Flows, Vaults!Collect(a, x)
      PROVE  Kept(Cash, Claims, Loans)'
  <2>1. /\ Cash' = [Cash EXCEPT ![a] = @ + x]
        /\ Claims' = Claims
        /\ Loans' = [Loans EXCEPT ![a] = @ - x]
        /\ x <= Loans[a]
    BY <1>5 DEF Vaults!Collect, Cash, Sums
  <2>2. QED BY <1>1, <2>1 DEF Kept
<1>6. ASSUME NEW a \in Assets, NEW x \in Flows, Vaults!Forfeit(a, x)
      PROVE  Kept(Cash, Claims, Loans)'
  <2>1. /\ Cash' = Cash
        /\ Claims' = [Claims EXCEPT ![a] = @ - x]
        /\ Loans' = Loans
        /\ x <= Claims[a]
    BY <1>6 DEF Vaults!Forfeit, Cash, Sums
  <2>2. QED BY <1>1, <2>1 DEF Kept
<1>7. ASSUME NEW d \in Assets, NEW c \in Assets, NEW x \in Flows, NEW y \in Flows, Vaults!Settle(d, x, c, y)
      PROVE  Kept(Cash, Claims, Loans)'
  <2>1. /\ Cash' = [a \in Assets |->
             Cash[a] + (IF a = d THEN x ELSE 0) - (IF a = c THEN y ELSE 0)]
        /\ Claims' = [Claims EXCEPT ![c] = @ - y]
        /\ Loans' = [Loans EXCEPT ![d] = @ - x]
        /\ x <= Loans[d] /\ y <= Claims[c] /\ y <= Cash[c] + IF c = d THEN x ELSE 0
    BY <1>7 DEF Vaults!Settle, Cash, Sums
  <2>2. QED BY <1>1, <2>1 DEF Kept
<1>8. CASE UNCHANGED Vaults!vaultVars
  BY <1>1, <1>8 DEF Vaults!vaultVars, Cash, Sums, Kept
<1>9. QED
  BY <1>2, <1>3, <1>4, <1>5, <1>6, <1>7, <1>8 DEF Vaults!VaultNext

\* Whatever the order of flows, every claim stays covered.
THEOREM VaultsCovered == Vaults!VaultSpec => []Vaults!Covered
<1>1. Vaults!VaultTypeOK /\ Vaults!Covered => Vaults!Covered
  OBVIOUS
<1>2. QED BY <1>1, CoveredInit, CoveredStep, PTL DEF Vaults!VaultSpec

\* The Core Pool implements the asset vaults: whatever sequence of calls the
\* contract accepts, tokens, claims and debts of an asset only move together.
THEOREM PoolImplementsVaults == Spec => ImplementsVaults
<1>1. QED
  BY VaultsInitially, VaultStep, BooksAgree, PTL
  DEF Spec, ImplementsVaults, Vaults!VaultSpec

\* Every supplier's claim is covered by the tokens the pool holds and the debts
\* owed to it: what the vaults promise, read on the pool.
THEOREM ClaimsAlwaysCovered == Spec => []ClaimsCovered
<1>1. Vaults!Covered => ClaimsCovered
  BY DEF Vaults!Covered, ClaimsCovered
<1>2. QED BY <1>1, VaultsCovered, PoolImplementsVaults, PTL DEF ImplementsVaults

-----------------------------------------------------------------------------
(* The Liquidation Engine. *)

\* The discount is at most its end value, whatever time has passed.
LEMMA DiscountBound ==
  ASSUME NEW elapsed \in Nat
  PROVE  Discount(elapsed) \in 0..MaxDiscount
<1>1. Least(elapsed, MaxLedgers) \in 0..100
  BY DEF Least, MaxLedgers
<1>2. QED BY <1>1 DEF Discount, MaxLedgers, MaxDiscount

\* Division rounds down.
LEMMA Quotient ==
  ASSUME NEW x \in Nat, NEW y \in Nat \ {0}
  PROVE  x \div y \in Nat /\ (x \div y) * y <= x
OBVIOUS

\* Multiplying by a natural keeps the order.
LEMMA Scaled ==
  ASSUME NEW x \in Nat, NEW y \in Nat, NEW k \in Nat, x <= y
  PROVE  x * k \in Nat /\ y * k \in Nat /\ x * k <= y * k
OBVIOUS

LEMMA Unscaled ==
  ASSUME NEW x \in Nat, NEW y \in Nat, NEW k \in Nat \ {0}, x * k <= y * k
  PROVE  x <= y
OBVIOUS

\* A fill earns at most 1.1 times its part of the recorded collateral.
LEMMA RewardBound ==
  ASSUME NEW auction \in AuctionRecord, auction.debt > 0, NEW amount \in Nat,
         sequence \in Nat, auction.startLedger <= sequence
  PROVE  /\ Reward(auction, amount) \in Nat
         /\ Reward(auction, amount) <= auction.collateral
         /\ Reward(auction, amount) * auction.debt * 10
              <= amount * auction.collateral * 11
<1> DEFINE c == auction.collateral
           d == auction.debt
           f == BPS + Discount(sequence - auction.startLedger)
           part == (amount * c) \div d
           raised == (part * f) \div BPS
<1>1. c \in Nat /\ d \in Nat \ {0} /\ f \in Nat /\ f <= 11000
  <2>1. c \in Nat /\ d \in Nat \ {0} /\ auction.startLedger \in Nat
    BY DEF AuctionRecord
  <2>2. sequence - auction.startLedger \in Nat
    BY <2>1
  <2>3. Discount(sequence - auction.startLedger) \in 0..1000
    BY <2>2, DiscountBound DEF MaxDiscount
  <2>4. QED BY <2>1, <2>3 DEF BPS
<1>2. Reward(auction, amount) = Least(raised, c)
  BY DEF Reward
<1> HIDE DEF c, d, f
<1>3. amount * c \in Nat
  BY <1>1
<1>4. part \in Nat /\ part * d <= amount * c
  BY <1>1, <1>3, Quotient
<1> HIDE DEF part
<1>5. part * f \in Nat /\ part * f <= part * 11000
  BY <1>1, <1>4, Scaled
<1>6. raised \in Nat /\ raised * 10000 <= part * f
  BY <1>5, Quotient DEF BPS
<1> HIDE DEF raised
<1>7. raised * 10 <= part * 11
  BY <1>4, <1>5, <1>6
<1>8. raised * 10 * d <= part * 11 * d
  BY <1>1, <1>4, <1>6, <1>7, Scaled
<1>9. part * d * 11 <= amount * c * 11
  BY <1>1, <1>3, <1>4, Scaled
<1>10. raised * d * 10 <= amount * c * 11
  BY <1>1, <1>3, <1>4, <1>6, <1>8, <1>9
<1>11. /\ Least(raised, c) \in Nat /\ Least(raised, c) <= c
       /\ Least(raised, c) <= raised
  BY <1>1, <1>6 DEF Least
<1>12. Least(raised, c) * d * 10 <= raised * d * 10
  <2>1. Least(raised, c) * d <= raised * d
    BY <1>1, <1>6, <1>11, Scaled
  <2>2. QED BY <1>1, <1>6, <1>11, <2>1, Scaled
<1>13. Least(raised, c) * d * 10 <= amount * c * 11
  <2>1. /\ Least(raised, c) * d * 10 \in Nat /\ raised * d * 10 \in Nat
        /\ amount * c * 11 \in Nat
    BY <1>1, <1>3, <1>6, <1>11
  <2>2. QED BY <1>10, <1>12, <2>1
<1>14. QED BY <1>2, <1>11, <1>13 DEF c, d

\* The arithmetic of a fill.  From a record that opened with C and D, k and p
\* are gone; a fill pays a and earns r, at most 1.1 times its part of what is
\* left.  Then what is gone stays within 1.1 times its part.
LEMMA CapKept ==
  ASSUME NEW C \in Nat, NEW D \in Nat, NEW c \in Nat, NEW d \in Nat,
         NEW a \in Nat, NEW r \in Nat,
         c <= C, d <= D, 0 < d, a <= d, r <= c,
         (C - c) * D * 10 <= (D - d) * C * 11,
         r * d * 10 <= a * c * 11
  PROVE  (C - (c - r)) * D * 10 <= (D - (d - a)) * C * 11
<1>1. CASE 11 * a > 10 * d
  <2>1. C - (c - r) \in Nat /\ C - (c - r) <= C
    OBVIOUS
  <2>2. (C - (c - r)) * D <= C * D
    BY <2>1, Scaled
  <2>3. D * 10 <= (D - (d - a)) * 11
    BY <1>1
  <2>4. D * 10 * C <= (D - (d - a)) * 11 * C
    BY <2>3, Scaled
  <2>5. QED BY <2>2, <2>4
<1>2. CASE 11 * a <= 10 * d
  <2> DEFINE x == (C - c) * D
             y == (D - d) * C
             e == 10 * d - 11 * a
             taken == (C - (c - r)) * D * 10
             limit == (D - (d - a)) * C * 11
  <2>1. /\ C - c \in Nat /\ D - d \in Nat /\ e \in Nat /\ d - a \in Nat
        /\ C - (c - r) \in Nat /\ D - (d - a) \in Nat
    BY <1>2
  <2>2. x \in Nat /\ y \in Nat /\ taken \in Nat /\ limit \in Nat
    BY <2>1
  <2>3. x * 10 * e <= y * 11 * (10 * (d - a))
    <3>1. x * 10 * e <= y * 11 * e
      BY <2>1, <2>2, Scaled
    <3>2. e * (y * 11) <= (10 * (d - a)) * (y * 11)
      <4>1. e <= 10 * (d - a)
        BY <2>1
      <4>2. y * 11 \in Nat /\ 10 * (d - a) \in Nat
        BY <2>1, <2>2
      <4>3. QED BY ONLY <2>1, <4>1, <4>2, Scaled
    <3>3. QED BY <2>1, <2>2, <3>1, <3>2
  <2>4. x * e <= y * 11 * (d - a)
    BY <2>1, <2>2, <2>3
  <2>5. r * d * 10 * D <= a * c * 11 * D
    BY Scaled
  <2>6. taken * d = x * 10 * d + r * d * 10 * D
    BY <2>1
  <2>7. a * c * 11 * D = a * C * D * 11 - a * x * 11
    BY <2>1
  <2>8. limit * d = y * 11 * (d - a) + a * C * D * 11
    BY <2>1
  <2>9. x * 10 * d - a * x * 11 = x * e
    BY <2>1
  <2>10. taken * d <= limit * d
    <3>1. /\ x * 10 * d \in Int /\ r * d * 10 * D \in Int /\ a * c * 11 * D \in Int
          /\ a * C * D * 11 \in Int /\ a * x * 11 \in Int /\ x * e \in Int
          /\ y * 11 * (d - a) \in Int
      BY <2>1, <2>2
    <3>2. QED BY ONLY <2>4, <2>5, <2>6, <2>7, <2>8, <2>9, <3>1
  <2>11. taken <= limit
    BY ONLY <2>2, <2>10, d \in Nat \ {0}, Unscaled
  <2>12. QED BY <2>11
<1>3. QED BY <1>1, <1>2

-----------------------------------------------------------------------------
\* The typing of one auction and of what it opened with.
LEMMA RecordTypes ==
  ASSUME EngineTypeOK, NEW id \in DOMAIN auctions
  PROVE  /\ auctions[id] \in AuctionRecord
         /\ opening[id] \in OpeningRecord
         /\ DOMAIN auctions = 1..Len(auctions) /\ DOMAIN opening = DOMAIN auctions
         /\ auctions[id].debt \in Nat /\ auctions[id].collateral \in Nat
         /\ auctions[id].startLedger \in Nat /\ auctions[id].user \in Users
         /\ auctions[id].debtMarket \in Markets /\ auctions[id].collateralMarket \in Markets
         /\ opening[id].debt \in Nat /\ opening[id].collateral \in Nat
<1>1. /\ DOMAIN auctions = 1..Len(auctions) /\ DOMAIN opening = DOMAIN auctions
      /\ auctions[id] \in AuctionRecord
      /\ opening[id] \in OpeningRecord
  <2>1. /\ auctions \in Seq(AuctionRecord) /\ Len(opening) = Len(auctions)
        /\ opening \in Seq(OpeningRecord)
    BY DEF EngineTypeOK
  <2>2. DOMAIN auctions = 1..Len(auctions) /\ DOMAIN opening = 1..Len(opening)
    BY <2>1
  <2>3. auctions[id] \in AuctionRecord
    BY <2>1
  <2>4. opening[id] \in OpeningRecord
    BY <2>1, <2>2
  <2>5. QED BY <2>1, <2>2, <2>3, <2>4
<1>2. QED BY <1>1 DEF AuctionRecord, OpeningRecord

\* What a fill does to the record it fills, and what it asks of the pool.
LEMMA FillSteps ==
  ASSUME RecordsInv, NEW l \in Users, NEW id \in DOMAIN auctions,
         NEW amount \in FillAmounts, FillAuction(l, id, amount)
  PROVE  \E reward \in Nat :
           /\ amount \in Nat /\ amount <= auctions[id].debt /\ auctions[id].debt > 0
           /\ amount \in Amounts /\ reward \in Amounts \cup {0}
           /\ reward <= auctions[id].collateral
           /\ reward * auctions[id].debt * 10 <= amount * auctions[id].collateral * 11
           /\ LiquidatePosition(l, auctions[id].user, auctions[id].debtMarket,
                                auctions[id].collateralMarket, amount, reward)
           /\ auctions' = [auctions EXCEPT ![id] =
                [auctions[id] EXCEPT
                   !.debt = auctions[id].debt - amount,
                   !.collateral = auctions[id].collateral - reward,
                   !.active = /\ auctions[id].debt - amount > 0
                              /\ auctions[id].collateral - reward > 0]]
           /\ UNCHANGED <<corePool, sequence, opening>>
<1> DEFINE reward == Reward(auctions[id], amount)
<1>1. EngineTypeOK /\ OpenWhileBothLeft /\ RecordsFall
  BY DEF RecordsInv
<1>2. amount \in Nat /\ amount \in Amounts
  BY EngineAssumption, AmountsAssumption
<1>3. auctions[id] \in AuctionRecord /\ sequence \in Nat
  BY <1>1, RecordTypes DEF EngineTypeOK
<1>4. auctions[id].debt > 0 /\ auctions[id].startLedger <= sequence
  BY <1>1 DEF FillAuction, OpenWhileBothLeft, RecordsFall
<1>5. /\ reward \in Nat /\ reward <= auctions[id].collateral
      /\ reward * auctions[id].debt * 10 <= amount * auctions[id].collateral * 11
  BY ONLY <1>2, <1>3, <1>4, RewardBound
<1>6. /\ amount <= auctions[id].debt
      /\ reward \in Amounts \cup {0}
      /\ LiquidatePosition(l, auctions[id].user, auctions[id].debtMarket,
                           auctions[id].collateralMarket, amount, reward)
      /\ auctions' = [auctions EXCEPT ![id] =
           [auctions[id] EXCEPT
              !.debt = auctions[id].debt - amount,
              !.collateral = auctions[id].collateral - reward,
              !.active = /\ auctions[id].debt - amount > 0
                         /\ auctions[id].collateral - reward > 0]]
      /\ UNCHANGED <<corePool, sequence, opening>>
  BY DEF FillAuction
<1> HIDE DEF reward
<1>7. QED BY <1>2, <1>4, <1>5, <1>6

-----------------------------------------------------------------------------
LEMMA RecordsInit == EngineInit => RecordsInv
<1> SUFFICES ASSUME EngineInit PROVE RecordsInv
  OBVIOUS
<1>1. auctions = <<>> /\ opening = <<>> /\ corePool = FALSE /\ sequence = 0
  BY DEF EngineInit
<1>2. DOMAIN auctions = {}
  BY <1>1
<1>3. EngineTypeOK
  <2>1. corePool \in BOOLEAN
    BY <1>1
  <2>2. /\ auctions \in Seq(AuctionRecord) /\ sequence \in Nat
        /\ opening \in Seq(OpeningRecord) /\ Len(opening) = Len(auctions)
    BY <1>1
  <2>3. QED BY <2>1, <2>2 DEF EngineTypeOK
<1>4. QED BY <1>2, <1>3 DEF RecordsInv, OpenWhileBothLeft, RecordsFall, DiscountCapped

\* A new auction records positive amounts and nothing is gone from it.
LEMMA CreateKeeps ==
  ASSUME TypeOK, RecordsInv, NEW b \in Users, NEW d \in Markets, NEW c \in Markets,
         CreateAuction(b, d, c)
  PROVE  RecordsInv'
<1> DEFINE debt == borrowed[d][b]
           collateral == supplied[c][b]
           start == [debt |-> debt, collateral |-> collateral]
           record == [user |-> b, debtMarket |-> d, collateralMarket |-> c,
                      debt |-> debt, collateral |-> collateral,
                      startLedger |-> sequence, active |-> TRUE]
<1>1. EngineTypeOK
  BY DEF RecordsInv
<1>2. debt \in Nat /\ collateral \in Nat /\ debt > 0 /\ collateral > 0
  BY DEF TypeOK, CreateAuction
<1>3. /\ auctions' = Append(auctions, record) /\ opening' = Append(opening, start)
      /\ corePool' = corePool /\ sequence' = sequence
  BY DEF CreateAuction
<1> HIDE DEF debt, collateral
<1>4. record \in AuctionRecord /\ start \in OpeningRecord
  BY <1>1, <1>2 DEF AuctionRecord, OpeningRecord, EngineTypeOK
<1>5. /\ record.debt = debt /\ record.collateral = collateral
      /\ record.startLedger = sequence /\ record.active = TRUE
      /\ start.debt = debt /\ start.collateral = collateral
  OBVIOUS
<1> HIDE DEF record, start
<1>6. EngineTypeOK'
  BY <1>1, <1>3, <1>4 DEF EngineTypeOK
<1>7. DOMAIN auctions' = DOMAIN auctions \cup {Len(auctions) + 1}
  BY <1>1, <1>3, <1>4 DEF EngineTypeOK
<1>8. ASSUME NEW id \in DOMAIN auctions
      PROVE  auctions'[id] = auctions[id] /\ opening'[id] = opening[id]
  BY <1>1, <1>3, <1>4 DEF EngineTypeOK
<1>9. auctions'[Len(auctions) + 1] = record /\ opening'[Len(auctions) + 1] = start
  BY <1>1, <1>3, <1>4 DEF EngineTypeOK
<1>10. OpenWhileBothLeft'
  BY <1>2, <1>5, <1>7, <1>8, <1>9 DEF OpenWhileBothLeft, RecordsInv
<1>11. RecordsFall'
  <2>1. sequence \in Nat
    BY <1>1 DEF EngineTypeOK
  <2>2. ASSUME NEW id \in DOMAIN auctions'
        PROVE  /\ auctions'[id].startLedger <= sequence'
               /\ opening'[id].collateral > 0
               /\ auctions'[id].debt <= opening'[id].debt
               /\ auctions'[id].collateral <= opening'[id].collateral
    <3>1. CASE id \in DOMAIN auctions
      BY <1>3, <1>8, <3>1 DEF RecordsFall, RecordsInv
    <3>2. CASE id = Len(auctions) + 1
      <4>1. auctions'[id] = record /\ opening'[id] = start
        BY <1>9, <3>2
      <4>2. record.startLedger <= sequence'
        BY <1>3, <1>5, <2>1
      <4>3. QED BY <1>2, <1>5, <4>1, <4>2
    <3>3. QED BY <1>7, <3>1, <3>2
  <2>3. QED BY <2>2 DEF RecordsFall
<1>12. DiscountCapped'
  <2>1. (debt - debt) * debt * BPS <= (collateral - collateral) * collateral * (BPS + MaxDiscount)
    BY <1>2 DEF BPS, MaxDiscount
  <2>2. ASSUME NEW id \in DOMAIN auctions'
        PROVE  (opening'[id].collateral - auctions'[id].collateral) * opening'[id].debt * BPS
                 <= (opening'[id].debt - auctions'[id].debt) * opening'[id].collateral
                      * (BPS + MaxDiscount)
    <3>1. CASE id \in DOMAIN auctions
      BY <1>8, <3>1 DEF DiscountCapped, RecordsInv
    <3>2. CASE id = Len(auctions) + 1
      BY <1>2, <1>5, <1>9, <3>2 DEF BPS, MaxDiscount
    <3>3. QED BY <1>7, <3>1, <3>2
  <2>3. QED BY <2>2 DEF DiscountCapped, BPS, MaxDiscount
<1>13. QED BY <1>6, <1>10, <1>11, <1>12 DEF RecordsInv

\* A fill lowers one record and keeps it within the discount.
LEMMA FillKeeps ==
  ASSUME RecordsInv, NEW l \in Users, NEW id \in DOMAIN auctions,
         NEW amount \in FillAmounts, FillAuction(l, id, amount)
  PROVE  RecordsInv'
<1>1. EngineTypeOK /\ OpenWhileBothLeft /\ RecordsFall /\ DiscountCapped
  BY DEF RecordsInv
<1>2. PICK reward \in Nat :
        /\ amount \in Nat /\ amount <= auctions[id].debt /\ auctions[id].debt > 0
        /\ reward <= auctions[id].collateral
        /\ reward * auctions[id].debt * 10 <= amount * auctions[id].collateral * 11
        /\ auctions' = [auctions EXCEPT ![id] =
             [auctions[id] EXCEPT
                !.debt = auctions[id].debt - amount,
                !.collateral = auctions[id].collateral - reward,
                !.active = /\ auctions[id].debt - amount > 0
                           /\ auctions[id].collateral - reward > 0]]
        /\ UNCHANGED <<corePool, sequence, opening>>
  BY FillSteps
<1> DEFINE debt == auctions[id].debt - amount
           collateral == auctions[id].collateral - reward
           record == [auctions[id] EXCEPT !.debt = debt, !.collateral = collateral,
                                          !.active = debt > 0 /\ collateral > 0]
<1>3. /\ auctions[id] \in AuctionRecord
      /\ DOMAIN auctions = 1..Len(auctions) /\ DOMAIN opening = DOMAIN auctions
      /\ auctions[id].debt \in Nat /\ auctions[id].collateral \in Nat
      /\ opening[id].debt \in Nat /\ opening[id].collateral \in Nat
  BY <1>1, RecordTypes
<1>4. debt \in Nat /\ collateral \in Nat
  <2>1. amount \in Nat /\ amount <= auctions[id].debt /\ reward <= auctions[id].collateral
    BY <1>2
  <2>2. QED BY ONLY <1>3, <2>1, reward \in Nat DEF debt, collateral
<1>5. /\ record \in AuctionRecord
      /\ record.debt = debt /\ record.collateral = collateral
      /\ record.startLedger = auctions[id].startLedger
  BY <1>3, <1>4 DEF AuctionRecord
<1>6. record.active = (debt > 0 /\ collateral > 0)
  BY <1>3 DEF AuctionRecord
<1>7. /\ auctions' = [auctions EXCEPT ![id] = record]
      /\ corePool' = corePool /\ sequence' = sequence /\ opening' = opening
  BY <1>2
<1> HIDE DEF debt, collateral, record
<1>8. /\ auctions' \in Seq(AuctionRecord) /\ Len(auctions') = Len(auctions)
      /\ DOMAIN auctions' = DOMAIN auctions /\ auctions'[id] = record
      /\ \A x \in DOMAIN auctions \ {id} : auctions'[x] = auctions[x]
  BY <1>1, <1>5, <1>7 DEF EngineTypeOK
<1>9. EngineTypeOK'
  BY <1>1, <1>7, <1>8 DEF EngineTypeOK
<1>10. OpenWhileBothLeft'
  <2>1. record.active <=> record.debt > 0 /\ record.collateral > 0
    BY <1>5, <1>6
  <2>2. QED BY <1>1, <1>8, <2>1 DEF OpenWhileBothLeft
<1>11. RecordsFall'
  <2>1. debt <= auctions[id].debt /\ collateral <= auctions[id].collateral
    BY <1>2, <1>3 DEF debt, collateral
  <2>2. /\ record.startLedger <= sequence /\ record.debt <= opening[id].debt
        /\ record.collateral <= opening[id].collateral
    BY <1>1, <1>3, <1>4, <1>5, <2>1 DEF RecordsFall
  <2>3. QED BY <1>1, <1>7, <1>8, <2>2 DEF RecordsFall
<1>12. DiscountCapped'
  <2>1. (opening[id].collateral - auctions[id].collateral) * opening[id].debt * 10
          <= (opening[id].debt - auctions[id].debt) * opening[id].collateral * 11
    <3>1. (opening[id].collateral - auctions[id].collateral) * opening[id].debt * 10000
            <= (opening[id].debt - auctions[id].debt) * opening[id].collateral * (10000 + 1000)
      BY <1>1 DEF DiscountCapped, BPS, MaxDiscount
    <3>2. /\ (opening[id].collateral - auctions[id].collateral) * opening[id].debt \in Int
          /\ (opening[id].debt - auctions[id].debt) * opening[id].collateral \in Int
      BY <1>3
    <3>3. QED BY ONLY <3>1, <3>2
  <2>2. auctions[id].debt <= opening[id].debt /\ auctions[id].collateral <= opening[id].collateral
    BY <1>1 DEF RecordsFall
  <2>3. (opening[id].collateral - collateral) * opening[id].debt * 10
          <= (opening[id].debt - debt) * opening[id].collateral * 11
    BY ONLY <1>2, <1>3, <2>1, <2>2, CapKept DEF debt, collateral
  <2>4. (opening[id].collateral - collateral) * opening[id].debt * BPS
          <= (opening[id].debt - debt) * opening[id].collateral * (BPS + MaxDiscount)
    <3>1. /\ (opening[id].collateral - collateral) * opening[id].debt \in Int
          /\ (opening[id].debt - debt) * opening[id].collateral \in Int
      BY <1>3, <1>4
    <3>2. QED BY ONLY <2>3, <3>1 DEF BPS, MaxDiscount
  <2>5. QED BY <1>1, <1>5, <1>7, <1>8, <2>4 DEF DiscountCapped, BPS, MaxDiscount
<1>13. QED BY <1>9, <1>10, <1>11, <1>12 DEF RecordsInv

\* The other steps leave the records alone.
LEMMA RecordsUntouched ==
  ASSUME RecordsInv, UNCHANGED <<corePool, auctions, opening>>,
         sequence' \in Nat, sequence <= sequence'
  PROVE  RecordsInv'
<1>1. auctions' = auctions /\ opening' = opening /\ corePool' = corePool
  OBVIOUS
<1>2. EngineTypeOK'
  BY <1>1 DEF RecordsInv, EngineTypeOK
<1>3. OpenWhileBothLeft' /\ DiscountCapped'
  BY <1>1 DEF RecordsInv, OpenWhileBothLeft, DiscountCapped, BPS, MaxDiscount
<1>4. RecordsFall'
  <2>1. ASSUME NEW id \in DOMAIN auctions
        PROVE  auctions[id].startLedger <= sequence'
    <3>1. auctions[id].startLedger \in Nat
      BY RecordTypes DEF RecordsInv
    <3>2. auctions[id].startLedger <= sequence /\ sequence \in Nat
      BY DEF RecordsInv, RecordsFall, EngineTypeOK
    <3>3. QED BY <3>1, <3>2
  <2>2. QED BY <1>1, <2>1 DEF RecordsInv, RecordsFall
<1>5. QED BY <1>2, <1>3, <1>4 DEF RecordsInv

\* A step of the whole is a step of the pool or leaves the pool alone.
LEMMA EngineStepIsPoolStep ==
  ASSUME RecordsInv, [EngineNext]_allVars
  PROVE  [Next]_vars
<1> USE EngineAssumption
<1>1. CASE PoolStep
  <2>1. CASE AdminStep
    BY <2>1 DEF Next
  <2>2. CASE EnvironmentStep
    BY <2>2 DEF Next
  <2>3. ASSUME NEW u \in Users, NEW m \in Markets, NEW amount \in CallAmounts,
               PoolCall(u, m, amount)
        PROVE  Next
    <3>1. amount \in Amounts
      OBVIOUS
    <3>2. UserStep \/ ContractStep
      BY <2>3, <3>1 DEF PoolCall, UserStep, ContractStep
    <3>3. QED BY <3>2 DEF Next
  <2>4. QED BY <1>1, <2>1, <2>2, <2>3 DEF PoolStep
<1>2. ASSUME NEW l \in Users, NEW id \in DOMAIN auctions, NEW amount \in FillAmounts,
             FillAuction(l, id, amount)
      PROVE  Next
  <2>1. PICK reward \in Nat :
          /\ amount \in Amounts /\ reward \in Amounts \cup {0}
          /\ LiquidatePosition(l, auctions[id].user, auctions[id].debtMarket,
                               auctions[id].collateralMarket, amount, reward)
    BY <1>2, FillSteps
  <2>2. /\ auctions[id].user \in Users /\ auctions[id].debtMarket \in Markets
        /\ auctions[id].collateralMarket \in Markets
    BY RecordTypes DEF RecordsInv
  <2>3. ContractStep
    BY ONLY <2>1, <2>2, l \in Users DEF ContractStep
  <2>4. QED BY <2>3 DEF Next
<1>3. CASE InitializeEngine
  BY <1>3 DEF InitializeEngine
<1>4. ASSUME NEW b \in Users, NEW d \in Markets, NEW c \in Markets, CreateAuction(b, d, c)
      PROVE  UNCHANGED vars
  BY <1>4 DEF CreateAuction
<1>5. ASSUME NEW n \in Ledgers, LedgersClose(n) PROVE UNCHANGED vars
  BY <1>5 DEF LedgersClose
<1>6. CASE UNCHANGED allVars
  BY <1>6 DEF allVars
<1>7. QED BY <1>1, <1>2, <1>3, <1>4, <1>5, <1>6 DEF EngineNext, EngineStep

\* Types of pool and engine and the engine's records, together inductive.
LEMMA EngineInvStep ==
  ASSUME TypeOK, RecordsInv, [EngineNext]_allVars
  PROVE  TypeOK' /\ RecordsInv'
<1>1. TypeOK'
  BY EngineStepIsPoolStep, TypeStep
<1>2. sequence \in Nat
  BY DEF RecordsInv, EngineTypeOK
<1>3. CASE PoolStep
  <2>1. UNCHANGED <<corePool, auctions, opening>> /\ sequence' = sequence
    BY <1>3 DEF PoolStep, engineVars
  <2>2. QED BY <1>1, <1>2, <2>1, RecordsUntouched
<1>4. CASE InitializeEngine
  <2>1. corePool' \in BOOLEAN
    <3>1. corePool' = TRUE
      BY <1>4 DEF InitializeEngine
    <3>2. QED BY ONLY <3>1
  <2>2. auctions' = auctions /\ opening' = opening /\ sequence' = sequence
    BY <1>4 DEF InitializeEngine
  <2>3. EngineTypeOK'
    BY <2>1, <2>2 DEF RecordsInv, EngineTypeOK
  <2>4. OpenWhileBothLeft' /\ DiscountCapped' /\ RecordsFall'
    BY <2>2 DEF RecordsInv, OpenWhileBothLeft, DiscountCapped, RecordsFall, BPS, MaxDiscount
  <2>5. QED BY <1>1, <2>3, <2>4 DEF RecordsInv
<1>5. ASSUME NEW b \in Users, NEW d \in Markets, NEW c \in Markets, CreateAuction(b, d, c)
      PROVE  RecordsInv'
  BY <1>5, CreateKeeps
<1>6. ASSUME NEW l \in Users, NEW id \in DOMAIN auctions, NEW amount \in FillAmounts,
             FillAuction(l, id, amount)
      PROVE  RecordsInv'
  BY <1>6, FillKeeps
<1>7. ASSUME NEW n \in Ledgers, LedgersClose(n) PROVE RecordsInv'
  <2>1. n \in Nat
    BY EngineAssumption
  <2>2. /\ UNCHANGED <<corePool, auctions, opening>>
        /\ sequence' \in Nat /\ sequence <= sequence'
    BY <1>2, <1>7, <2>1 DEF LedgersClose
  <2>3. QED BY <2>2, RecordsUntouched
<1>8. CASE UNCHANGED allVars
  <2>1. UNCHANGED <<corePool, auctions, opening>> /\ sequence' = sequence
    BY <1>8 DEF allVars, engineVars
  <2>2. QED BY <1>1, <1>2, <2>1, RecordsUntouched
<1>9. CASE EngineStep
  <2>1. RecordsInv'
    BY <1>4, <1>5, <1>6, <1>7, <1>9, Zenon DEF EngineStep
  <2>2. QED BY <1>1, <2>1
<1>10. RecordsInv'
  <2>1. PoolStep \/ EngineStep \/ UNCHANGED allVars
    BY DEF EngineNext
  <2>2. QED BY <1>3, <1>8, <1>9, <2>1
<1>11. QED BY <1>1, <1>10

LEMMA EngineInvInit == EngineInit => TypeOK /\ RecordsInv
<1>1. EngineInit => Init
  BY DEF EngineInit
<1>2. QED BY <1>1, TypeInit, RecordsInit

\* A fill on a debt that is still there is paid for.
LEMMA CurrentFillPays ==
  ASSUME TypeOK, RecordsInv, [EngineNext]_allVars, NEW id \in DOMAIN auctions, Filled(id),
         borrowed[auctions[id].debtMarket][auctions[id].user] >= auctions[id].debt
  PROVE  Seized(id) * auctions[id].debt * BPS
           <= Paid(id) * auctions[id].collateral * (BPS + MaxDiscount)
<1> DEFINE a == auctions[id]
           owed == borrowed[a.debtMarket][a.user]
           held == supplied[a.collateralMarket][a.user]
<1>1. EngineTypeOK
  BY DEF RecordsInv
<1>2. /\ a.user \in Users /\ a.debtMarket \in Markets /\ a.collateralMarket \in Markets
      /\ a.debt \in Nat /\ a.collateral \in Nat
  BY <1>1, RecordTypes
<1>3. owed \in Nat /\ held \in Nat
  BY <1>2 DEF TypeOK
<1>4. auctions'[id] # auctions[id]
  BY DEF Filled
<1>5. \E l \in Users, x \in DOMAIN auctions, amount \in FillAmounts : FillAuction(l, x, amount)
  <2>1. ~PoolStep /\ ~InitializeEngine /\ ~UNCHANGED allVars
    BY <1>4 DEF PoolStep, InitializeEngine, allVars, engineVars
  <2>2. \A n \in Ledgers : ~LedgersClose(n)
    BY <1>4 DEF LedgersClose
  <2>3. ASSUME NEW b \in Users, NEW d \in Markets, NEW c \in Markets, CreateAuction(b, d, c)
        PROVE  FALSE
    <3>1. PICK r \in AuctionRecord : auctions' = Append(auctions, r)
      <4>1. /\ supplied[c][b] \in Nat /\ borrowed[d][b] \in Nat /\ sequence \in Nat
        BY <1>1 DEF TypeOK, EngineTypeOK
      <4>2. [user |-> b, debtMarket |-> d, collateralMarket |-> c,
             debt |-> borrowed[d][b], collateral |-> supplied[c][b],
             startLedger |-> sequence, active |-> TRUE] \in AuctionRecord
        BY <4>1 DEF AuctionRecord
      <4>3. QED BY <2>3, <4>2 DEF CreateAuction
    <3>2. auctions'[id] = auctions[id]
      BY <1>1, <3>1 DEF EngineTypeOK
    <3>3. QED BY <1>4, <3>2
  <2>4. QED BY <2>1, <2>2, <2>3 DEF EngineNext, EngineStep
<1>6. PICK l \in Users, x \in DOMAIN auctions, amount \in FillAmounts : FillAuction(l, x, amount)
  BY <1>5
<1>7. x = id
  BY <1>1, <1>4, <1>6 DEF FillAuction, EngineTypeOK
<1>8. PICK reward \in Nat :
        /\ amount \in Nat /\ amount <= a.debt
        /\ reward * a.debt * 10 <= amount * a.collateral * 11
        /\ LiquidatePosition(l, a.user, a.debtMarket, a.collateralMarket, amount, reward)
  BY <1>6, <1>7, FillSteps
<1>9. /\ borrowed' = Minus(borrowed, a.debtMarket, a.user, Least(amount, owed))
      /\ supplied' = Minus(supplied, a.collateralMarket, a.user, Least(reward, held))
  BY <1>8 DEF LiquidatePosition
<1> HIDE DEF a, owed, held
<1>10. Least(amount, owed) = amount /\ Least(reward, held) \in Nat /\ Least(reward, held) <= reward
  <2>1. owed >= a.debt
    BY DEF a, owed
  <2>2. QED BY <1>2, <1>3, <1>8, <2>1 DEF Least
<1>11. Paid(id) = amount /\ Seized(id) = Least(reward, held)
  <2>1. /\ borrowed'[a.debtMarket][a.user] = owed - amount
        /\ supplied'[a.collateralMarket][a.user] = held - Least(reward, held)
    BY <1>2, <1>9, <1>10 DEF Minus, TypeOK, owed, held
  <2>2. Paid(id) = owed - borrowed'[a.debtMarket][a.user]
    BY DEF Paid, a, owed
  <2>3. Seized(id) = held - supplied'[a.collateralMarket][a.user]
    BY DEF Seized, a, held
  <2>4. QED BY <1>3, <1>8, <1>10, <2>1, <2>2, <2>3
<1>12. Least(reward, held) * a.debt * 10 <= amount * a.collateral * 11
  <2>1. Least(reward, held) * a.debt <= reward * a.debt
    BY <1>2, <1>10, Scaled
  <2>2. /\ Least(reward, held) * a.debt \in Nat /\ reward * a.debt \in Nat
        /\ amount * a.collateral \in Nat
    BY <1>2, <1>8, <1>10
  <2>3. QED BY ONLY <1>8, <2>1, <2>2
<1>13. Seized(id) * a.debt * 10000 <= Paid(id) * a.collateral * 11000
  <2>1. Seized(id) * a.debt \in Nat /\ Paid(id) * a.collateral \in Nat
    BY <1>2, <1>8, <1>10, <1>11
  <2>2. Seized(id) * a.debt * 10 <= Paid(id) * a.collateral * 11
    BY <1>11, <1>12
  <2>3. QED BY ONLY <2>1, <2>2
<1>14. QED BY <1>13 DEF a, BPS, MaxDiscount

-----------------------------------------------------------------------------
\* The pool beside the engine behaves as the pool's specification says: every
\* settlement is a liquidate_position of amounts the pool was checked with.
THEOREM EngineImplementsPool == EngineSpec => ImplementsPool
<1>1. EngineInit => Init
  BY DEF EngineInit
<1>2. EngineInit => TypeOK /\ RecordsInv
  BY EngineInvInit
<1>3. TypeOK /\ RecordsInv /\ [EngineNext]_allVars => (TypeOK /\ RecordsInv)'
  BY EngineInvStep
<1>4. TypeOK /\ RecordsInv /\ [EngineNext]_allVars => [Next]_vars
  BY EngineStepIsPoolStep
<1>5. QED BY <1>1, <1>2, <1>3, <1>4, PTL DEF EngineSpec, ImplementsPool, Spec

\* The engine's records keep their types beside any pool: no amount in them ever
\* becomes negative.
THEOREM EngineTypes == EngineSpec => []EngineTypeOK
<1>1. EngineInit => TypeOK /\ RecordsInv
  BY EngineInvInit
<1>2. TypeOK /\ RecordsInv /\ [EngineNext]_allVars => (TypeOK /\ RecordsInv)'
  BY EngineInvStep
<1>3. RecordsInv => EngineTypeOK
  BY DEF RecordsInv
<1>4. QED BY <1>1, <1>2, <1>3, PTL DEF EngineSpec

\* However an auction is filled in parts, and whenever, the part of its
\* collateral that is gone is at most 1.1 times the part of its debt that is.
THEOREM DiscountAlwaysCapped == EngineSpec => []DiscountCapped
<1>1. EngineInit => TypeOK /\ RecordsInv
  BY EngineInvInit
<1>2. TypeOK /\ RecordsInv /\ [EngineNext]_allVars => (TypeOK /\ RecordsInv)'
  BY EngineInvStep
<1>3. RecordsInv => DiscountCapped
  BY DEF RecordsInv
<1>4. QED BY <1>1, <1>2, <1>3, PTL DEF EngineSpec

\* When all of C is gone for D - d of the debt D, within the discount, then d is
\* at most an eleventh of D.
LEMMA EleventhLeft ==
  ASSUME NEW C \in Nat, NEW D \in Nat, NEW d \in Nat, C > 0,
         C * D * 10 <= (D - d) * C * 11
  PROVE  d * 11 <= D
<1>1. C * (10 * D) <= C * (11 * (D - d))
  OBVIOUS
<1>2. ASSUME NEW x \in Int, NEW y \in Int, C * x <= C * y PROVE x <= y
  <2>1. SUFFICES ASSUME x > y PROVE FALSE
    BY <1>2
  <2>2. C * (x - y) > 0
    BY <2>1
  <2>3. C * (x - y) = C * x - C * y
    OBVIOUS
  <2>4. QED BY <1>2, <2>2, <2>3
<1>3. 10 * D <= 11 * (D - d)
  BY <1>1, <1>2
<1>4. QED BY <1>3

\* Whatever the fills, an auction that is closed, and so can be neither filled
\* nor finalized, leaves at most an eleventh of its debt unpaid.
THEOREM LittleIsStranded == EngineSpec => []StrandsAtMostAnEleventh
<1>1. EngineInit => TypeOK /\ RecordsInv
  BY EngineInvInit
<1>2. TypeOK /\ RecordsInv /\ [EngineNext]_allVars => (TypeOK /\ RecordsInv)'
  BY EngineInvStep
<1>3. RecordsInv => StrandsAtMostAnEleventh
  <2> SUFFICES ASSUME RecordsInv, NEW id \in DOMAIN auctions, ~auctions[id].active
               PROVE  auctions[id].debt * (BPS + MaxDiscount) <= opening[id].debt * MaxDiscount
    BY DEF StrandsAtMostAnEleventh
  <2> DEFINE debt == auctions[id].debt
             C == opening[id].collateral
             D == opening[id].debt
  <2>1. /\ debt \in Nat /\ auctions[id].collateral \in Nat /\ C \in Nat /\ D \in Nat
    BY RecordTypes DEF RecordsInv
  <2>2. C > 0 /\ (debt = 0 \/ auctions[id].collateral = 0)
    BY <2>1 DEF RecordsInv, RecordsFall, OpenWhileBothLeft
  <2>3. (C - auctions[id].collateral) * D * BPS <= (D - debt) * C * (BPS + MaxDiscount)
    BY DEF RecordsInv, DiscountCapped, BPS, MaxDiscount
  <2> HIDE DEF debt, C, D
  <2>4. debt * 11 <= D
    <3>1. CASE debt = 0
      BY <2>1, <3>1
    <3>2. CASE auctions[id].collateral = 0
      <4>1. C * D * 10000 <= (D - debt) * C * 11000
        BY <2>1, <2>3, <3>2 DEF BPS, MaxDiscount
      <4>2. C * D \in Int /\ (D - debt) * C \in Int
        BY <2>1
      <4>3. C * D * 10 <= (D - debt) * C * 11
        BY ONLY <4>1, <4>2
      <4>4. QED BY ONLY <2>1, <2>2, <4>3, EleventhLeft
    <3>3. QED BY <2>2, <3>1, <3>2
  <2>5. debt * (BPS + MaxDiscount) <= D * MaxDiscount
    BY <2>1, <2>4 DEF BPS, MaxDiscount
  <2>6. QED BY <2>5 DEF debt, D
<1>4. QED BY <1>1, <1>2, <1>3, PTL DEF EngineSpec

\* A fill takes collateral only against payment at the recorded ratio, while
\* the borrower still owes the recorded debt.
THEOREM CurrentFillsAlwaysPay == EngineSpec => CurrentFillsPay
<1>1. EngineInit => TypeOK /\ RecordsInv
  BY EngineInvInit
<1>2. TypeOK /\ RecordsInv /\ [EngineNext]_allVars => (TypeOK /\ RecordsInv)'
  BY EngineInvStep
<1>3. TypeOK /\ RecordsInv /\ [EngineNext]_allVars =>
        [\A id \in DOMAIN auctions :
           /\ Filled(id)
           /\ borrowed[auctions[id].debtMarket][auctions[id].user] >= auctions[id].debt
           => Seized(id) * auctions[id].debt * BPS
                <= Paid(id) * auctions[id].collateral * (BPS + MaxDiscount)]_allVars
  BY CurrentFillPays
<1>4. QED BY <1>1, <1>2, <1>3, PTL DEF EngineSpec, CurrentFillsPay

\* What the pool's theorems say holds beside the engine too.
THEOREM BooksHoldBesideEngine == EngineSpec => [](TotalsMatch /\ DebtCeilingHeld)
<1>1. EngineSpec => Spec
  BY EngineImplementsPool DEF ImplementsPool
<1>2. QED BY <1>1, TotalsAlwaysMatch, DebtCeilingAlwaysHeld, PTL
=============================================================================
