--------------------------- MODULE BackstopProofs ---------------------------
(***************************************************************************)
(* Proofs about the Backstop.  CapitalInv is inductive as it stands: each  *)
(* handler moves one user's balance or request and the pool's balance and  *)
(* the contract's tokens with it, and SumsChange carries the sums.         *)
(***************************************************************************)
EXTENDS Backstop, TallyProofs

\* What a transfer leaves, for two different accounts.
LEMMA TransferMoves ==
  ASSUME TypeOK, NEW from \in Accounts, NEW to \in Accounts, from # to,
         NEW amount \in Nat, Transfer(from, to, amount)
  PROVE  /\ wallet' \in [Accounts -> Nat]
         /\ wallet'[from] = wallet[from] - amount
         /\ wallet'[to] = wallet[to] + amount
         /\ \A x \in Accounts \ {from, to} : wallet'[x] = wallet[x]
<1>1. wallet \in [Accounts -> Nat] BY DEF TypeOK
<1>2. QED BY <1>1 DEF Transfer

\* Two books are the same but for user u's entry in pool p.
Differ(f, g, p, u) ==
  /\ f \in [Pools -> [Users -> Nat]] /\ g \in [Pools -> [Users -> Nat]]
  /\ \A x \in Users \ {u} : f[p][x] = g[p][x]
  /\ \A q \in Pools \ {p} : f[q] = g[q]

\* What the change does to the row's sum and to the sum of the sums.
SumsMoved(f, g, p, u) ==
  /\ Total(f[p], Users) \in Nat /\ Total(Sums(f), Pools) \in Nat
  /\ Total(g[p], Users) = Total(f[p], Users) - f[p][u] + g[p][u]
  /\ Total(Sums(g), Pools) = Total(Sums(f), Pools) - f[p][u] + g[p][u]

\* One entry of a book changes its row's sum and the sum of the sums.
LEMMA SumsChange ==
  ASSUME NEW f, NEW g, NEW p \in Pools, NEW u \in Users, Differ(f, g, p, u)
  PROVE  SumsMoved(f, g, p, u)
<1>1. \A q \in Pools : f[q] \in [Users -> Nat] /\ g[q] \in [Users -> Nat]
  BY DEF Differ
<1>2. IsFiniteSet(Users) /\ IsFiniteSet(Pools)
  BY PartiesAssumption
<1>3. Total(g[p], Users) = Total(f[p], Users) - f[p][u] + g[p][u]
  <2>1. /\ \A x \in Users : f[p][x] \in Nat
        /\ \A x \in Users : g[p][x] \in Nat
        /\ \A x \in Users \ {u} : f[p][x] = g[p][x]
    BY <1>1 DEF Differ
  <2>2. QED BY ONLY <1>2, <2>1, u \in Users, TotalChange
<1>4. ASSUME NEW h, \A q \in Pools : h[q] \in [Users -> Nat]
      PROVE  /\ \A q \in Pools : Sums(h)[q] = Total(h[q], Users)
             /\ \A q \in Pools : Sums(h)[q] \in Nat
             /\ Total(Sums(h), Pools) \in Nat
  <2>1. \A q \in Pools : Total(h[q], Users) \in Nat
    <3>1. ASSUME NEW q \in Pools PROVE Total(h[q], Users) \in Nat
      <4>1. \A x \in Users : h[q][x] \in Nat
        BY <1>4
      <4>2. QED BY ONLY <1>2, <4>1, TotalType
    <3>2. QED BY <3>1
  <2>2. \A q \in Pools : Sums(h)[q] = Total(h[q], Users)
    BY DEF Sums
  <2>3. \A q \in Pools : Sums(h)[q] \in Nat
    BY <2>1, <2>2
  <2>4. Total(Sums(h), Pools) \in Nat
    BY ONLY <1>2, <2>3, TotalType
  <2>5. QED BY <2>2, <2>3, <2>4
<1>5. /\ \A q \in Pools : Sums(f)[q] = Total(f[q], Users) /\ Sums(f)[q] \in Nat
      /\ Total(Sums(f), Pools) \in Nat
  BY <1>1, <1>4
<1>6. \A q \in Pools : Sums(g)[q] = Total(g[q], Users) /\ Sums(g)[q] \in Nat
  BY <1>1, <1>4
<1>7. Total(Sums(g), Pools) = Total(Sums(f), Pools) - Sums(f)[p] + Sums(g)[p]
  <2>1. /\ \A q \in Pools : Sums(f)[q] \in Nat
        /\ \A q \in Pools : Sums(g)[q] \in Nat
        /\ \A q \in Pools \ {p} : Sums(f)[q] = Sums(g)[q]
    BY <1>5, <1>6 DEF Differ
  <2>2. QED BY ONLY <1>2, <2>1, p \in Pools, TotalChange
<1>8. f[p][u] \in Nat /\ g[p][u] \in Nat /\ Total(f[p], Users) \in Nat
      /\ Total(g[p], Users) \in Nat
  BY <1>1, <1>5, <1>6
<1>9. QED BY <1>3, <1>5, <1>6, <1>7, <1>8 DEF SumsMoved

\* The sums of the three books and of the draws are naturals.
LEMMA SumsType ==
  ASSUME TypeOK
  PROVE  /\ Requests \in [Pools -> [Users -> Nat]]
         /\ Total(Sums(userBalance), Pools) \in Nat
         /\ Total(Sums(Requests), Pools) \in Nat
         /\ Total(drawn, Pools) \in Nat
<1> USE PartiesAssumption
<1>1. Requests \in [Pools -> [Users -> Nat]]
  BY DEF TypeOK, Requests
<1>2. ASSUME NEW f \in [Pools -> [Users -> Nat]] PROVE Total(Sums(f), Pools) \in Nat
  <2>1. \A q \in Pools : Total(f[q], Users) \in Nat
    BY TotalType
  <2>2. \A q \in Pools : Sums(f)[q] \in Nat
    BY <2>1 DEF Sums
  <2>3. QED BY <2>2, TotalType
<1>3. Total(drawn, Pools) \in Nat
  BY TotalType DEF TypeOK
<1>4. QED BY <1>1, <1>2, <1>3 DEF TypeOK

-----------------------------------------------------------------------------
LEMMA CapitalInit == Init => CapitalInv
<1> SUFFICES ASSUME Init PROVE CapitalInv
  OBVIOUS
<1> USE PartiesAssumption, NumbersAssumption
<1>1. TypeOK
  <2>1. wallet \in [Accounts -> Nat]
    BY DEF Init, Accounts
  <2>2. Zero \in [Pools -> [Users -> Nat]]
    BY DEF Zero
  <2>3. pending \in [Pools -> [Users -> [amount: Nat, unlock: Nat]]]
    BY DEF Init, NoRequest
  <2>4. /\ userBalance \in [Pools -> [Users -> Nat]]
        /\ queuedAt \in [Pools -> [Users -> Nat]]
    BY <2>2 DEF Init
  <2>5. /\ poolBalance \in [Pools -> Int] /\ drawn \in [Pools -> Nat]
        /\ allocation \in [Pools -> 0..BPS]
    BY DEF Init, BPS
  <2>6. initialized \in BOOLEAN
    <3>1. initialized = FALSE
      BY DEF Init
    <3>2. QED BY ONLY <3>1
  <2>7. now \in Nat /\ stranded \in Nat
    BY DEF Init
  <2>8. QED BY <2>1, <2>3, <2>4, <2>5, <2>6, <2>7 DEF TypeOK
<1>2. \A p \in Pools : Total(userBalance[p], Users) = 0
  <2>1. \A p \in Pools, u \in Users : userBalance[p][u] = 0
    BY DEF Init, Zero
  <2>2. QED BY <2>1, TotalZero
<1>3. \A p \in Pools : Total(Requests[p], Users) = 0
  <2>1. \A p \in Pools, u \in Users : Requests[p][u] = 0
    BY DEF Init, Requests, NoRequest
  <2>2. QED BY <2>1, TotalZero
<1>4. \A p \in Pools : drawn[p] = 0 /\ poolBalance[p] = 0
  BY DEF Init
<1>5. PoolsMatchShares
  BY <1>2, <1>4 DEF PoolsMatchShares
<1>6. /\ Total(Sums(userBalance), Pools) = 0
      /\ Total(Sums(Requests), Pools) = 0
      /\ Total(drawn, Pools) = 0
  <2>1. \A p \in Pools : Sums(userBalance)[p] = 0 /\ Sums(Requests)[p] = 0
    BY <1>2, <1>3 DEF Sums
  <2>2. QED BY <2>1, <1>4, TotalZero
<1>7. wallet[Vault] = 0 /\ stranded = 0
  BY DEF Init, Accounts
<1>8. TokensAccounted
  BY <1>6, <1>7 DEF TokensAccounted
<1>9. RequestsWait
  BY DEF Init, RequestsWait
<1>10. QED BY <1>1, <1>5, <1>8, <1>9 DEF CapitalInv

\* The entries of the books are numbers.
LEMMA Entries ==
  ASSUME TypeOK, NEW p \in Pools, NEW u \in Users
  PROVE  /\ userBalance[p][u] \in Nat /\ queuedAt[p][u] \in Nat
         /\ pending[p][u] \in [amount: Nat, unlock: Nat]
         /\ pending[p][u].amount \in Nat /\ pending[p][u].unlock \in Nat
         /\ poolBalance[p] \in Int /\ drawn[p] \in Nat
         /\ wallet[Vault] \in Nat /\ wallet[u] \in Nat /\ wallet[Engine] \in Nat
         /\ {Vault, Engine, u} \subseteq Accounts /\ u # Vault /\ Vault # Engine
<1>1. /\ userBalance[p] \in [Users -> Nat] /\ queuedAt[p] \in [Users -> Nat]
      /\ pending[p] \in [Users -> [amount: Nat, unlock: Nat]]
  BY DEF TypeOK
<1>2. {Vault, Engine, u} \subseteq Accounts /\ u # Vault /\ Vault # Engine
  BY PartiesAssumption DEF Accounts
<1>3. QED BY <1>1, <1>2 DEF TypeOK

\* A deposit adds the amount to the user, the pool and the contract's tokens.
LEMMA DepositKeeps ==
  ASSUME CapitalInv, NEW u \in Users, NEW p \in Pools, NEW amount \in Amounts,
         Deposit(u, p, amount)
  PROVE  CapitalInv'
<1>1. TypeOK /\ amount \in Nat
  BY NumbersAssumption DEF CapitalInv
<1>2. /\ userBalance[p][u] \in Nat /\ wallet[Vault] \in Nat
      /\ u \in Accounts /\ Vault \in Accounts /\ u # Vault
  BY <1>1, Entries
<1>3. /\ wallet' \in [Accounts -> Nat]
      /\ wallet'[Vault] = wallet[Vault] + amount
  <2>1. Transfer(u, Vault, amount)
    BY DEF Deposit
  <2>2. QED BY ONLY <1>1, <1>2, <2>1, TransferMoves
<1>4. /\ userBalance' \in [Pools -> [Users -> Nat]]
      /\ Total(userBalance[p], Users) \in Nat
      /\ Total(userBalance'[p], Users) = Total(userBalance[p], Users) + amount
      /\ \A q \in Pools \ {p} : userBalance'[q] = userBalance[q]
      /\ Total(Sums(userBalance'), Pools) = Total(Sums(userBalance), Pools) + amount
  <2>1. userBalance \in [Pools -> [Users -> Nat]]
    BY <1>1 DEF TypeOK
  <2>2. userBalance' = [userBalance EXCEPT ![p][u] = userBalance[p][u] + amount]
    BY DEF Deposit
  <2>3. Differ(userBalance, userBalance', p, u)
        /\ userBalance'[p][u] = userBalance[p][u] + amount
    BY <1>1, <1>2, <2>1, <2>2 DEF Differ
  <2>4. SumsMoved(userBalance, userBalance', p, u)
    BY <2>3, SumsChange, Zenon
  <2>5. QED BY <1>1, <1>2, <2>3, <2>4 DEF Differ, SumsMoved
<1>5. /\ poolBalance' = [poolBalance EXCEPT ![p] = poolBalance[p] + amount]
      /\ UNCHANGED <<initialized, pending, allocation, now, drawn, stranded, queuedAt>>
  BY DEF Deposit, history
<1>6. TypeOK'
  BY <1>1, <1>3, <1>4, <1>5 DEF TypeOK
<1>7. PoolsMatchShares'
  <2>1. poolBalance[p] + drawn[p] = Total(userBalance[p], Users)
    BY DEF CapitalInv, PoolsMatchShares
  <2>2. poolBalance'[p] + drawn'[p] = Total(userBalance'[p], Users)
    BY <1>1, <1>4, <1>5, <2>1 DEF TypeOK
  <2>3. \A q \in Pools \ {p} : poolBalance'[q] + drawn'[q] = Total(userBalance'[q], Users)
    BY <1>1, <1>4, <1>5 DEF CapitalInv, PoolsMatchShares, TypeOK
  <2>4. QED BY <2>2, <2>3 DEF PoolsMatchShares
<1>8. TokensAccounted'
  <2>1. Requests' = Requests
    BY <1>5 DEF Requests
  <2>2. /\ Total(Sums(userBalance), Pools) \in Nat
        /\ Total(Sums(Requests), Pools) \in Nat
        /\ Total(drawn, Pools) \in Nat
    BY <1>1, SumsType
  <2>3. stranded \in Nat
    BY <1>1 DEF TypeOK
  <2>4. wallet[Vault] + Total(drawn, Pools)
          = Total(Sums(userBalance), Pools) + Total(Sums(Requests), Pools) + stranded
    BY DEF CapitalInv, TokensAccounted
  <2>5. /\ Total(drawn', Pools) = Total(drawn, Pools) /\ stranded' = stranded
        /\ Total(Sums(Requests'), Pools) = Total(Sums(Requests), Pools)
    BY <1>5, <2>1
  <2>6. /\ amount \in Nat
        /\ wallet'[Vault] = wallet[Vault] + amount
        /\ Total(Sums(userBalance'), Pools) = Total(Sums(userBalance), Pools) + amount
    BY <1>1, <1>3, <1>4
  <2>7. wallet'[Vault] + Total(drawn', Pools)
          = Total(Sums(userBalance'), Pools) + Total(Sums(Requests'), Pools) + stranded'
    BY ONLY <1>2, <2>2, <2>3, <2>4, <2>5, <2>6
  <2>8. QED BY <2>7 DEF TokensAccounted
<1>9. RequestsWait'
  BY <1>5 DEF CapitalInv, RequestsWait
<1>10. QED BY <1>6, <1>7, <1>8, <1>9 DEF CapitalInv

\* A request takes the amount from the user and the pool at once, and takes
\* the place of an older one.
LEMMA QueueKeeps ==
  ASSUME CapitalInv, NEW u \in Users, NEW p \in Pools, NEW amount \in Amounts,
         QueueWithdrawal(u, p, amount)
  PROVE  CapitalInv'
<1>1. TypeOK /\ amount \in Nat /\ COOLDOWN_SECONDS \in Nat /\ now \in Nat
  BY NumbersAssumption DEF CapitalInv, TypeOK
<1>2. /\ userBalance[p][u] \in Nat /\ pending[p][u].amount \in Nat
      /\ userBalance[p][u] - amount \in Nat
  BY <1>1, Entries DEF QueueWithdrawal
<1>3. /\ UNCHANGED <<initialized, allocation, wallet, now, drawn>>
      /\ poolBalance' = [poolBalance EXCEPT ![p] = poolBalance[p] - amount]
      /\ stranded' = stranded + pending[p][u].amount
      /\ queuedAt' = [queuedAt EXCEPT ![p][u] = now]
  BY DEF QueueWithdrawal
<1>4. /\ userBalance' \in [Pools -> [Users -> Nat]]
      /\ Total(userBalance[p], Users) \in Nat
      /\ Total(userBalance'[p], Users) = Total(userBalance[p], Users) - amount
      /\ \A q \in Pools \ {p} : userBalance'[q] = userBalance[q]
      /\ Total(Sums(userBalance'), Pools) = Total(Sums(userBalance), Pools) - amount
  <2>1. userBalance \in [Pools -> [Users -> Nat]]
    BY <1>1 DEF TypeOK
  <2>2. userBalance' = [userBalance EXCEPT ![p][u] = userBalance[p][u] - amount]
    BY DEF QueueWithdrawal
  <2>3. Differ(userBalance, userBalance', p, u)
        /\ userBalance'[p][u] = userBalance[p][u] - amount
    BY <1>1, <1>2, <2>1, <2>2 DEF Differ
  <2>4. SumsMoved(userBalance, userBalance', p, u)
    BY <2>3, SumsChange, Zenon
  <2>5. QED BY <1>1, <1>2, <2>3, <2>4 DEF Differ, SumsMoved
<1>5. /\ pending' \in [Pools -> [Users -> [amount: Nat, unlock: Nat]]]
      /\ pending'[p][u] = [amount |-> amount, unlock |-> now + COOLDOWN_SECONDS]
      /\ \A q \in Pools \ {p} : pending'[q] = pending[q]
      /\ \A x \in Users \ {u} : pending'[p][x] = pending[p][x]
  <2>1. pending' = [pending EXCEPT ![p][u] =
          [amount |-> amount, unlock |-> now + COOLDOWN_SECONDS]]
    BY DEF QueueWithdrawal
  <2>2. [amount |-> amount, unlock |-> now + COOLDOWN_SECONDS] \in [amount: Nat, unlock: Nat]
    BY <1>1
  <2>3. QED BY <1>1, <2>1, <2>2 DEF TypeOK
<1>6. Total(Sums(Requests'), Pools)
        = Total(Sums(Requests), Pools) - pending[p][u].amount + amount
  <2>1. /\ Requests \in [Pools -> [Users -> Nat]]
        /\ Requests' \in [Pools -> [Users -> Nat]]
    BY <1>1, <1>5 DEF TypeOK, Requests
  <2>2. Requests[p][u] = pending[p][u].amount /\ Requests'[p][u] = amount
    BY <1>5 DEF Requests
  <2>3. Differ(Requests, Requests', p, u)
    BY <1>5, <2>1 DEF Differ, Requests
  <2>4. SumsMoved(Requests, Requests', p, u)
    BY <2>3, SumsChange, Zenon
  <2>5. QED BY <2>2, <2>4 DEF SumsMoved
<1>7. queuedAt' \in [Pools -> [Users -> Nat]]
  BY <1>1, <1>3 DEF TypeOK
<1>8. TypeOK'
  <2>1. stranded' \in Nat /\ poolBalance' \in [Pools -> Int]
    BY <1>1, <1>2, <1>3 DEF TypeOK
  <2>2. QED BY <1>1, <1>3, <1>4, <1>5, <1>7, <2>1 DEF TypeOK
<1>9. PoolsMatchShares'
  <2>1. poolBalance[p] + drawn[p] = Total(userBalance[p], Users)
    BY DEF CapitalInv, PoolsMatchShares
  <2>2. poolBalance'[p] + drawn'[p] = Total(userBalance'[p], Users)
    BY <1>1, <1>3, <1>4, <2>1 DEF TypeOK
  <2>3. \A q \in Pools \ {p} : poolBalance'[q] + drawn'[q] = Total(userBalance'[q], Users)
    BY <1>1, <1>3, <1>4 DEF CapitalInv, PoolsMatchShares, TypeOK
  <2>4. QED BY <2>2, <2>3 DEF PoolsMatchShares
<1>10. TokensAccounted'
  <2>1. /\ Total(Sums(userBalance), Pools) \in Nat
        /\ Total(Sums(Requests), Pools) \in Nat
        /\ Total(drawn, Pools) \in Nat
    BY <1>1, SumsType
  <2>2. stranded \in Nat /\ wallet[Vault] \in Nat
    BY <1>1, Entries DEF TypeOK
  <2>3. wallet[Vault] + Total(drawn, Pools)
          = Total(Sums(userBalance), Pools) + Total(Sums(Requests), Pools) + stranded
    BY DEF CapitalInv, TokensAccounted
  <2>4. /\ Total(drawn', Pools) = Total(drawn, Pools) /\ wallet'[Vault] = wallet[Vault]
        /\ stranded' = stranded + pending[p][u].amount
        /\ Total(Sums(userBalance'), Pools) = Total(Sums(userBalance), Pools) - amount
        /\ amount \in Nat
    BY <1>1, <1>3, <1>4
  <2>5. wallet'[Vault] + Total(drawn', Pools)
          = Total(Sums(userBalance'), Pools) + Total(Sums(Requests'), Pools) + stranded'
    BY ONLY <1>2, <1>6, <2>1, <2>2, <2>3, <2>4
  <2>6. QED BY <2>5 DEF TokensAccounted
<1>11. RequestsWait'
  <2>1. /\ queuedAt'[p][u] = now
        /\ pending'[p][u].unlock = now + COOLDOWN_SECONDS
    BY <1>1, <1>3, <1>5 DEF TypeOK
  <2>2. ASSUME NEW q \in Pools, NEW x \in Users, ~(q = p /\ x = u)
        PROVE  pending'[q][x] = pending[q][x] /\ queuedAt'[q][x] = queuedAt[q][x]
    BY <1>1, <1>3, <1>5, <2>2 DEF TypeOK
  <2>3. \A q \in Pools, x \in Users : pending[q][x] # NoRequest =>
          pending[q][x].unlock = queuedAt[q][x] + COOLDOWN_SECONDS
    BY DEF CapitalInv, RequestsWait
  <2>4. \A q \in Pools, x \in Users : pending'[q][x] # NoRequest =>
          pending'[q][x].unlock = queuedAt'[q][x] + COOLDOWN_SECONDS
    BY <2>1, <2>2, <2>3
  <2>5. QED BY <2>4 DEF RequestsWait, NoRequest
<1>12. QED BY <1>8, <1>9, <1>10, <1>11 DEF CapitalInv

\* A claim pays the request that is cleared.
LEMMA ClaimKeeps ==
  ASSUME CapitalInv, NEW u \in Users, NEW p \in Pools, ClaimWithdrawal(u, p)
  PROVE  CapitalInv'
<1>1. TypeOK
  BY DEF CapitalInv
<1>2. /\ pending[p][u].amount \in Nat /\ wallet[Vault] \in Nat
      /\ u \in Accounts /\ Vault \in Accounts /\ Vault # u
  BY <1>1, Entries
<1>3. /\ wallet' \in [Accounts -> Nat]
      /\ wallet'[Vault] = wallet[Vault] - pending[p][u].amount
  <2>1. Transfer(Vault, u, pending[p][u].amount)
    BY DEF ClaimWithdrawal
  <2>2. QED BY ONLY <1>1, <1>2, <2>1, TransferMoves
<1>4. /\ initialized' = initialized /\ poolBalance' = poolBalance
      /\ userBalance' = userBalance /\ allocation' = allocation /\ now' = now
      /\ drawn' = drawn /\ stranded' = stranded /\ queuedAt' = queuedAt
  BY DEF ClaimWithdrawal, history
<1>5. /\ pending' \in [Pools -> [Users -> [amount: Nat, unlock: Nat]]]
      /\ pending'[p][u] = NoRequest
      /\ \A q \in Pools \ {p} : pending'[q] = pending[q]
      /\ \A x \in Users \ {u} : pending'[p][x] = pending[p][x]
  <2>1. pending' = [pending EXCEPT ![p][u] = NoRequest]
    BY DEF ClaimWithdrawal
  <2>2. NoRequest \in [amount: Nat, unlock: Nat]
    BY DEF NoRequest
  <2>3. QED BY <1>1, <2>1, <2>2 DEF TypeOK
<1>6. Total(Sums(Requests'), Pools) = Total(Sums(Requests), Pools) - pending[p][u].amount
  <2>1. /\ Requests \in [Pools -> [Users -> Nat]]
        /\ Requests' \in [Pools -> [Users -> Nat]]
    BY <1>1, <1>5 DEF TypeOK, Requests
  <2>2. Requests[p][u] = pending[p][u].amount /\ Requests'[p][u] = 0
    BY <1>5 DEF Requests, NoRequest
  <2>3. Differ(Requests, Requests', p, u)
    BY <1>5, <2>1 DEF Differ, Requests
  <2>4. SumsMoved(Requests, Requests', p, u)
    BY <2>3, SumsChange, Zenon
  <2>5. Total(Sums(Requests), Pools) \in Nat
    BY <1>1, SumsType
  <2>6. QED BY <1>2, <2>2, <2>4, <2>5 DEF SumsMoved
<1>7. TypeOK'
  BY <1>1, <1>3, <1>4, <1>5 DEF TypeOK
<1>8. PoolsMatchShares'
  BY <1>4 DEF CapitalInv, PoolsMatchShares
<1>9. TokensAccounted'
  <2>1. /\ Total(Sums(userBalance), Pools) \in Nat
        /\ Total(Sums(Requests), Pools) \in Nat
        /\ Total(drawn, Pools) \in Nat
    BY <1>1, SumsType
  <2>2. stranded \in Nat
    BY <1>1 DEF TypeOK
  <2>3. wallet[Vault] + Total(drawn, Pools)
          = Total(Sums(userBalance), Pools) + Total(Sums(Requests), Pools) + stranded
    BY DEF CapitalInv, TokensAccounted
  <2>4. /\ Total(drawn', Pools) = Total(drawn, Pools) /\ stranded' = stranded
        /\ Total(Sums(userBalance'), Pools) = Total(Sums(userBalance), Pools)
        /\ wallet'[Vault] = wallet[Vault] - pending[p][u].amount
    BY <1>3, <1>4
  <2>5. wallet'[Vault] + Total(drawn', Pools)
          = Total(Sums(userBalance'), Pools) + Total(Sums(Requests'), Pools) + stranded'
    BY ONLY <1>2, <1>6, <2>1, <2>2, <2>3, <2>4
  <2>6. QED BY <2>5 DEF TokensAccounted
<1>10. RequestsWait'
  <2>1. ASSUME NEW q \in Pools, NEW x \in Users, pending'[q][x] # NoRequest
        PROVE  pending'[q][x].unlock = queuedAt'[q][x] + COOLDOWN_SECONDS
    <3>1. pending'[q][x] = pending[q][x]
      BY <1>5, <2>1
    <3>2. QED BY <1>4, <2>1, <3>1 DEF CapitalInv, RequestsWait
  <2>2. QED BY <2>1 DEF RequestsWait, NoRequest
<1>11. QED BY <1>7, <1>8, <1>9, <1>10 DEF CapitalInv

\* A draw takes the same amount from the pool and from the contract's tokens.
LEMMA DrawKeeps ==
  ASSUME CapitalInv, NEW p \in Pools, NEW shortfall \in Amounts, Draw(p, shortfall)
  PROVE  CapitalInv'
<1>1. TypeOK /\ shortfall \in Nat
  BY NumbersAssumption DEF CapitalInv
<1>2. /\ poolBalance[p] \in Int /\ drawn[p] \in Nat /\ wallet[Vault] \in Nat
      /\ Vault \in Accounts /\ Engine \in Accounts /\ Vault # Engine
  BY <1>1, PartiesAssumption DEF TypeOK, Accounts
<1>3. /\ wallet' \in [Accounts -> Nat]
      /\ wallet'[Vault] = wallet[Vault] - shortfall
  <2>1. Transfer(Vault, Engine, shortfall)
    BY DEF Draw
  <2>2. QED BY ONLY <1>1, <1>2, <2>1, TransferMoves
<1>4. /\ initialized' = initialized /\ userBalance' = userBalance
      /\ pending' = pending /\ allocation' = allocation /\ now' = now
      /\ stranded' = stranded /\ queuedAt' = queuedAt
  BY DEF Draw
<1>5. /\ poolBalance' = [poolBalance EXCEPT ![p] = poolBalance[p] - shortfall]
      /\ drawn' = [drawn EXCEPT ![p] = drawn[p] + shortfall]
  BY DEF Draw
<1>6. TypeOK'
  <2>1. poolBalance' \in [Pools -> Int] /\ drawn' \in [Pools -> Nat]
    BY <1>1, <1>2, <1>5 DEF TypeOK
  <2>2. QED BY <1>1, <1>3, <1>4, <2>1 DEF TypeOK
<1>7. PoolsMatchShares'
  <2>1. ASSUME NEW q \in Pools
        PROVE  poolBalance'[q] + drawn'[q] = Total(userBalance'[q], Users)
    <3>1. poolBalance'[q] + drawn'[q] = poolBalance[q] + drawn[q]
      BY <1>1, <1>2, <1>5 DEF TypeOK
    <3>2. QED BY <1>4, <3>1 DEF CapitalInv, PoolsMatchShares
  <2>2. QED BY <2>1 DEF PoolsMatchShares
<1>8. Total(drawn', Pools) = Total(drawn, Pools) + shortfall
  <2>1. /\ \A q \in Pools : drawn[q] \in Nat
        /\ \A q \in Pools : drawn'[q] \in Nat
        /\ \A q \in Pools \ {p} : drawn[q] = drawn'[q]
    BY <1>1, <1>2, <1>5 DEF TypeOK
  <2>2. drawn'[p] = drawn[p] + shortfall
    BY <1>1, <1>2, <1>5 DEF TypeOK
  <2>3. IsFiniteSet(Pools)
    BY PartiesAssumption
  <2>4. Total(drawn', Pools) = Total(drawn, Pools) - drawn[p] + drawn'[p]
    BY ONLY <2>1, <2>3, p \in Pools, TotalChange
  <2>5. Total(drawn, Pools) \in Nat
    BY <1>1, SumsType
  <2>6. QED BY ONLY <1>1, <1>2, <2>2, <2>4, <2>5
<1>9. TokensAccounted'
  <2>1. /\ Total(Sums(userBalance), Pools) \in Nat
        /\ Total(Sums(Requests), Pools) \in Nat
        /\ Total(drawn, Pools) \in Nat
    BY <1>1, SumsType
  <2>2. stranded \in Nat
    BY <1>1 DEF TypeOK
  <2>3. wallet[Vault] + Total(drawn, Pools)
          = Total(Sums(userBalance), Pools) + Total(Sums(Requests), Pools) + stranded
    BY DEF CapitalInv, TokensAccounted
  <2>4. Requests' = Requests
    BY <1>4 DEF Requests
  <2>5. /\ stranded' = stranded
        /\ Total(Sums(userBalance'), Pools) = Total(Sums(userBalance), Pools)
        /\ Total(Sums(Requests'), Pools) = Total(Sums(Requests), Pools)
        /\ wallet'[Vault] = wallet[Vault] - shortfall
    BY <1>3, <1>4, <2>4
  <2>6. wallet'[Vault] + Total(drawn', Pools)
          = Total(Sums(userBalance'), Pools) + Total(Sums(Requests'), Pools) + stranded'
    BY ONLY <1>1, <1>2, <1>8, <2>1, <2>2, <2>3, <2>5
  <2>7. QED BY <2>6 DEF TokensAccounted
<1>10. RequestsWait'
  BY <1>4 DEF CapitalInv, RequestsWait
<1>11. QED BY <1>6, <1>7, <1>9, <1>10 DEF CapitalInv

\* The other steps move no capital.
LEMMA BooksUntouched ==
  ASSUME CapitalInv, TypeOK',
         UNCHANGED <<poolBalance, userBalance, pending, wallet, history>>
  PROVE  CapitalInv'
<1>1. /\ poolBalance' = poolBalance /\ userBalance' = userBalance
      /\ pending' = pending /\ wallet' = wallet
      /\ drawn' = drawn /\ stranded' = stranded /\ queuedAt' = queuedAt
  BY DEF history
<1>2. PoolsMatchShares'
  BY <1>1 DEF CapitalInv, PoolsMatchShares
<1>3. TokensAccounted'
  <2>1. Requests' = Requests
    BY <1>1 DEF Requests
  <2>2. QED BY <1>1, <2>1 DEF CapitalInv, TokensAccounted
<1>4. RequestsWait'
  BY <1>1 DEF CapitalInv, RequestsWait
<1>5. QED BY <1>2, <1>3, <1>4 DEF CapitalInv

LEMMA CapitalStep == CapitalInv /\ [Next]_vars => CapitalInv'
<1> SUFFICES ASSUME CapitalInv, [Next]_vars PROVE CapitalInv'
  OBVIOUS
<1>1. TypeOK
  BY DEF CapitalInv
<1>2. ASSUME NEW u \in Users, NEW p \in Pools, NEW amount \in Amounts,
             Deposit(u, p, amount)
      PROVE  CapitalInv'
  BY <1>2, DepositKeeps
<1>3. ASSUME NEW u \in Users, NEW p \in Pools, NEW amount \in Amounts,
             QueueWithdrawal(u, p, amount)
      PROVE  CapitalInv'
  BY <1>3, QueueKeeps
<1>4. ASSUME NEW u \in Users, NEW p \in Pools, ClaimWithdrawal(u, p)
      PROVE  CapitalInv'
  BY <1>4, ClaimKeeps
<1>5. ASSUME NEW p \in Pools, NEW shortfall \in Amounts, Draw(p, shortfall)
      PROVE  CapitalInv'
  BY <1>5, DrawKeeps
<1>6. ASSUME NEW p \in Pools, NEW weight \in Weights, SetAllocation(p, weight)
      PROVE  CapitalInv'
  <2>1. weight \in 0..BPS
    BY NumbersAssumption
  <2>2. TypeOK' /\ UNCHANGED <<poolBalance, userBalance, pending, wallet, history>>
    BY <1>1, <1>6, <2>1 DEF SetAllocation, TypeOK, history
  <2>3. QED BY <2>2, BooksUntouched
<1>7. CASE Initialize
  <2>1. initialized' \in BOOLEAN
    <3>1. initialized' = TRUE
      BY <1>7 DEF Initialize
    <3>2. QED BY ONLY <3>1
  <2>2. TypeOK' /\ UNCHANGED <<poolBalance, userBalance, pending, wallet, history>>
    BY <1>1, <1>7, <2>1 DEF Initialize, TypeOK, history
  <2>3. QED BY <2>2, BooksUntouched
<1>8. CASE Tick
  <2>1. TypeOK' /\ UNCHANGED <<poolBalance, userBalance, pending, wallet, history>>
    BY <1>1, <1>8 DEF Tick, TypeOK, history
  <2>2. QED BY <2>1, BooksUntouched
<1>9. CASE UNCHANGED vars
  <2>1. TypeOK' /\ UNCHANGED <<poolBalance, userBalance, pending, wallet, history>>
    BY <1>1, <1>9 DEF vars, TypeOK, history
  <2>2. QED BY <2>1, BooksUntouched
<1>10. QED BY <1>2, <1>3, <1>4, <1>5, <1>6, <1>7, <1>8, <1>9 DEF Next

-----------------------------------------------------------------------------
\* A step that pays a user finds a matured request of that amount.
LEMMA PaymentMatured ==
  ASSUME CapitalInv, [Next]_vars, NEW x \in Users, wallet'[x] > wallet[x]
  PROVE  \E p \in Pools : /\ pending[p][x].amount = wallet'[x] - wallet[x]
                          /\ now >= queuedAt[p][x] + COOLDOWN_SECONDS
<1>1. TypeOK
  BY DEF CapitalInv
<1>2. /\ x \in Accounts /\ Vault \in Accounts /\ Engine \in Accounts
      /\ x # Vault /\ x # Engine /\ Vault # Engine /\ wallet[x] \in Nat
  BY <1>1, PartiesAssumption DEF TypeOK, Accounts
<1>3. wallet' # wallet
  BY <1>2
<1>4. ASSUME NEW u \in Users, NEW p \in Pools, NEW amount \in Amounts,
             Deposit(u, p, amount)
      PROVE  FALSE
  <2>1. amount \in Nat /\ u \in Accounts /\ u # Vault /\ wallet[u] \in Nat
    BY <1>1, PartiesAssumption, NumbersAssumption DEF TypeOK, Accounts
  <2>2. Transfer(u, Vault, amount)
    BY <1>4 DEF Deposit
  <2>3. /\ wallet'[u] = wallet[u] - amount
        /\ \A y \in Accounts \ {u, Vault} : wallet'[y] = wallet[y]
    BY ONLY <1>1, <1>2, <2>1, <2>2, TransferMoves
  <2>4. QED BY <1>2, <2>1, <2>3
<1>5. ASSUME NEW p \in Pools, NEW shortfall \in Amounts, Draw(p, shortfall)
      PROVE  FALSE
  <2>1. shortfall \in Nat
    BY NumbersAssumption
  <2>2. Transfer(Vault, Engine, shortfall)
    BY <1>5 DEF Draw
  <2>3. \A y \in Accounts \ {Vault, Engine} : wallet'[y] = wallet[y]
    BY ONLY <1>1, <1>2, <2>1, <2>2, TransferMoves
  <2>4. QED BY <1>2, <2>3
<1>6. ASSUME NEW u \in Users, NEW p \in Pools, ClaimWithdrawal(u, p)
      PROVE  /\ pending[p][x].amount = wallet'[x] - wallet[x]
             /\ now >= queuedAt[p][x] + COOLDOWN_SECONDS
  <2>1. /\ pending[p][u].amount \in Nat /\ u \in Accounts /\ u # Vault
        /\ wallet[u] \in Nat
    BY <1>1, Entries
  <2>2. Transfer(Vault, u, pending[p][u].amount) /\ now >= pending[p][u].unlock
    BY <1>6 DEF ClaimWithdrawal
  <2>3. /\ wallet'[u] = wallet[u] + pending[p][u].amount
        /\ \A y \in Accounts \ {u, Vault} : wallet'[y] = wallet[y]
    BY ONLY <1>1, <1>2, <2>1, <2>2, TransferMoves
  <2>4. u = x
    BY <1>2, <2>3
  <2>5. pending[p][x].amount = wallet'[x] - wallet[x]
    BY <1>2, <2>1, <2>3, <2>4
  <2>6. pending[p][x] # NoRequest
    <3>1. pending[p][x].amount # 0
      BY <1>2, <2>1, <2>3, <2>4
    <3>2. QED BY <3>1 DEF NoRequest
  <2>7. pending[p][x].unlock = queuedAt[p][x] + COOLDOWN_SECONDS
    BY <2>6 DEF CapitalInv, RequestsWait
  <2>8. QED BY <2>2, <2>4, <2>5, <2>7
<1>7. ~Initialize /\ ~Tick /\ ~UNCHANGED vars
  BY <1>3 DEF Initialize, Tick, vars
<1>8. \A p \in Pools, weight \in Weights : ~SetAllocation(p, weight)
  BY <1>3 DEF SetAllocation
<1>9. \A u \in Users, p \in Pools, amount \in Amounts : ~QueueWithdrawal(u, p, amount)
  BY <1>3 DEF QueueWithdrawal
<1>10. QED BY <1>4, <1>5, <1>6, <1>7, <1>8, <1>9 DEF Next

-----------------------------------------------------------------------------
\* In every reachable state the books balance: a pool's balance is its
\* depositors' balances less its draws, and the contract's tokens are the
\* balances, the requests that wait and those that were replaced, less draws.
THEOREM BackstopBooks == Spec => [](TypeOK /\ PoolsMatchShares /\ TokensAccounted)
<1>1. Init => CapitalInv
  BY CapitalInit
<1>2. CapitalInv /\ [Next]_vars => CapitalInv'
  BY CapitalStep
<1>3. CapitalInv => TypeOK /\ PoolsMatchShares /\ TokensAccounted
  BY DEF CapitalInv
<1>4. QED BY <1>1, <1>2, <1>3, PTL DEF Spec

\* The types of the backstop's state hold: no user's balance, request or
\* account of tokens is ever negative, however the calls follow each other.
THEOREM BackstopTypes == Spec => []TypeOK
BY BackstopBooks, PTL

\* A pool's balance and its depositors' balances never part, by more than what
\* was drawn.
THEOREM PoolsAlwaysMatchShares == Spec => []PoolsMatchShares
BY BackstopBooks, PTL

\* No user is ever paid before a cooldown has passed since the user's latest
\* request in the paying pool: claim_withdrawal pays matured requests only,
\* and nothing else pays a user.
THEOREM CooldownAlways == Spec => CooldownHeld
<1>1. Init => CapitalInv
  BY CapitalInit
<1>2. CapitalInv /\ [Next]_vars => CapitalInv'
  BY CapitalStep
<1>3. CapitalInv /\ [Next]_vars =>
        [\A u \in Users : wallet'[u] > wallet[u] =>
           \E p \in Pools : /\ pending[p][u].amount = wallet'[u] - wallet[u]
                            /\ now >= queuedAt[p][u] + COOLDOWN_SECONDS]_vars
  BY PaymentMatured
<1>4. QED BY <1>1, <1>2, <1>3, PTL DEF Spec, CooldownHeld
=============================================================================
