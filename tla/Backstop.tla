------------------------------ MODULE Backstop ------------------------------
(***************************************************************************)
(* The Backstop contract: insurance capital deposited per pool, withdrawn  *)
(* through a queue with a cooldown, and drawn by the Liquidation Engine.   *)
(*                                                                         *)
(* One action is one successful transaction (a failed call leaves no       *)
(* trace).  All pools share the contract's one balance of the base asset.  *)
(* A request with amount 0 stands both for no request (a claim fails) and  *)
(* for the cleared one a claim leaves behind (a claim pays 0): a claim     *)
(* changes nothing either way.                                             *)
(***************************************************************************)
EXTENDS Tally

CONSTANTS
  Users,             \* accounts that deposit
  Vault,             \* the backstop contract's own address
  Engine,            \* the address registered as the Liquidation Engine
  Pools,             \* pool ids
  Amounts,           \* the amounts calls are made with
  Weights,           \* the allocation weights governance may set
  Endowment,         \* base asset each user starts with
  COOLDOWN_SECONDS,
  MaxTime            \* bound of the ledger clock

\* All of it, in basis points.
BPS == 10000

ASSUME PartiesAssumption ==
  /\ IsFiniteSet(Users) /\ IsFiniteSet(Pools)
  /\ Vault \notin Users /\ Engine \notin Users /\ Vault # Engine
ASSUME NumbersAssumption ==
  /\ Amounts \subseteq Nat \ {0} /\ Weights \subseteq 0..BPS
  /\ Endowment \in [Users -> Nat] /\ COOLDOWN_SECONDS \in Nat /\ MaxTime \in Nat

VARIABLES
  initialized,   \* governance, engine and base asset are set
  poolBalance,   \* DataKey::PoolBalance(pool)
  userBalance,   \* DataKey::UserBalance(pool, user)
  pending,       \* DataKey::PendingWithdrawal(pool, user)
  allocation,    \* DataKey::Allocation(pool)
  wallet,        \* balances of the base asset
  now,           \* the ledger's timestamp
  \* History, read by the properties only.
  drawn,         \* drawn from each pool so far
  stranded,      \* requests replaced before they were claimed
  queuedAt       \* when each user last queued in each pool

history == <<drawn, stranded, queuedAt>>
vars == <<initialized, poolBalance, userBalance, pending, allocation, wallet,
          now, history>>

Accounts == Users \cup {Vault, Engine}
NoRequest == [amount |-> 0, unlock |-> 0]
Zero == [p \in Pools |-> [u \in Users |-> 0]]

TypeOK ==
  /\ initialized \in BOOLEAN
  /\ poolBalance \in [Pools -> Int]
  /\ userBalance \in [Pools -> [Users -> Nat]]
  /\ pending \in [Pools -> [Users -> [amount: Nat, unlock: Nat]]]
  /\ allocation \in [Pools -> 0..BPS]
  /\ wallet \in [Accounts -> Nat]
  /\ now \in Nat
  /\ drawn \in [Pools -> Nat] /\ stranded \in Nat
  /\ queuedAt \in [Pools -> [Users -> Nat]]

Init ==
  /\ initialized = FALSE
  /\ poolBalance = [p \in Pools |-> 0]
  /\ userBalance = Zero
  /\ pending = [p \in Pools |-> [u \in Users |-> NoRequest]]
  /\ allocation = [p \in Pools |-> 0]
  /\ wallet = [x \in Accounts |-> IF x \in Users THEN Endowment[x] ELSE 0]
  /\ now = 0
  /\ drawn = [p \in Pools |-> 0] /\ stranded = 0 /\ queuedAt = Zero

-----------------------------------------------------------------------------
\* A transfer of the base asset in the transaction: needs initialize to have
\* named the asset, and fails when the balance is short.
Transfer(from, to, amount) ==
  /\ initialized
  /\ wallet[from] >= amount
  /\ wallet' = [wallet EXCEPT ![from] = wallet[from] - amount,
                              ![to] = wallet[to] + amount]

Initialize ==
  /\ ~initialized
  /\ initialized' = TRUE
  /\ UNCHANGED <<poolBalance, userBalance, pending, allocation, wallet, now, history>>

Deposit(u, p, amount) ==
  /\ Transfer(u, Vault, amount)
  /\ userBalance' = [userBalance EXCEPT ![p][u] = @ + amount]
  /\ poolBalance' = [poolBalance EXCEPT ![p] = @ + amount]
  /\ UNCHANGED <<initialized, pending, allocation, now, history>>

\* Wrong on purpose: the request is not compared with the user's balance.
QueueUnchecked(u, p, amount) ==
  /\ userBalance' = [userBalance EXCEPT ![p][u] = @ - amount]
  /\ poolBalance' = [poolBalance EXCEPT ![p] = @ - amount]
  /\ pending' = [pending EXCEPT ![p][u] =
       [amount |-> amount, unlock |-> now + COOLDOWN_SECONDS]]
  /\ stranded' = stranded + pending[p][u].amount
  /\ queuedAt' = [queuedAt EXCEPT ![p][u] = now]
  /\ UNCHANGED <<initialized, allocation, wallet, now, drawn>>

\* Wrong on purpose: a request that waits keeps its unlock time when replaced.
QueueKeepsUnlock(u, p, amount) ==
  /\ userBalance[p][u] >= amount
  /\ userBalance' = [userBalance EXCEPT ![p][u] = @ - amount]
  /\ poolBalance' = [poolBalance EXCEPT ![p] = @ - amount]
  /\ pending' = [pending EXCEPT ![p][u] =
       [amount |-> amount,
        unlock |-> IF @.amount > 0 THEN @.unlock ELSE now + COOLDOWN_SECONDS]]
  /\ stranded' = stranded + pending[p][u].amount
  /\ queuedAt' = [queuedAt EXCEPT ![p][u] = now]
  /\ UNCHANGED <<initialized, allocation, wallet, now, drawn>>

\* The new request replaces one that was not claimed, and leaves the pool at
\* once; nothing compares the amount with the pool's balance.
QueueWithdrawal(u, p, amount) ==
  /\ userBalance[p][u] >= amount
  /\ userBalance' = [userBalance EXCEPT ![p][u] = @ - amount]
  /\ poolBalance' = [poolBalance EXCEPT ![p] = @ - amount]
  /\ pending' = [pending EXCEPT ![p][u] =
       [amount |-> amount, unlock |-> now + COOLDOWN_SECONDS]]
  /\ stranded' = stranded + pending[p][u].amount
  /\ queuedAt' = [queuedAt EXCEPT ![p][u] = now]
  /\ UNCHANGED <<initialized, allocation, wallet, now, drawn>>

\* Wrong on purpose: the request is paid and stays.
ClaimAgain(u, p) ==
  /\ now >= pending[p][u].unlock
  /\ Transfer(Vault, u, pending[p][u].amount)
  /\ UNCHANGED <<initialized, poolBalance, userBalance, pending, allocation, now, history>>

\* Wrong on purpose: the pool, lowered when the request was queued, is lowered
\* again when it is paid.
ClaimLowersPool(u, p) ==
  /\ now >= pending[p][u].unlock
  /\ pending' = [pending EXCEPT ![p][u] = NoRequest]
  /\ poolBalance' = [poolBalance EXCEPT ![p] = @ - pending[p][u].amount]
  /\ Transfer(Vault, u, pending[p][u].amount)
  /\ UNCHANGED <<initialized, userBalance, allocation, now, history>>

ClaimWithdrawal(u, p) ==
  /\ now >= pending[p][u].unlock
  /\ pending' = [pending EXCEPT ![p][u] = NoRequest]
  /\ Transfer(Vault, u, pending[p][u].amount)
  /\ UNCHANGED <<initialized, poolBalance, userBalance, allocation, now, history>>

\* Called by the engine; the tokens go to the engine.
Draw(p, shortfall) ==
  /\ shortfall <= poolBalance[p]
  /\ poolBalance' = [poolBalance EXCEPT ![p] = @ - shortfall]
  /\ Transfer(Vault, Engine, shortfall)
  /\ drawn' = [drawn EXCEPT ![p] = @ + shortfall]
  /\ UNCHANGED <<initialized, userBalance, pending, allocation, now, stranded, queuedAt>>

SetAllocation(p, weight) ==
  /\ initialized
  /\ allocation' = [allocation EXCEPT ![p] = weight]
  /\ UNCHANGED <<initialized, poolBalance, userBalance, pending, wallet, now, history>>

\* The ledger closes.
Tick ==
  /\ now < MaxTime
  /\ now' = now + 1
  /\ UNCHANGED <<initialized, poolBalance, userBalance, pending, allocation, wallet, history>>

Next ==
  \/ Initialize
  \/ \E u \in Users, p \in Pools, amount \in Amounts :
       Deposit(u, p, amount) \/ QueueWithdrawal(u, p, amount)
  \/ \E u \in Users, p \in Pools : ClaimWithdrawal(u, p)
  \/ \E p \in Pools, shortfall \in Amounts : Draw(p, shortfall)
  \/ \E p \in Pools, weight \in Weights : SetAllocation(p, weight)
  \/ Tick

Spec == Init /\ [][Next]_vars

-----------------------------------------------------------------------------
\* calculate_share, in basis points: division towards zero, of a balance that
\* draws and queued withdrawals may have taken to zero or below.
Share(p, u) ==
  LET scaled == userBalance[p][u] * BPS
      total  == poolBalance[p]
  IN  CASE total = 0 -> 0
        [] total > 0 -> scaled \div total
        [] total < 0 -> -(scaled \div (-total))

-----------------------------------------------------------------------------
(***************************************************************************)
(* Correctness.                                                            *)
(***************************************************************************)
\* A pool's balance is its depositors' balances less what was drawn from it:
\* deposits and queued withdrawals move both by the same amount, and a pool is
\* overdrawn by no more than its draws.
PoolsMatchShares ==
  \A p \in Pools : poolBalance[p] + drawn[p] = Total(userBalance[p], Users)

\* What was deposited and not claimed is in the contract or was drawn: tokens
\* held and drawn are exactly the balances, the requests that wait, and the
\* requests that were replaced.  No request is paid twice, and none out of
\* tokens that are not on the books.
Sums(f) == [p \in Pools |-> Total(f[p], Users)]
Requests == [p \in Pools |-> [u \in Users |-> pending[p][u].amount]]
TokensAccounted ==
  wallet[Vault] + Total(drawn, Pools)
    = Total(Sums(userBalance), Pools) + Total(Sums(Requests), Pools) + stranded

\* A request waits for a whole cooldown from the last time its user queued.
RequestsWait ==
  \A p \in Pools, u \in Users :
    pending[p][u] # NoRequest =>
      pending[p][u].unlock = queuedAt[p][u] + COOLDOWN_SECONDS
CapitalInv == TypeOK /\ PoolsMatchShares /\ TokensAccounted /\ RequestsWait

\* A user receives tokens only when a whole cooldown has passed since the
\* user's latest request in the pool that pays, also after a second request
\* before the first was claimed, or a request right after a claim.
CooldownHeld ==
  [][\A u \in Users : wallet'[u] > wallet[u] =>
       \E p \in Pools : /\ pending[p][u].amount = wallet'[u] - wallet[u]
                        /\ now >= queuedAt[p][u] + COOLDOWN_SECONDS]_vars

\* What the emissions code says of a share: basis points, 0 to 10,000.
ShareInBps == \A p \in Pools, u \in Users : Share(p, u) \in 0..BPS
=============================================================================
