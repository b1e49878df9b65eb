-------------------------------- MODULE Token --------------------------------
(***************************************************************************)
(* The Ergo token and the test assets: balances, allowances and the total  *)
(* supply.  The two contracts share every handler but faucet, which only   *)
(* the test assets have.                                                   *)
(*                                                                         *)
(* An address' authorization and the admin's are the caller's to give.     *)
(* The expiration ledger of approve is not kept.                           *)
(***************************************************************************)
EXTENDS Integers, FiniteSets, Tally

CONSTANTS
  Holders,
  FaucetLimit,     \* of one faucet call: 1 or 10 units; 0 for the Ergo token
  MaxAmount,       \* bound on the amount of a call
  MaxSupply        \* bound on what is issued, and on what an owner approves to one spender

ASSUME HoldersAssumption == IsFiniteSet(Holders)
ASSUME AmountsAssumption == FaucetLimit \in Nat /\ MaxAmount \in Nat /\ MaxSupply \in Nat

VARIABLES
  tokenAdmin,      \* initialize was called
  balance, totalSupply,
  allowance,       \* of an owner and a spender
  approved, spent  \* history of each allowance: the sum of the amounts approved
                   \* and of those spent

tokenVars == <<tokenAdmin, balance, totalSupply, allowance, approved, spent>>

Amounts == 0..MaxAmount
NoAllowances == [h \in Holders |-> [s \in Holders |-> 0]]

TokenTypeOK ==
  /\ tokenAdmin \in BOOLEAN /\ totalSupply \in Nat
  /\ balance \in [Holders -> Nat]
  /\ allowance \in [Holders -> [Holders -> Nat]]
  /\ approved \in [Holders -> [Holders -> Nat]] /\ spent \in [Holders -> [Holders -> Nat]]

TokenInit ==
  /\ tokenAdmin = FALSE /\ totalSupply = 0
  /\ balance = [h \in Holders |-> 0]
  /\ allowance = NoAllowances /\ approved = NoAllowances /\ spent = NoAllowances
-----------------------------------------------------------------------------
TokenInitialize ==
  /\ ~tokenAdmin /\ tokenAdmin' = TRUE
  /\ UNCHANGED <<balance, totalSupply, allowance, approved, spent>>

Issue(to, amount) ==
  /\ totalSupply + amount <= MaxSupply
  /\ balance' = [balance EXCEPT ![to] = @ + amount]
  /\ totalSupply' = totalSupply + amount
  /\ UNCHANGED <<tokenAdmin, allowance, approved, spent>>

\* The admin's.
Mint(to, amount) == tokenAdmin /\ Issue(to, amount)

\* Anyone's, any number of times.
FaucetMint(to, amount) == amount <= FaucetLimit /\ Issue(to, amount)

Approve(from, spender, amount) ==
  /\ approved[from][spender] + amount <= MaxSupply
  /\ allowance' = [allowance EXCEPT ![from][spender] = amount]
  /\ approved' = [approved EXCEPT ![from][spender] = @ + amount]
  /\ UNCHANGED <<tokenAdmin, balance, totalSupply, spent>>

\* The receiver's balance is read when the sender's is written.
MovedAtOnce(from, to, amount) ==               \* mutant: both are read first
  [balance EXCEPT ![from] = balance[from] - amount, ![to] = balance[to] + amount]
Moved(from, to, amount) ==
  LET left == [balance EXCEPT ![from] = balance[from] - amount]
  IN [left EXCEPT ![to] = left[to] + amount]

Transfer(from, to, amount) ==
  /\ balance[from] >= amount
  /\ balance' = Moved(from, to, amount)
  /\ UNCHANGED <<tokenAdmin, totalSupply, allowance, approved, spent>>

SpendAllowance(spender, from, amount) ==
  /\ allowance[from][spender] >= amount
  /\ allowance' = [allowance EXCEPT ![from][spender] = @ - amount]
  /\ spent' = [spent EXCEPT ![from][spender] = @ + amount]

TransferFrom(spender, from, to, amount) ==
  /\ balance[from] >= amount
  /\ SpendAllowance(spender, from, amount)
  /\ balance' = Moved(from, to, amount)
  /\ UNCHANGED <<tokenAdmin, totalSupply, approved>>

Destroy(from, amount) ==
  /\ balance[from] >= amount
  /\ balance' = [balance EXCEPT ![from] = @ - amount]
  /\ totalSupply' = totalSupply - amount

Burn(from, amount) ==
  /\ Destroy(from, amount)
  /\ UNCHANGED <<tokenAdmin, allowance, approved, spent>>

BurnFrom(spender, from, amount) ==
  /\ SpendAllowance(spender, from, amount)
  /\ Destroy(from, amount)
  /\ UNCHANGED <<tokenAdmin, approved>>

TokenNext ==
  \/ TokenInitialize
  \/ \E amount \in Amounts, h \in Holders :
       Mint(h, amount) \/ FaucetMint(h, amount) \/ Burn(h, amount)
  \/ \E amount \in Amounts, from \in Holders, other \in Holders :
       \/ Approve(from, other, amount) \/ Transfer(from, other, amount)
       \/ BurnFrom(other, from, amount)
       \/ \E to \in Holders : TransferFrom(other, from, to, amount)
-----------------------------------------------------------------------------
\* The supply is what the holders have, also after a transfer to oneself, and
\* no interleaving of a spender's calls with new approvals lets it take more
\* than was approved in all (transfer, transfer_from, burn, burn_from, mint,
\* faucet, approve).
TokensConserved ==
  /\ totalSupply = Total(balance, Holders)
  /\ \A from \in Holders, spender \in Holders :
       spent[from][spender] + allowance[from][spender] <= approved[from][spender]
=============================================================================
