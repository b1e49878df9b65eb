------------------------------- MODULE Faucet -------------------------------
(***************************************************************************)
(* The faucet: FaucetItem of ErgoDashboard.tsx asking routes/faucet.ts,    *)
(* which pays every request from one account of the ledger.                *)
(*                                                                         *)
(* A payment carries the number the account had when the request loaded    *)
(* it, and is good for 30 s.  Requests of several users overlap, and       *)
(* nothing keeps two of them from loading the same number.                 *)
(***************************************************************************)
EXTENDS Naturals, FiniteSets

CONSTANTS
  Users,
  MaxAsks,         \* bound on the requests of a user
  MaxMishaps       \* bound on lost answers, payments that expire and calls that fail

ASSUME FaucetAssumption == MaxAsks \in Nat /\ MaxMishaps \in Nat

VARIABLES
  \* The page of each user, and the request the server handles for it.
  request,         \* its state, and the number its payment carries
  \* The ledger.
  number,          \* the sequence number of the faucet's account
  queued,          \* the users whose payment waits for the next ledger
  paid,            \* payments to each user
  \* Bounds and history.
  asks, mishaps,
  told,            \* requests of each user that were answered with success
  unsure,          \* requests of each user whose answer was lost
  touched          \* users whose payment another one has come before

faucetVars == <<request, number, queued, paid, asks, mishaps, told, unsure, touched>>

States == {"none", "trustline", "asking", "loaded", "submitted", "included"}

FaucetTypeOK ==
  /\ request \in [Users -> [state : States, number : Nat]]
  /\ number \in Nat /\ queued \subseteq Users /\ Cardinality(queued) <= 1
  /\ \A u \in Users : request[u].state = "submitted" => queued = {u}
  /\ paid \in [Users -> Nat] /\ told \in [Users -> Nat] /\ unsure \in [Users -> Nat]
  /\ asks \in [Users -> 0..MaxAsks] /\ mishaps \in 0..MaxMishaps /\ touched \subseteq Users

NoRequest == [state |-> "none", number |-> 0]
Zero == [u \in Users |-> 0]

FaucetInit ==
  /\ request = [u \in Users |-> NoRequest]
  /\ number = 0 /\ queued = {} /\ paid = Zero
  /\ asks = Zero /\ mishaps = 0
  /\ told = Zero /\ unsure = Zero /\ touched = {}

Mishap == mishaps < MaxMishaps /\ mishaps' = mishaps + 1
-----------------------------------------------------------------------------
\* handleFaucetRequest: the button is off until the request is answered.
Ask(u) ==
  /\ request[u].state = "none" /\ asks[u] < MaxAsks
  /\ asks' = [asks EXCEPT ![u] = @ + 1]
  /\ request' = [request EXCEPT ![u].state = "trustline"]
  /\ UNCHANGED <<number, queued, paid, mishaps, told, unsure, touched>>

\* addTrustline: the wallet signs and the page posts the request, or it gives up.
TrustlineAnswers(u) ==
  /\ request[u].state = "trustline"
  /\ \E state \in {"asking", "none"} : request' = [request EXCEPT ![u].state = state]
  /\ UNCHANGED <<number, queued, paid, asks, mishaps, told, unsure, touched>>

\* TransactionBuilder: the payment has the number after the account's.
NextNumberSame(n) == n                         \* mutant: the account's own
NextNumber(n) == n + 1

\* POST /faucet: loadAccount, which may fail.
LoadAccount(u) ==
  /\ request[u].state = "asking"
  /\ \/ /\ request' = [request EXCEPT ![u] = [state |-> "loaded", number |-> NextNumber(number)]]
        /\ touched' = IF queued = {} THEN touched \ {u} ELSE touched \cup {u}
        /\ UNCHANGED mishaps
     \/ Mishap /\ request' = [request EXCEPT ![u] = NoRequest] /\ UNCHANGED touched
  /\ UNCHANGED <<number, queued, paid, asks, told, unsure>>

\* The ledger's rule: the number is the next one, and no other payment of the
\* account waits.
Queues(u) == request[u].number = number + 1 /\ queued = {}

\* submitTransaction: the payment is queued, or refused with an error.
Submit(u) ==
  /\ request[u].state = "loaded"
  /\ \/ /\ Queues(u) /\ queued' = {u}
        /\ request' = [request EXCEPT ![u].state = "submitted"]
        /\ touched' = touched \cup (Users \ {u})
     \/ /\ ~Queues(u) /\ request' = [request EXCEPT ![u] = NoRequest]
        /\ UNCHANGED <<queued, touched>>
  /\ UNCHANGED <<number, paid, asks, mishaps, told, unsure>>

Forgotten(u) == [request EXCEPT ![u] = NoRequest]

\* The next ledger has the payment.
Include(u) ==
  /\ u \in queued
  /\ queued' = {} /\ number' = number + 1
  /\ paid' = [paid EXCEPT ![u] = @ + 1]
  /\ request' = IF request[u].state = "submitted" THEN [request EXCEPT ![u].state = "included"]
                                                  ELSE request
  /\ UNCHANGED <<asks, mishaps, told, unsure, touched>>

\* No ledger had it within 30 s: it is refused from now on, with an error.
Expire(u) ==
  /\ u \in queued /\ Mishap
  /\ queued' = {}
  /\ request' = IF request[u].state = "submitted" THEN Forgotten(u) ELSE request
  /\ UNCHANGED <<number, paid, asks, told, unsure, touched>>

\* The answer with the hash reaches the page.
Success(u) ==
  /\ request[u].state = "included"
  /\ request' = Forgotten(u) /\ told' = [told EXCEPT ![u] = @ + 1]
  /\ UNCHANGED <<number, queued, paid, asks, mishaps, unsure, touched>>

\* The ledger's answer, or the server's, is lost: the page shows an error.
AnswerLost(u) ==
  /\ request[u].state \in {"submitted", "included"} /\ Mishap
  /\ request' = Forgotten(u) /\ unsure' = [unsure EXCEPT ![u] = @ + 1]
  /\ UNCHANGED <<number, queued, paid, asks, told, touched>>

FaucetNext ==
  \E u \in Users :
    \/ Ask(u) \/ TrustlineAnswers(u) \/ LoadAccount(u) \/ Submit(u)
    \/ Include(u) \/ Expire(u) \/ Success(u) \/ AnswerLost(u)
-----------------------------------------------------------------------------
\* A user who was told of success was paid, and nobody is paid for a request
\* that failed unless its answer was lost; a payment that is not yet submitted
\* will be refused only if another one has come before it since the account was
\* loaded (POST /faucet, where two requests may load the same number).
FaucetPays ==
  \A u \in Users :
    /\ request[u].state # "included" /\ u \notin queued =>
         told[u] <= paid[u] /\ paid[u] <= told[u] + unsure[u]
    /\ request[u].state = "loaded" /\ u \notin touched => Queues(u)
=============================================================================
