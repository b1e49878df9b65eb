------------------------- MODULE ClientTransactions -------------------------
(***************************************************************************)
(* How the client sends transactions: the builders of lib/transactions.ts, *)
(* the handlers of ErgoDashboard.tsx that build, sign, send and poll, the  *)
(* hook of lib/hooks/useTransactionBuilder.ts, addTrustline and            *)
(* signTransaction of lib/stellar-wallet.tsx, and the live globals of      *)
(* lib/rpc.ts and lib/config.ts.                                           *)
(*                                                                         *)
(* A click starts a flow of one or two transactions of one account; flows  *)
(* of different panels run at the same time.  A flow has a state per await *)
(* of its handler.  The user may switch the application's network, or the  *)
(* wallet its own, in the middle.  The ledger includes a pending           *)
(* transaction whose sequence number is next, while it is valid, or never. *)
(* One tick is ten seconds, five polls.                                    *)
(***************************************************************************)
EXTENDS Naturals, Sequences, FiniteSets

CONSTANTS
  Kinds,           \* what the user may click on
  MaxClicks,
  MaxMishaps       \* requests that fail or are put off, and network switches

AllKinds == {"supply", "borrow", "deposit", "unstake", "compliance", "fee",
             "hookSupply", "hookBorrow", "vote", "mainnet"}

ASSUME KindsAssumption == Kinds \subseteq AllKinds
ASSUME BoundsAssumption == MaxClicks \in Nat /\ MaxMishaps \in Nat

Networks == {"testnet", "mainnet"}
Clicks == 1..MaxClicks
Roles == {"trust", "approve", "act"}

VARIABLES
  network,         \* the network state, server, NETWORK_PASSPHRASE and config
  walletNetwork,   \* the network the wallet signs for
  flow,            \* click -> its flow
  tx,              \* click -> role -> transaction
  trustline,       \* the borrowed asset's trustline exists on the testnet
  history,         \* the transactions list: [click, network], 0: no click
  mishaps

vars == <<network, walletNetwork, flow, tx, trustline, history, mishaps>>

Phases == {"idle", "check", "build", "sign", "send", "poll", "publish", "done"}
Results == {"none", "done", "unpublished", "rejected", "refused", "failed", "timedout"}
\* next: the sequence number is still the account's next one.
NoTx == [state |-> "none", network |-> "testnet", next |-> FALSE, ttl |-> 0]
LostTx == [NoTx EXCEPT !.state = "lost"]
Idle == [kind |-> "supply", phase |-> "idle", role |-> "act", network |-> "testnet",
         slept |-> FALSE, polls |-> 0, result |-> "none",
         switched |-> FALSE, contended |-> FALSE]

Active(c) == flow[c].phase \notin {"idle", "done"}

\* The handlers.  panel: what a flow of theirs locks (Unlocked: nothing).  first:
\* what a flow starts with: an approval, a look for the trustline, the acting
\* transaction, or the request of a handler that sends no transaction.  polls:
\* the turns of a poll loop, of two seconds, in ticks.  validity: setTimeout, in
\* ticks; sixty seconds are cut to forty, which outlast every poll loop all the
\* same.  ids: whether the contract ids of the acting transaction are read at the
\* click.
HandleTxSubmit(first) ==
  [panel |-> "tx", first |-> first, polls |-> 2, validity |-> 3, ids |-> FALSE]
HandleBackstopDeposit ==
  [panel |-> "backstop", first |-> "approve", polls |-> 3, validity |-> 3, ids |-> FALSE]
HandleBackstopWithdraw ==
  [panel |-> "backstop", first |-> "act", polls |-> 3, validity |-> 3, ids |-> FALSE]
HandleComplianceTx ==
  [panel |-> "compliance", first |-> "act", polls |-> 2, validity |-> 4, ids |-> TRUE]
PayProposalFee ==
  [panel |-> "fee", first |-> "act", polls |-> 2, validity |-> 4, ids |-> TRUE]
UseTransactionBuilder(first) ==
  [panel |-> "hook", first |-> first, polls |-> 3, validity |-> 3, ids |-> FALSE]

\* Two more add to the transactions list without a transaction: a vote is posted
\* to the server, and a payment signed for mainnet is thrown away.
HandleVote ==
  [panel |-> "vote", first |-> "post", polls |-> 0, validity |-> 0, ids |-> FALSE]
HandleMainnetSignAndSubmit ==
  [panel |-> "mainnet", first |-> "load", polls |-> 0, validity |-> 3, ids |-> FALSE]

\* "supply" stands for supply and repay, "borrow" for borrow and withdraw.
Handler(kind) ==
  CASE kind = "supply" -> HandleTxSubmit("approve")
    [] kind = "borrow" -> HandleTxSubmit("check")
    [] kind = "deposit" -> HandleBackstopDeposit
    [] kind = "unstake" -> HandleBackstopWithdraw
    [] kind = "compliance" -> HandleComplianceTx
    [] kind = "fee" -> PayProposalFee
    [] kind = "hookSupply" -> UseTransactionBuilder("approve")
    [] kind = "hookBorrow" -> UseTransactionBuilder("act")
    [] kind = "vote" -> HandleVote
    [] kind = "mainnet" -> HandleMainnetSignAndSubmit

Panel(kind) == Handler(kind).panel
Unlocked == {"hook", "vote"}
Unsent == {"vote", "mainnet"}
ApprovesFirst == {kind \in AllKinds : Handler(kind).first = "approve"}

PollsTen(kind) == 2  \* mutant: ten turns everywhere
Polls(kind) == Handler(kind).polls
Validity(kind) == Handler(kind).validity

Transactions == [state : {"none", "built", "pending", "lost", "landed", "reverted"},
                 network : Networks, next : BOOLEAN, ttl : 0..4]
Flows == [kind : AllKinds, phase : Phases, role : Roles, network : Networks,
          slept : BOOLEAN, polls : 0..3, result : Results,
          switched : BOOLEAN, contended : BOOLEAN]

TypeOK ==
  /\ network \in Networks /\ walletNetwork \in Networks
  /\ flow \in [Clicks -> Flows] /\ tx \in [Clicks -> [Roles -> Transactions]]
  /\ trustline \in BOOLEAN
  /\ history \subseteq [click : 0..MaxClicks, network : Networks]
  /\ mishaps \in 0..MaxMishaps
  /\ \A c, d \in Clicks :  \* the flags that disable the buttons
       /\ Active(c) /\ Active(d) /\ Panel(flow[c].kind) = Panel(flow[d].kind)
       /\ Panel(flow[c].kind) \notin Unlocked
       => c = d

\* The two entries reloadTransactionsList makes up for a wallet without a list.
Samples == {[click |-> 0, network |-> "testnet"]}

Init ==
  /\ network = "testnet" /\ walletNetwork = "testnet"
  /\ flow = [c \in Clicks |-> Idle]
  /\ tx = [c \in Clicks |-> [r \in Roles |-> NoTx]]
  /\ trustline \in BOOLEAN
  /\ history = Samples /\ mishaps = 0
-----------------------------------------------------------------------------
(* The pieces of a flow. *)

Mishap == mishaps < MaxMishaps /\ mishaps' = mishaps + 1

\* The catch and finally of a handler: the flow ends and its panel unlocks.
End(c, result) ==
  flow' = [flow EXCEPT ![c].phase = "done", ![c].result = result,
                       ![c].slept = FALSE, ![c].polls = 0]

Goto(c, phase) == flow' = [flow EXCEPT ![c].phase = phase]

\* The network a leg talks to: addTrustline's is the one of the render the
\* click came from, every other reads the live globals.
LegNetwork(c) == IF flow[c].role = "trust" THEN flow[c].network ELSE network

\* Contract ids read at the click: the approval's asset, the compliance
\* contract, the token and the governance contract of the fee.
IdsOfClick(c) == flow[c].role = "approve" \/ Handler(flow[c].kind).ids

Current(c) == tx[c][flow[c].role]
SetTx(c, t) == tx' = [tx EXCEPT ![c][flow[c].role] = t]

-----------------------------------------------------------------------------
(* The steps of the handlers. *)

\* The button of a panel, disabled while a flow of it runs.
MayClickAgain(kind) == TRUE  \* mutant: the flag is not looked at
MayClick(kind) ==
  \/ Panel(kind) \in Unlocked
  \/ \A d \in Clicks : Active(d) => Panel(flow[d].kind) # Panel(kind)

Click(c) ==
  /\ flow[c].phase = "idle" /\ (c > 1 => flow[c - 1].phase # "idle")
  /\ \E kind \in Kinds :
       /\ MayClick(kind)
       /\ flow' = [flow EXCEPT ![c] =
            [Idle EXCEPT !.kind = kind, !.network = network,
               !.switched = walletNetwork # network,
               !.phase = CASE Handler(kind).first = "check" -> "check"
                           [] Handler(kind).first = "post" -> "publish"
                           [] OTHER -> "build",
               !.role = IF kind \in ApprovesFirst THEN "approve" ELSE "act"]]
  /\ UNCHANGED <<network, walletNetwork, tx, trustline, history, mishaps>>

\* handleTxSubmit looks for the trustline, always on the testnet's Horizon.
CheckTrustline(c) ==
  /\ flow[c].phase = "check"
  /\ flow' = [flow EXCEPT ![c].phase = "build",
                          ![c].role = IF trustline THEN "act" ELSE "trust"]
  /\ UNCHANGED <<network, walletNetwork, tx, trustline, history, mishaps>>

\* The sequence number getAccount answers is the account's next one.
ReadsNextAtClick(c) ==                         \* mutant: one read for both legs
  flow[c].role # "act" \/ tx[c]["approve"].state = "none"
ReadsNext(c) == TRUE

\* getAccount, the builder and prepareTransaction, whose simulation finds no
\* contract when the ids are of the other network.
Build(c) ==
  /\ flow[c].phase = "build" /\ flow[c].kind \notin Unsent
  /\ \/ /\ IdsOfClick(c) => flow[c].network = network
        /\ SetTx(c, [state |-> "built", network |-> LegNetwork(c),
                     next |-> ReadsNext(c), ttl |-> Validity(flow[c].kind)])
        /\ Goto(c, "sign")
     \/ /\ IdsOfClick(c) /\ flow[c].network # network
        /\ End(c, "refused") /\ UNCHANGED tx
  /\ UNCHANGED <<network, walletNetwork, trustline, history, mishaps>>

\* signTransaction: the wallet signs for its own network, or the user says
\* no.  The signature is worth nothing on another network.
Sign(c) ==
  /\ flow[c].phase = "sign" /\ flow[c].kind \notin Unsent
  /\ \/ /\ SetTx(c, IF walletNetwork = Current(c).network THEN Current(c)
                    ELSE LostTx)
        /\ Goto(c, "send")
     \/ /\ End(c, "rejected") /\ SetTx(c, NoTx)
  /\ UNCHANGED <<network, walletNetwork, trustline, history, mishaps>>

\* Another transaction of the account waits for the next ledger.
Queued(c) == \E d \in Clicks, r \in Roles :
  tx[d][r].state = "pending" /\ tx[d][r].network = LegNetwork(c)

\* sendTransaction, or submitTransaction of Horizon: ERROR ends the flow;
\* PENDING and TRY_AGAIN_LATER both lead to the polls.
Send(c) ==
  /\ flow[c].phase = "send"
  /\ LET t == Current(c)
         valid == t.state = "built" /\ t.network = LegNetwork(c) /\ t.ttl > 0 /\ t.next
         wait == flow' = [flow EXCEPT ![c].phase = "poll", ![c].slept = FALSE,
                                      ![c].polls = Polls(flow[c].kind)]
     IN
       \/ /\ valid /\ ~Queued(c)
          /\ SetTx(c, [t EXCEPT !.state = "pending"]) /\ wait /\ mishaps' = mishaps
       \/ /\ valid
          /\ SetTx(c, LostTx) /\ wait
          /\ \/ Queued(c) /\ mishaps' = mishaps
             \/ ~Queued(c) /\ Mishap
       \/ /\ ~valid
          /\ SetTx(c, LostTx)
          /\ End(c, IF t.state = "built" /\ t.ttl = 0 THEN "timedout" ELSE "refused")
          /\ mishaps' = mishaps
  /\ UNCHANGED <<network, walletNetwork, trustline, history>>

\* addTransactionHistoryEntry, with the network of the page the click came from.
AddTransactionHistoryEntry(c) ==
  history' = history \cup {[click |-> c, network |-> flow[c].network]}

\* handleMainnetSignAndSubmit loads the account, has a payment signed, sends
\* nothing and lists the action under a random hash.
LoadAccount(c) ==
  /\ flow[c].phase = "build" /\ flow[c].kind = "mainnet"
  /\ Goto(c, "sign")
  /\ UNCHANGED <<network, walletNetwork, tx, trustline, history, mishaps>>

SignMainnet(c) ==
  /\ flow[c].phase = "sign" /\ flow[c].kind = "mainnet"
  /\ \/ /\ End(c, "done")
        /\ history' = history \cup {[click |-> c, network |-> "mainnet"]}
     \/ End(c, "rejected") /\ UNCHANGED history
  /\ UNCHANGED <<network, walletNetwork, tx, trustline, mishaps>>

\* A leg has succeeded: the next one, the publication of the proposal, or the
\* history entry and the receipt.
Succeed(c) ==
  \/ /\ flow[c].role # "act"
     /\ flow' = [flow EXCEPT ![c].phase = "build", ![c].role = "act",
                             ![c].slept = FALSE, ![c].polls = 0]
     /\ UNCHANGED history
  \/ /\ flow[c].role = "act" /\ flow[c].kind = "fee"
     /\ flow' = [flow EXCEPT ![c].phase = "publish", ![c].slept = FALSE, ![c].polls = 0]
     /\ UNCHANGED history
  \/ /\ flow[c].role = "act" /\ Panel(flow[c].kind) = "hook"
     /\ End(c, "done") /\ UNCHANGED history
  \/ /\ flow[c].role = "act" /\ Panel(flow[c].kind) \notin {"hook", "fee"}
     /\ End(c, "done") /\ AddTransactionHistoryEntry(c)

\* What getTransaction answers, from the network the application is on now.
StatusOfAny(c) ==  \* mutant: a transaction that is queued counts as done
  IF Current(c).state = "pending" THEN "landed" ELSE Current(c).state
Status(c) == IF Current(c).network = network THEN Current(c).state ELSE "pending"

PollsLeftSame(n) == n  \* mutant: the loop does not count
PollsLeft(n) == n - 1

\* The turns of a poll loop that fall in one tick.
Poll(c) ==
  /\ flow[c].phase = "poll" /\ flow[c].slept /\ flow[c].role # "trust"
  /\ \/ Status(c) = "landed" /\ Succeed(c)
     \/ Status(c) = "reverted" /\ End(c, "failed") /\ UNCHANGED history
     \/ /\ Status(c) \in {"pending", "lost"} /\ UNCHANGED history
        /\ LET left == PollsLeft(flow[c].polls) IN
             \/ left = 0 /\ End(c, "timedout")
             \/ left # 0 /\ flow' = [flow EXCEPT ![c].polls = left, ![c].slept = FALSE]
  /\ UNCHANGED <<network, walletNetwork, tx, trustline, mishaps>>

\* submitTransaction of Horizon answers when the transaction is in a ledger,
\* or cannot get into one.
Horizon(c) ==
  /\ flow[c].phase = "poll" /\ flow[c].role = "trust"
  /\ \/ Current(c).state = "landed" /\ Succeed(c)
     \/ Current(c).state = "reverted" /\ End(c, "failed") /\ UNCHANGED history
     \/ Current(c).state = "lost" /\ End(c, "timedout") /\ UNCHANGED history
  /\ UNCHANGED <<network, walletNetwork, tx, trustline, mishaps>>

\* payProposalFee publishes the proposal it was paid for, once; handleVote
\* posts the vote.
Publish(c) ==
  /\ flow[c].phase = "publish"
  /\ \/ End(c, "done") /\ AddTransactionHistoryEntry(c)
     \/ End(c, "unpublished") /\ UNCHANGED history
  /\ UNCHANGED <<network, walletNetwork, tx, trustline, mishaps>>

\* A request of the flow throws: the handler gives up, whatever it has sent.
RequestFails(c) ==
  /\ flow[c].phase \in {"check", "build", "send", "poll", "publish"} /\ Mishap
  /\ End(c, "failed")
  /\ IF Current(c).state = "built" THEN SetTx(c, NoTx) ELSE UNCHANGED tx
  /\ UNCHANGED <<network, walletNetwork, trustline, history>>
-----------------------------------------------------------------------------
(* The user, the ledger and the clock. *)

\* The network toggle, with the effect that calls setRpcNetwork, and the
\* wallet's own: the user moves the one, the other or both.
SwitchNetwork ==
  /\ Mishap
  /\ network' \in Networks /\ walletNetwork' \in Networks
  /\ <<network', walletNetwork'>> # <<network, walletNetwork>>
  /\ flow' = [c \in Clicks |-> [flow[c] EXCEPT !.switched = @ \/ Active(c)]]
  /\ UNCHANGED <<tx, trustline, history>>

\* A ledger includes a transaction, which succeeds or fails.  Others built
\* with the same sequence number are void.
Include(c, r) ==
  /\ tx[c][r].state = "pending"
  /\ LET n == tx[c][r].network IN
       \E state \in {"landed", "reverted"} :
         /\ tx' = [d \in Clicks |-> [q \in Roles |->
              IF d = c /\ q = r THEN [NoTx EXCEPT !.state = state, !.network = n]
              ELSE [tx[d][q] EXCEPT !.next = @ /\ tx[d][q].network # n]]]
         /\ trustline' = (trustline \/ (r = "trust" /\ state = "landed" /\ n = "testnet"))
  /\ flow' = [d \in Clicks |->
               [flow[d] EXCEPT !.contended = @ \/ (d # c /\ Active(d))]]
  /\ UNCHANGED <<network, walletNetwork, history, mishaps>>

\* Ten seconds pass; a pending transaction whose time is up is void.
Tick ==
  /\ \/ \E c \in Clicks, r \in Roles : tx[c][r].ttl > 0
     \/ \E c \in Clicks : flow[c].phase = "poll" /\ ~flow[c].slept
  /\ tx' = [c \in Clicks |-> [r \in Roles |->
       LET t == tx[c][r] IN
         IF t.state = "pending" /\ t.ttl = 1 THEN LostTx
         ELSE [t EXCEPT !.ttl = IF @ > 0 THEN @ - 1 ELSE 0]]]
  /\ flow' = [c \in Clicks |->
                [flow[c] EXCEPT !.slept = @ \/ flow[c].phase = "poll"]]
  /\ UNCHANGED <<network, walletNetwork, trustline, history, mishaps>>
-----------------------------------------------------------------------------
FlowStep(c) ==
  \/ CheckTrustline(c) \/ Build(c) \/ LoadAccount(c) \/ Send(c)
  \/ Poll(c) \/ Horizon(c) \/ Publish(c)

Next ==
  \/ \E c \in Clicks : Click(c) \/ FlowStep(c) \/ Sign(c) \/ SignMainnet(c) \/ RequestFails(c)
  \/ \E c \in Clicks, r \in Roles : Include(c, r)
  \/ SwitchNetwork \/ Tick

\* Requests are answered, timers fire and time passes.  Nothing makes the
\* user click or sign, nor the ledger include a transaction.
Spec == Init /\ [][Next]_vars /\ WF_vars(Tick) /\ \A c \in Clicks : WF_vars(FlowStep(c))
-----------------------------------------------------------------------------
(* Properties. *)

\* What a handler that polls puts on the transactions list is true: the entry's
\* acting transaction has succeeded on the ledger, on the network the entry
\* links to unless a network was switched while the flow ran, and after the
\* flow's own approval where it has one (addTransactionHistoryEntry at the end of
\* each handler).  The list as a whole is not: the entries a new wallet starts
\* with, those of votes and those of handleMainnetSignAndSubmit have no
\* transaction behind them.
PolledEntriesAreTrue ==
  \A h \in history \ Samples :
    LET acts == tx[h.click]["act"]
        f == flow[h.click]
    IN f.kind \notin Unsent =>
         /\ acts.state = "landed" /\ (acts.network = h.network \/ f.switched)
         /\ f.kind \in ApprovesFirst => tx[h.click]["approve"].state = "landed"

\* A flow of the backstop's panel or of the hook that gave up polling, with
\* no switch of network, has left no transaction that lands afterwards: fifteen
\* turns outlast thirty seconds of validity, so that a retry does not act
\* twice.  (Ten turns, as in the other handlers, do not.)
TimedOutIsDead ==
  \A c \in Clicks :
    /\ flow[c].result = "timedout" /\ ~flow[c].switched
    /\ Panel(flow[c].kind) \in {"backstop", "hook"}
    => tx[c][flow[c].role].state \notin {"landed", "reverted"}

\* A flow does not get in its own way: the network refuses one of its
\* transactions only if another flow's landed, or a network was switched, while
\* it ran, or the wallet was on another network.  Each leg reads its sequence
\* number after the leg before is in a ledger (getAccount in each builder).
RefusedOnlyIfTouched ==
  \A c \in Clicks :
    flow[c].result = "refused" => flow[c].switched \/ flow[c].contended

\* No panel stays locked: in the end every flow is over or waits for the
\* wallet, whatever is lost, put off or never included (the bounded poll loops
\* and the finally of each handler).
PanelUnlocks == <>[](\A c \in Clicks : Active(c) => flow[c].phase = "sign")
=============================================================================
