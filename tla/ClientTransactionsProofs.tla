------------------------ MODULE ClientTransactionsProofs ------------------------
(***************************************************************************)
(* The transactions of the client, for any number of clicks, mishaps and   *)
(* kinds of flows.                                                         *)
(*                                                                         *)
(* What the properties say of a flow that is over depends on what its      *)
(* transactions were while it ran: which phase goes with which state of    *)
(* the transaction, that only the current leg's can be pending, on which   *)
(* network they were built, how long they are valid, and what made their   *)
(* sequence numbers stale.  FlowInv says this of one click; a click's flow *)
(* and transactions are moved by its own steps, the ledger, the clock and  *)
(* the network switch only.                                                *)
(***************************************************************************)
EXTENDS ClientTransactions, TLAPS

Patient == {"backstop", "hook"}

\* The phase and the transactions that go with it.
Shape(c) ==
  LET f == flow[c]
      t == Current(c)
  IN /\ f.phase \in {"idle", "check"} => \A r \in Roles : tx[c][r].state = "none"
     /\ f.phase = "check" \/ f.role = "trust" => Handler(f.kind).first = "check"
     /\ Active(c) => \A r \in Roles \ {f.role} : tx[c][r].state \in {"none", "landed"}
     /\ f.phase = "sign" /\ f.kind \notin Unsent => t.state = "built"
     /\ f.phase \in {"send", "poll"} => f.kind \notin Unsent
     /\ f.phase = "build" /\ f.kind \in Unsent => t.state = "none"
     /\ f.phase = "send" => t.state = "built" \/ (t.state = "lost" /\ f.switched)
     /\ f.phase = "poll" => f.polls # 0 /\ t.state \in {"pending", "lost", "landed", "reverted"}
     /\ f.phase = "publish" =>
          f.role = "act" /\ (f.kind = "vote" \/ (f.kind = "fee" /\ t.state = "landed"))
     /\ f.phase # "idle" /\ f.role = "act" /\ f.kind \in ApprovesFirst
          => tx[c]["approve"].state = "landed"
     /\ f.result # "none" => f.phase = "done"

\* A pending transaction is valid, and not for longer than its flow polls.
Dated(c) ==
  LET f == flow[c]
      t == Current(c)
  IN /\ \A r \in Roles : tx[c][r].state = "pending" => tx[c][r].ttl # 0
     /\ Panel(f.kind) \in Patient =>
          /\ f.phase \in {"sign", "send"} => t.ttl <= 3
          /\ f.phase = "poll" /\ t.state = "pending" =>
               t.ttl <= f.polls /\ (f.slept => t.ttl < f.polls)

\* Without a switch everything is of the network of the click.
OnNetwork(c) ==
  LET f == flow[c]
  IN ~f.switched =>
       /\ Active(c) => f.network = network /\ f.network = walletNetwork
       /\ \A r \in Roles : tx[c][r].state \in {"built", "pending", "landed", "reverted"}
                             => tx[c][r].network = f.network

\* The number of a signed transaction is next, unless others came between.
Numbered(c) ==
  LET f == flow[c]
      t == Current(c)
  IN f.phase \in {"sign", "send"} /\ t.state = "built" => t.next \/ f.switched \/ f.contended

\* What is left of a flow that is over.
Ended(c) ==
  LET f == flow[c]
  IN /\ f.result = "timedout" /\ ~f.switched /\ Panel(f.kind) \in Patient
          => Current(c).state = "lost"
     /\ f.result = "refused" => f.switched \/ f.contended

FlowInv(c) == Shape(c) /\ Dated(c) /\ OnNetwork(c) /\ Numbered(c) /\ Ended(c)

\* An entry of the transactions list is a flow that is over and has acted, if
\* it is one that polls.
Entered(h) ==
  LET f == flow[h.click]
  IN /\ h.click \in Clicks /\ f.phase = "done"
     /\ f.kind \notin Unsent =>
          f.role = "act" /\ f.network = h.network /\ tx[h.click]["act"].state = "landed"

TransactionsInv ==
  TypeOK /\ (\A c \in Clicks : FlowInv(c)) /\ (\A h \in history \ Samples : Entered(h))
-----------------------------------------------------------------------------
(* Types, and what a handler is. *)

Typed ==
  /\ network \in Networks /\ walletNetwork \in Networks
  /\ flow \in [Clicks -> Flows] /\ tx \in [Clicks -> [Roles -> Transactions]]
  /\ trustline \in BOOLEAN
  /\ history \subseteq [click : 0..MaxClicks, network : Networks]
  /\ mishaps \in 0..MaxMishaps

\* The flags that disable the buttons.
Locked ==
  \A c, d \in Clicks :
    /\ Active(c) /\ Active(d) /\ Panel(flow[c].kind) = Panel(flow[d].kind)
    /\ Panel(flow[c].kind) \notin Unlocked
    => c = d

LEMMA TypeParts == TypeOK <=> Typed /\ Locked
BY DEF TypeOK, Typed, Locked

LEMMA HandlerFacts ==
  ASSUME NEW kind \in AllKinds
  PROVE  /\ kind \notin Unsent => Polls(kind) \in {2, 3} /\ Validity(kind) \in {3, 4}
         /\ Handler(kind).first \in {"approve", "check", "act", "post", "load"}
         /\ Handler(kind).first = "post" => kind = "vote"
         /\ kind \in ApprovesFirst <=> Handler(kind).first = "approve"
         /\ Panel(kind) \in Patient => Polls(kind) = 3 /\ Validity(kind) = 3
         /\ kind \in {"fee", "vote"} => kind \notin ApprovesFirst
<1>1. CASE kind = "supply"
  BY <1>1 DEF Handler, Panel, Polls, Validity, ApprovesFirst, AllKinds, Unsent, Patient,
              HandleTxSubmit
<1>2. CASE kind = "borrow"
  BY <1>2 DEF Handler, Panel, Polls, Validity, ApprovesFirst, AllKinds, Unsent, Patient,
              HandleTxSubmit
<1>3. CASE kind = "deposit"
  BY <1>3 DEF Handler, Panel, Polls, Validity, ApprovesFirst, AllKinds, Unsent, Patient,
              HandleBackstopDeposit
<1>4. CASE kind = "unstake"
  BY <1>4 DEF Handler, Panel, Polls, Validity, ApprovesFirst, AllKinds, Unsent, Patient,
              HandleBackstopWithdraw
<1>5. CASE kind = "compliance"
  BY <1>5 DEF Handler, Panel, Polls, Validity, ApprovesFirst, AllKinds, Unsent, Patient,
              HandleComplianceTx
<1>6. CASE kind = "fee"
  BY <1>6 DEF Handler, Panel, Polls, Validity, ApprovesFirst, AllKinds, Unsent, Patient,
              PayProposalFee
<1>7. CASE kind = "hookSupply"
  BY <1>7 DEF Handler, Panel, Polls, Validity, ApprovesFirst, AllKinds, Unsent, Patient,
              UseTransactionBuilder
<1>8. CASE kind = "hookBorrow"
  BY <1>8 DEF Handler, Panel, Polls, Validity, ApprovesFirst, AllKinds, Unsent, Patient,
              UseTransactionBuilder
<1>9. CASE kind = "vote"
  BY <1>9 DEF Handler, Panel, Polls, Validity, ApprovesFirst, AllKinds, Unsent, Patient,
              HandleVote
<1>10. CASE kind = "mainnet"
  BY <1>10 DEF Handler, Panel, Polls, Validity, ApprovesFirst, AllKinds, Unsent, Patient,
               HandleMainnetSignAndSubmit
<1>11. QED
  BY <1>1, <1>2, <1>3, <1>4, <1>5, <1>6, <1>7, <1>8, <1>9, <1>10 DEF AllKinds

LEMMA PatientSends ==
  ASSUME NEW kind, Panel(kind) \in Patient
  PROVE  kind \notin Unsent
BY DEF Panel, Handler, Unsent, Patient, HandleVote, HandleMainnetSignAndSubmit

LEMMA PlainTypes ==
  /\ NoTx \in Transactions /\ LostTx \in Transactions
  /\ NoTx.state = "none" /\ LostTx.state = "lost"
<1>1. NoTx \in Transactions /\ NoTx.state = "none" BY DEF NoTx, Transactions, Networks
<1>2. LostTx \in Transactions /\ LostTx.state = "lost"
  BY <1>1 DEF LostTx, Transactions
<1>3. QED BY <1>1, <1>2

\* A step of one flow.
Own(c) ==
  /\ flow' \in [Clicks -> Flows] /\ tx' \in [Clicks -> [Roles -> Transactions]]
  /\ \A d \in Clicks \ {c} : flow'[d] = flow[d] /\ tx'[d] = tx[d]
  /\ UNCHANGED <<network, walletNetwork>>

LEMMA Elsewhere ==
  ASSUME NEW d \in Clicks, FlowInv(d), flow'[d] = flow[d], tx'[d] = tx[d],
         UNCHANGED <<network, walletNetwork>>
  PROVE  FlowInv(d)'
BY DEF FlowInv, Shape, Dated, OnNetwork, Numbered, Ended, Current, Active

\* The transaction of the current leg is replaced.
LEMMA SetTxFacts ==
  ASSUME Typed, NEW c \in Clicks, NEW t \in Transactions, SetTx(c, t)
  PROVE  /\ tx' \in [Clicks -> [Roles -> Transactions]]
         /\ tx'[c][flow[c].role] = t
         /\ \A r \in Roles \ {flow[c].role} : tx'[c][r] = tx[c][r]
         /\ \A d \in Clicks \ {c} : tx'[d] = tx[d]
<1>1. flow[c].role \in Roles BY DEF Typed, Flows
<1>2. tx \in [Clicks -> [Roles -> Transactions]] BY DEF Typed
<1>3. QED BY <1>1, <1>2 DEF SetTx

LEMMA EndFacts ==
  ASSUME Typed, NEW c \in Clicks, NEW result \in Results, End(c, result)
  PROVE  /\ flow' \in [Clicks -> Flows]
         /\ flow'[c] = [flow[c] EXCEPT !.phase = "done", !.result = result,
                                       !.slept = FALSE, !.polls = 0]
         /\ \A d \in Clicks \ {c} : flow'[d] = flow[d]
<1> DEFINE f == [flow[c] EXCEPT !.phase = "done", !.result = result,
                                 !.slept = FALSE, !.polls = 0]
<1>1. flow \in [Clicks -> Flows] /\ flow[c] \in Flows BY DEF Typed
<1>2. f \in Flows
  <2>1. "done" \in Phases /\ 0 \in 0..3 BY DEF Phases
  <2>2. QED BY <1>1, <2>1 DEF Flows
<1>3. flow' = [flow EXCEPT ![c] = f] BY <1>1 DEF End
<1> HIDE DEF f
<1>4. flow' \in [Clicks -> Flows] /\ flow'[c] = f /\ \A d \in Clicks \ {c} : flow'[d] = flow[d]
  BY <1>1, <1>2, <1>3
<1>5. QED BY <1>4 DEF f

LEMMA GotoFacts ==
  ASSUME Typed, NEW c \in Clicks, NEW phase \in Phases, Goto(c, phase)
  PROVE  /\ flow' \in [Clicks -> Flows]
         /\ flow'[c] = [flow[c] EXCEPT !.phase = phase]
         /\ \A d \in Clicks \ {c} : flow'[d] = flow[d]
BY DEF Goto, Typed, Flows

\* What a click's record and its transactions are.
LEMMA FlowTypes ==
  ASSUME Typed, NEW c \in Clicks
  PROVE  /\ flow[c] \in Flows /\ flow[c].kind \in AllKinds /\ flow[c].role \in Roles
         /\ flow[c].network \in Networks /\ flow[c].polls \in 0..3
         /\ flow[c].slept \in BOOLEAN /\ flow[c].switched \in BOOLEAN
         /\ flow[c].contended \in BOOLEAN
         /\ \A r \in Roles : tx[c][r] \in Transactions
         /\ Current(c) = tx[c][flow[c].role] /\ Current(c) \in Transactions
BY DEF Typed, Flows, Current

-----------------------------------------------------------------------------
(* The steps of the handlers, one by one. *)

\* A flow that only ends, with its transactions as they are or dropped.
LEMMA EndKeeps ==
  ASSUME Typed, NEW c \in Clicks, FlowInv(c), Active(c), NEW result \in Results \ {"none"},
         End(c, result),
         \/ UNCHANGED tx
         \/ SetTx(c, NoTx) /\ Current(c).state = "built"
         \/ SetTx(c, LostTx) /\ Current(c).state \in {"built", "lost"},
         UNCHANGED <<network, walletNetwork>>,
         result = "timedout" /\ ~flow[c].switched /\ Panel(flow[c].kind) \in Patient
           => Current(c).state = "lost" \/ SetTx(c, LostTx),
         result = "refused" => flow[c].switched \/ flow[c].contended
  PROVE  Own(c) /\ FlowInv(c)' /\ flow'[c].phase = "done" /\ flow'[c].kind = flow[c].kind
<1>1. /\ flow' \in [Clicks -> Flows]
      /\ flow'[c] = [flow[c] EXCEPT !.phase = "done", !.result = result,
                                    !.slept = FALSE, !.polls = 0]
      /\ \A d \in Clicks \ {c} : flow'[d] = flow[d]
  BY EndFacts
<1>2. /\ flow'[c].phase = "done" /\ flow'[c].result = result
      /\ flow'[c].kind = flow[c].kind /\ flow'[c].role = flow[c].role
      /\ flow'[c].network = flow[c].network
      /\ flow'[c].switched = flow[c].switched /\ flow'[c].contended = flow[c].contended
  BY <1>1, FlowTypes DEF Flows
<1> DEFINE role == flow[c].role
<1>3. /\ tx' \in [Clicks -> [Roles -> Transactions]]
      /\ \A r \in Roles \ {role} : tx'[c][r] = tx[c][r]
      /\ \A d \in Clicks \ {c} : tx'[d] = tx[d]
      /\ \/ tx'[c][role] = tx[c][role]
         \/ tx'[c][role] = NoTx /\ tx[c][role].state = "built"
         \/ tx'[c][role] = LostTx /\ tx[c][role].state \in {"built", "lost"}
      /\ SetTx(c, LostTx) => tx'[c][role] = LostTx
  <2>1. CASE UNCHANGED tx /\ ~SetTx(c, LostTx) BY <2>1, FlowTypes DEF Typed
  <2>2. CASE SetTx(c, NoTx) /\ Current(c).state = "built" /\ ~SetTx(c, LostTx)
    BY <2>2, SetTxFacts, FlowTypes, PlainTypes
  <2>3. CASE SetTx(c, LostTx) /\ Current(c).state \in {"built", "lost"}
    BY <2>3, SetTxFacts, FlowTypes, PlainTypes
  <2>4. CASE UNCHANGED tx /\ SetTx(c, LostTx) 
    BY <2>4, SetTxFacts, FlowTypes, PlainTypes
  <2>5. CASE SetTx(c, NoTx) /\ Current(c).state = "built" /\ SetTx(c, LostTx)
    BY <2>5, SetTxFacts, FlowTypes, PlainTypes
  <2>6. QED BY <2>1, <2>2, <2>3, <2>4, <2>5
<1>4. role \in Roles /\ Current(c) = tx[c][role] /\ Current(c)' = tx'[c][role]
  BY <1>2, FlowTypes DEF Current
<1>5. ~Active(c)' BY <1>2 DEF Active
<1>6. Shape(c)'
  <2>1. flow[c].role = "act" /\ flow[c].kind \in ApprovesFirst => tx'[c]["approve"].state = "landed"
    <3>1. ASSUME flow[c].role = "act", flow[c].kind \in ApprovesFirst
          PROVE  tx'[c]["approve"] = tx[c]["approve"] /\ tx[c]["approve"].state = "landed"
      BY <1>3, <3>1 DEF FlowInv, Shape, Active, Roles
    <3>2. QED BY <3>1
  <2>2. flow[c].role = "trust" => Handler(flow[c].kind).first = "check" BY DEF FlowInv, Shape
  <2>3. QED BY <1>2, <1>5, <2>1, <2>2 DEF Shape
<1>7. Dated(c)'
  <2>1. \A r \in Roles : tx'[c][r].state = "pending" => tx'[c][r].ttl # 0
    BY <1>3, PlainTypes DEF FlowInv, Dated
  <2>2. QED BY <1>2, <2>1 DEF Dated
<1>8. OnNetwork(c)'
  <2>1. ASSUME ~flow[c].switched, NEW r \in Roles,
               tx'[c][r].state \in {"built", "pending", "landed", "reverted"}
        PROVE  tx'[c][r].network = flow[c].network
    <3>1. tx'[c][r] = tx[c][r] BY <1>3, <2>1, PlainTypes
    <3>2. QED BY <2>1, <3>1 DEF FlowInv, OnNetwork
  <2>2. QED BY <1>2, <1>5, <2>1 DEF OnNetwork
<1>9. Numbered(c)' BY <1>2 DEF Numbered
<1>10. Ended(c)'
  <2>1. result = "timedout" /\ ~flow[c].switched /\ Panel(flow[c].kind) \in Patient
          => tx'[c][role].state = "lost"
    BY <1>3, <1>4, PlainTypes
  <2>2. QED BY <1>2, <1>4, <2>1 DEF Ended
<1>11. QED BY <1>1, <1>2, <1>3, <1>6, <1>7, <1>8, <1>9, <1>10 DEF Own, FlowInv

\* What a step of a flow does besides: the flow was under way, its kind stays,
\* and what it enters in the list is true.
Lawful(c) ==
  /\ Own(c) /\ FlowInv(c)'
  /\ Active(c) /\ flow'[c].kind = flow[c].kind
  /\ history' \subseteq [click : 0..MaxClicks, network : Networks]
  /\ \A h \in history' : h \in history \/ (h.click = c /\ Entered(h)')

LEMMA CheckKeeps ==
  ASSUME Typed, NEW c \in Clicks, FlowInv(c), CheckTrustline(c)
  PROVE  Lawful(c)
<1>1. /\ flow[c].phase = "check" /\ flow[c] \in Flows
      /\ flow' = [flow EXCEPT ![c].phase = "build",
                              ![c].role = IF trustline THEN "act" ELSE "trust"]
      /\ UNCHANGED <<network, walletNetwork, tx, trustline, history, mishaps>>
  BY FlowTypes DEF CheckTrustline
<1>2. PICK role \in {"act", "trust"} : role = IF trustline THEN "act" ELSE "trust" OBVIOUS
<1> DEFINE f == [flow[c] EXCEPT !.phase = "build", !.role = role]
<1>3. /\ f \in Flows /\ f.phase = "build" /\ f.role = role /\ f.kind = flow[c].kind
      /\ f.network = flow[c].network /\ f.switched = flow[c].switched
      /\ f.contended = flow[c].contended /\ f.result = flow[c].result
  BY <1>1 DEF Flows, Phases, Roles
<1>4. flow' = [flow EXCEPT ![c] = f] BY <1>1, <1>2 DEF Typed
<1> HIDE DEF f
<1>5. flow' \in [Clicks -> Flows] /\ flow'[c] = f /\ \A d \in Clicks \ {c} : flow'[d] = flow[d]
  BY <1>3, <1>4 DEF Typed
<1>6. /\ \A r \in Roles : tx'[c][r].state = "none"
      /\ Handler(flow[c].kind).first = "check" /\ flow[c].result = "none"
  BY <1>1 DEF FlowInv, Shape
<1>7. flow[c].kind \notin ApprovesFirst BY <1>6, FlowTypes, HandlerFacts
<1>8. Shape(c)'
  <2>1. Current(c)'.state = "none" BY <1>3, <1>5, <1>6, <1>2 DEF Current, Roles
  <2>2. QED BY <1>3, <1>5, <1>6, <1>7, <2>1 DEF Shape, Active
<1>9. Dated(c)' BY <1>3, <1>5, <1>6 DEF Dated
<1>10. OnNetwork(c)' BY <1>1, <1>3, <1>5 DEF FlowInv, OnNetwork, Active
<1>11. Numbered(c)' /\ Ended(c)' BY <1>3, <1>5, <1>6 DEF Numbered, Ended
<1>12. QED
  BY <1>1, <1>3, <1>5, <1>8, <1>9, <1>10, <1>11 DEF Lawful, Own, FlowInv, Active, Typed

LEMMA BuildKeeps ==
  ASSUME Typed, NEW c \in Clicks, FlowInv(c), Build(c)
  PROVE  Lawful(c)
<1>1. /\ flow[c].phase = "build" /\ flow[c] \in Flows /\ Active(c)
      /\ flow[c].kind \notin Unsent
      /\ UNCHANGED <<network, walletNetwork, trustline, history>>
  BY FlowTypes DEF Build, Active
<1>2. CASE /\ SetTx(c, [state |-> "built", network |-> LegNetwork(c),
                        next |-> ReadsNext(c), ttl |-> Validity(flow[c].kind)])
           /\ Goto(c, "sign")
  <2> DEFINE t == [state |-> "built", network |-> LegNetwork(c),
                   next |-> ReadsNext(c), ttl |-> Validity(flow[c].kind)]
             role == flow[c].role
  <2>1. LegNetwork(c) \in Networks BY FlowTypes DEF LegNetwork, Typed
  <2>2. Validity(flow[c].kind) \in {3, 4} BY <1>1, FlowTypes, HandlerFacts
  <2>3. /\ t \in Transactions /\ t.state = "built" /\ t.network = LegNetwork(c) /\ t.next
        /\ t.ttl = Validity(flow[c].kind)
    BY <2>1, <2>2 DEF Transactions, ReadsNext
  <2> HIDE DEF t
  <2>4. /\ tx' \in [Clicks -> [Roles -> Transactions]] /\ tx'[c][role] = t
        /\ \A r \in Roles \ {role} : tx'[c][r] = tx[c][r]
        /\ \A d \in Clicks \ {c} : tx'[d] = tx[d]
    BY <1>2, <2>3, SetTxFacts DEF t
  <2>5. /\ flow' \in [Clicks -> Flows] /\ flow'[c] = [flow[c] EXCEPT !.phase = "sign"]
        /\ \A d \in Clicks \ {c} : flow'[d] = flow[d]
    BY <1>2, GotoFacts DEF Phases
  <2>6. /\ flow'[c].phase = "sign" /\ flow'[c].role = role /\ flow'[c].kind = flow[c].kind
        /\ flow'[c].network = flow[c].network /\ flow'[c].switched = flow[c].switched
        /\ flow'[c].result = flow[c].result
    BY <1>1, <2>5 DEF Flows
  <2>7. role \in Roles /\ Current(c)' = t BY <2>4, <2>6, FlowTypes DEF Current
  <2>8. Shape(c)'
    <3>1. /\ role = "trust" => Handler(flow[c].kind).first = "check"
          /\ \A r \in Roles \ {role} : tx'[c][r].state \in {"none", "landed"}
          /\ flow[c].result = "none"
      BY <1>1, <2>4 DEF FlowInv, Shape
    <3>2. role = "act" /\ flow[c].kind \in ApprovesFirst => tx'[c]["approve"].state = "landed"
      BY <1>1, <2>4 DEF FlowInv, Shape, Roles
    <3>3. QED BY <1>1, <2>3, <2>6, <2>7, <3>1, <3>2 DEF Shape
  <2>9. Dated(c)'
    <3>1. \A r \in Roles : tx'[c][r].state = "pending" => tx'[c][r].ttl # 0
      BY <2>3, <2>4 DEF FlowInv, Dated
    <3>2. Panel(flow[c].kind) \in Patient => t.ttl <= 3 BY <2>3, FlowTypes, HandlerFacts
    <3>3. QED BY <2>6, <2>7, <3>1, <3>2 DEF Dated
  <2>10. OnNetwork(c)'
    <3>1. ASSUME ~flow[c].switched
          PROVE  /\ flow[c].network = network /\ flow[c].network = walletNetwork
                 /\ \A r \in Roles : tx[c][r].state \in {"built", "pending", "landed", "reverted"}
                                       => tx[c][r].network = flow[c].network
      BY <1>1, <3>1 DEF FlowInv, OnNetwork
    <3>2. ~flow[c].switched => t.network = flow[c].network BY <2>3, <3>1 DEF LegNetwork
    <3>3. QED BY <1>1, <2>4, <2>6, <3>1, <3>2 DEF OnNetwork
  <2>11. Numbered(c)' /\ Ended(c)'
    BY <1>1, <2>3, <2>6, <2>7 DEF Numbered, Ended, FlowInv, Shape
  <2>12. QED
    BY <1>1, <2>4, <2>5, <2>6, <2>8, <2>9, <2>10, <2>11 DEF Lawful, Own, FlowInv, Typed
<1>3. CASE flow[c].network # network /\ End(c, "refused") /\ UNCHANGED tx
  <2>1. flow[c].switched BY <1>1, <1>3, FlowTypes DEF FlowInv, OnNetwork
  <2>2. Own(c) /\ FlowInv(c)' /\ flow'[c].kind = flow[c].kind
    BY <1>1, <1>3, <2>1, EndKeeps DEF Results
  <2>3. QED BY <1>1, <2>2 DEF Lawful, Typed
<1>4. QED BY <1>2, <1>3 DEF Build

LEMMA SignKeeps ==
  ASSUME Typed, NEW c \in Clicks, FlowInv(c), Sign(c)
  PROVE  Lawful(c)
<1>1. /\ flow[c].phase = "sign" /\ flow[c] \in Flows /\ Active(c)
      /\ flow[c].kind \notin Unsent
      /\ UNCHANGED <<network, walletNetwork, trustline, history>>
  BY FlowTypes DEF Sign, Active
<1>2. Current(c) \in Transactions /\ Current(c).state = "built" /\ flow[c].result = "none"
  BY <1>1, FlowTypes DEF FlowInv, Shape
<1>3. CASE /\ SetTx(c, IF walletNetwork = Current(c).network THEN Current(c) ELSE LostTx)
           /\ Goto(c, "send")
  <2> DEFINE t == IF walletNetwork = Current(c).network THEN Current(c) ELSE LostTx
             role == flow[c].role
  <2>1. t \in Transactions /\ (t = Current(c) \/ (t = LostTx /\ walletNetwork # Current(c).network))
    BY <1>2, PlainTypes
  <2> HIDE DEF t
  <2>2. /\ tx' \in [Clicks -> [Roles -> Transactions]] /\ tx'[c][role] = t
        /\ \A r \in Roles \ {role} : tx'[c][r] = tx[c][r]
        /\ \A d \in Clicks \ {c} : tx'[d] = tx[d]
    BY <1>3, <2>1, SetTxFacts DEF t
  <2>3. /\ flow' \in [Clicks -> Flows] /\ flow'[c] = [flow[c] EXCEPT !.phase = "send"]
        /\ \A d \in Clicks \ {c} : flow'[d] = flow[d]
    BY <1>3, GotoFacts DEF Phases
  <2>4. /\ flow'[c].phase = "send" /\ flow'[c].role = role /\ flow'[c].kind = flow[c].kind
        /\ flow'[c].network = flow[c].network /\ flow'[c].switched = flow[c].switched
        /\ flow'[c].result = flow[c].result /\ flow'[c].contended = flow[c].contended
    BY <1>1, <2>3 DEF Flows
  <2>5. role \in Roles /\ Current(c)' = t /\ Current(c) = tx[c][role]
    BY <2>2, <2>4, FlowTypes DEF Current
  <2>6. t = LostTx => flow[c].switched
    <3>1. ASSUME walletNetwork # Current(c).network, ~flow[c].switched PROVE FALSE
      <4>1. flow[c].network = walletNetwork /\ Current(c).network = flow[c].network
        BY <1>1, <1>2, <2>5, <3>1 DEF FlowInv, OnNetwork
      <4>2. QED BY <3>1, <4>1
    <3>2. QED BY <1>2, <2>1, <3>1, PlainTypes
  <2>7. Shape(c)'
    <3>1. /\ role = "trust" => Handler(flow[c].kind).first = "check"
          /\ \A r \in Roles \ {role} : tx'[c][r].state \in {"none", "landed"}
      BY <1>1, <2>2 DEF FlowInv, Shape
    <3>2. role = "act" /\ flow[c].kind \in ApprovesFirst => tx'[c]["approve"].state = "landed"
      BY <1>1, <2>2 DEF FlowInv, Shape, Roles
    <3>3. t.state = "built" \/ (t.state = "lost" /\ flow[c].switched)
      BY <1>2, <2>1, <2>6, PlainTypes
    <3>4. QED BY <1>1, <1>2, <2>4, <2>5, <3>1, <3>2, <3>3 DEF Shape
  <2>8. Dated(c)'
    <3>1. \A r \in Roles : tx'[c][r].state = "pending" => tx'[c][r].ttl # 0
      BY <1>2, <2>1, <2>2, PlainTypes DEF FlowInv, Dated
    <3>2. LostTx.ttl = 0 BY DEF LostTx, NoTx
    <3>3. Panel(flow[c].kind) \in Patient => t.ttl <= 3
      BY <1>1, <2>1, <3>2 DEF FlowInv, Dated
    <3>4. QED BY <2>4, <2>5, <3>1, <3>3 DEF Dated
  <2>9. OnNetwork(c)'
    <3>1. ASSUME ~flow[c].switched
          PROVE  /\ flow[c].network = network /\ flow[c].network = walletNetwork
                 /\ \A r \in Roles : tx[c][r].state \in {"built", "pending", "landed", "reverted"}
                                       => tx[c][r].network = flow[c].network
      BY <1>1, <3>1 DEF FlowInv, OnNetwork
    <3>2. ~flow[c].switched => t = tx[c][role] BY <2>1, <2>5, <2>6
    <3>3. QED BY <1>1, <2>2, <2>4, <2>5, <3>1, <3>2 DEF OnNetwork
  <2>10. Numbered(c)'
    <3>1. Current(c).next \/ flow[c].switched \/ flow[c].contended
      BY <1>1, <1>2 DEF FlowInv, Numbered
    <3>2. QED BY <2>1, <2>4, <2>5, <2>6, <3>1 DEF Numbered
  <2>11. Ended(c)' BY <1>2, <2>4 DEF Ended
  <2>12. QED
    BY <1>1, <2>2, <2>3, <2>4, <2>7, <2>8, <2>9, <2>10, <2>11 DEF Lawful, Own, FlowInv, Typed
<1>4. CASE End(c, "rejected") /\ SetTx(c, NoTx)
  <2>1. Own(c) /\ FlowInv(c)' /\ flow'[c].kind = flow[c].kind
    BY <1>1, <1>2, <1>4, EndKeeps DEF Results
  <2>2. QED BY <1>1, <2>1 DEF Lawful, Typed
<1>5. QED BY <1>3, <1>4 DEF Sign
LEMMA SendKeeps ==
  ASSUME Typed, NEW c \in Clicks, FlowInv(c), Send(c)
  PROVE  Lawful(c)
<1> DEFINE t == Current(c)
           role == flow[c].role
           valid == t.state = "built" /\ t.network = LegNetwork(c) /\ t.ttl > 0 /\ t.next
           wait == flow' = [flow EXCEPT ![c].phase = "poll", ![c].slept = FALSE,
                                        ![c].polls = Polls(flow[c].kind)]
           sent == [t EXCEPT !.state = "pending"]
<1>1. /\ flow[c].phase = "send" /\ flow[c] \in Flows /\ Active(c)
      /\ UNCHANGED <<network, walletNetwork, trustline, history>>
  BY FlowTypes DEF Send, Active
<1>2. /\ t \in Transactions /\ t = tx[c][role] /\ role \in Roles /\ flow[c].result = "none"
      /\ flow[c].switched \in BOOLEAN /\ flow[c].contended \in BOOLEAN
      /\ t.state = "built" \/ (t.state = "lost" /\ flow[c].switched)
      /\ flow[c].kind \notin Unsent
      /\ t.state = "built" => t.next \/ flow[c].switched \/ flow[c].contended
      /\ Panel(flow[c].kind) \in Patient => t.ttl <= 3
      /\ ~flow[c].switched => flow[c].network = network /\ t.network = flow[c].network
  BY <1>1, FlowTypes DEF FlowInv, Shape, Dated, OnNetwork, Numbered
<1>3. \/ valid /\ SetTx(c, sent) /\ wait
      \/ valid /\ SetTx(c, LostTx) /\ wait
      \/ /\ ~valid /\ SetTx(c, LostTx)
         /\ End(c, IF t.state = "built" /\ t.ttl = 0 THEN "timedout" ELSE "refused")
  BY DEF Send
<1>4. sent \in Transactions /\ sent.state = "pending" /\ sent.ttl = t.ttl /\ sent.network = t.network
  BY <1>2 DEF Transactions
<1>5. t.ttl \in 0..4 BY <1>2 DEF Transactions
<1> HIDE DEF t, sent, wait
<1>6. ASSUME valid, wait, NEW u \in {sent, LostTx}, SetTx(c, u) PROVE Lawful(c)
  <2>1. /\ u \in Transactions /\ u.state \in {"pending", "lost"}
        /\ u.state = "pending" => u.ttl = t.ttl /\ u.network = t.network
    BY <1>4, <1>6, PlainTypes
  <2>2. /\ tx' \in [Clicks -> [Roles -> Transactions]] /\ tx'[c][role] = u
        /\ \A r \in Roles \ {role} : tx'[c][r] = tx[c][r]
        /\ \A d \in Clicks \ {c} : tx'[d] = tx[d]
    BY <1>6, <2>1, SetTxFacts
  <2>3. Polls(flow[c].kind) \in {2, 3} BY <1>2, FlowTypes, HandlerFacts
  <2> DEFINE f == [flow[c] EXCEPT !.phase = "poll", !.slept = FALSE, !.polls = Polls(flow[c].kind)]
  <2>4. /\ f \in Flows /\ f.phase = "poll" /\ f.role = role /\ f.kind = flow[c].kind
        /\ f.network = flow[c].network /\ f.switched = flow[c].switched
        /\ f.result = flow[c].result /\ f.contended = flow[c].contended
        /\ f.polls = Polls(flow[c].kind) /\ f.slept = FALSE
    <3>1. "poll" \in Phases /\ Polls(flow[c].kind) \in 0..3 BY <2>3 DEF Phases
    <3> HIDE DEF Polls
    <3>2. QED BY <1>1, <3>1 DEF Flows
  <2>5. flow' = [flow EXCEPT ![c] = f] BY <1>6 DEF Typed, wait
  <2> HIDE DEF f
  <2>6. flow' \in [Clicks -> Flows] /\ flow'[c] = f /\ \A d \in Clicks \ {c} : flow'[d] = flow[d]
    BY <2>4, <2>5 DEF Typed
  <2>7. Current(c)' = u BY <2>2, <2>4, <2>6 DEF Current
  <2>8. Shape(c)'
    <3>1. /\ role = "trust" => Handler(flow[c].kind).first = "check"
          /\ \A r \in Roles \ {role} : tx'[c][r].state \in {"none", "landed"}
      BY <1>1, <2>2 DEF FlowInv, Shape
    <3>2. role = "act" /\ flow[c].kind \in ApprovesFirst => tx'[c]["approve"].state = "landed"
      BY <1>1, <2>2 DEF FlowInv, Shape, Roles
    <3>3. QED BY <1>2, <2>1, <2>3, <2>4, <2>6, <2>7, <3>1, <3>2 DEF Shape
  <2>9. Dated(c)'
    <3>1. \A r \in Roles : tx'[c][r].state = "pending" => tx'[c][r].ttl # 0
      BY <1>5, <1>6, <2>1, <2>2 DEF FlowInv, Dated
    <3>2. Panel(flow[c].kind) \in Patient => Polls(flow[c].kind) = 3 BY FlowTypes, HandlerFacts
    <3>3. QED BY <1>2, <2>1, <2>4, <2>6, <2>7, <3>1, <3>2 DEF Dated
  <2>10. OnNetwork(c)'
    <3>1. ASSUME ~flow[c].switched
          PROVE  /\ flow[c].network = network /\ flow[c].network = walletNetwork
                 /\ \A r \in Roles : tx[c][r].state \in {"built", "pending", "landed", "reverted"}
                                       => tx[c][r].network = flow[c].network
      BY <1>1, <3>1 DEF FlowInv, OnNetwork
    <3>2. ~flow[c].switched /\ u.state = "pending" => u.network = flow[c].network
      BY <1>2, <2>1
    <3>3. QED BY <1>1, <2>1, <2>2, <2>4, <2>6, <3>1, <3>2 DEF OnNetwork
  <2>11. Numbered(c)' /\ Ended(c)' BY <1>2, <2>4, <2>6 DEF Numbered, Ended
  <2>12. QED
    BY <1>1, <2>2, <2>4, <2>6, <2>8, <2>9, <2>10, <2>11 DEF Lawful, Own, FlowInv, Typed
<1>7. CASE /\ ~valid /\ SetTx(c, LostTx)
           /\ End(c, IF t.state = "built" /\ t.ttl = 0 THEN "timedout" ELSE "refused")
  <2>1. PICK result \in {"timedout", "refused"} :
          result = IF t.state = "built" /\ t.ttl = 0 THEN "timedout" ELSE "refused"
    OBVIOUS
  <2>2. End(c, result) BY <1>7, <2>1
  <2>3. ASSUME result = "refused", ~flow[c].switched PROVE flow[c].contended
    <3>1. t.state = "built" /\ t.ttl # 0 BY <1>2, <2>1, <2>3
    <3>2. t.network = LegNetwork(c) BY <1>2, <2>3 DEF LegNetwork
    <3>3. ~t.next BY <1>5, <1>7, <3>1, <3>2
    <3>4. QED BY <1>2, <2>3, <3>1, <3>3
  <2>4. Current(c).state \in {"built", "lost"} BY <1>2 DEF t
  <2>5. result \in Results \ {"none"} BY DEF Results
  <2>6. Own(c) /\ FlowInv(c)' /\ flow'[c].kind = flow[c].kind
    BY <1>1, <1>2, <1>7, <2>2, <2>3, <2>4, <2>5, EndKeeps
  <2>7. QED BY <1>1, <2>6 DEF Lawful, Typed
<1>8. QED BY <1>3, <1>6, <1>7

\* The acting transaction is in a ledger, or there is none, and the flow is over.
LEMMA DoneKeeps ==
  ASSUME Typed, NEW c \in Clicks, FlowInv(c), Active(c),
         Current(c).state = "landed" \/ flow[c].kind \in Unsent,
         flow[c].role = "act", End(c, "done"), UNCHANGED <<network, walletNetwork, tx>>,
         UNCHANGED history \/ AddTransactionHistoryEntry(c)
  PROVE  Lawful(c)
<1>1. /\ flow[c] \in Flows /\ Current(c) = tx[c]["act"]
      /\ history \subseteq [click : 0..MaxClicks, network : Networks]
  BY FlowTypes DEF Typed
<1>2. Own(c) /\ FlowInv(c)' /\ flow'[c].phase = "done" /\ flow'[c].kind = flow[c].kind
  BY <1>1, EndKeeps DEF Results
<1>3. /\ flow'[c].role = "act" /\ flow'[c].network = flow[c].network
      /\ tx'[c]["act"].state = "landed" \/ flow[c].kind \in Unsent
      /\ flow[c].network \in Networks /\ c \in 0..MaxClicks
  <2>1. flow'[c] = [flow[c] EXCEPT !.phase = "done", !.result = "done",
                                   !.slept = FALSE, !.polls = 0]
    BY <1>1, EndFacts DEF Results
  <2>2. flow'[c].role = "act" /\ flow'[c].network = flow[c].network
    BY <1>1, <2>1 DEF Flows
  <2>3. c \in 0..MaxClicks BY BoundsAssumption DEF Clicks
  <2>4. QED BY <1>1, <2>2, <2>3, FlowTypes
<1>4. CASE UNCHANGED history BY <1>1, <1>2, <1>4 DEF Lawful
<1>5. CASE AddTransactionHistoryEntry(c)
  <2> DEFINE h == [click |-> c, network |-> flow[c].network]
  <2>1. h \in [click : 0..MaxClicks, network : Networks] BY <1>3
  <2>2. history' = history \cup {h} BY <1>5 DEF AddTransactionHistoryEntry
  <2>3. ASSUME NEW g \in history', g \notin history PROVE g.click = c /\ Entered(g)'
    <3>1. g.click = c /\ g.network = flow[c].network BY <2>2, <2>3
    <3>2. QED BY <1>2, <1>3, <3>1 DEF Entered
  <2>4. QED BY <1>1, <1>2, <2>1, <2>2, <2>3 DEF Lawful
<1>6. QED BY <1>1, <1>4, <1>5

\* A leg that has succeeded hands over, to the next one or to the end.
LEMMA SucceedKeeps ==
  ASSUME Typed, NEW c \in Clicks, FlowInv(c), Active(c), Current(c).state = "landed",
         flow[c].phase = "poll", Succeed(c), UNCHANGED <<network, walletNetwork, tx>>
  PROVE  Lawful(c)
<1> DEFINE role == flow[c].role
<1>1. /\ flow[c] \in Flows /\ role \in Roles /\ Current(c) = tx[c][role]
      /\ flow[c].result = "none"
  BY FlowTypes DEF FlowInv, Shape
<1>2. tx \in [Clicks -> [Roles -> Transactions]] /\ flow \in [Clicks -> Flows]
      /\ history \subseteq [click : 0..MaxClicks, network : Networks]
  BY DEF Typed
<1>3. /\ \A r \in Roles \ {role} : tx[c][r].state \in {"none", "landed"}
      /\ \A r \in Roles : tx[c][r].state \in {"none", "landed"}
  BY <1>1 DEF FlowInv, Shape
<1>4. CASE /\ role # "act"
           /\ flow' = [flow EXCEPT ![c].phase = "build", ![c].role = "act",
                                   ![c].slept = FALSE, ![c].polls = 0]
           /\ UNCHANGED history
  <2> DEFINE f == [flow[c] EXCEPT !.phase = "build", !.role = "act", !.slept = FALSE, !.polls = 0]
  <2>1. /\ f \in Flows /\ f.phase = "build" /\ f.role = "act" /\ f.kind = flow[c].kind
        /\ f.network = flow[c].network /\ f.switched = flow[c].switched
        /\ f.result = flow[c].result /\ f.contended = flow[c].contended
    <3>1. "build" \in Phases /\ "act" \in Roles /\ 0 \in 0..3 BY DEF Phases, Roles
    <3>2. QED BY <1>1, <3>1 DEF Flows
  <2>2. flow' = [flow EXCEPT ![c] = f] BY <1>2, <1>4
  <2> HIDE DEF f
  <2>3. flow' \in [Clicks -> Flows] /\ flow'[c] = f /\ \A d \in Clicks \ {c} : flow'[d] = flow[d]
    BY <1>2, <2>1, <2>2
  <2>4. flow[c].kind \in ApprovesFirst => tx[c]["approve"].state = "landed"
    <3>1. ASSUME role = "trust" PROVE flow[c].kind \notin ApprovesFirst
      <4>1. Handler(flow[c].kind).first = "check" BY <3>1 DEF FlowInv, Shape
      <4>2. QED BY <4>1, FlowTypes, HandlerFacts
    <3>2. role = "approve" => tx[c]["approve"].state = "landed" BY <1>1
    <3>3. QED BY <1>1, <1>4, <3>1, <3>2 DEF Roles
  <2>5. flow[c].kind \notin Unsent BY DEF FlowInv, Shape
  <2>6. Shape(c)' BY <1>1, <1>3, <2>1, <2>3, <2>4, <2>5 DEF Shape, Active
  <2>7. Dated(c)' BY <1>3, <2>1, <2>3 DEF Dated
  <2>8. OnNetwork(c)' BY <1>3, <2>1, <2>3 DEF FlowInv, OnNetwork
  <2>9. Numbered(c)' /\ Ended(c)' BY <1>1, <2>1, <2>3 DEF Numbered, Ended
  <2>10. QED BY <1>2, <1>4, <2>1, <2>3, <2>6, <2>7, <2>8, <2>9 DEF Lawful, Own, FlowInv
<1>5. CASE /\ role = "act" /\ flow[c].kind = "fee" /\ UNCHANGED history
           /\ flow' = [flow EXCEPT ![c].phase = "publish", ![c].slept = FALSE, ![c].polls = 0]
  <2> DEFINE f == [flow[c] EXCEPT !.phase = "publish", !.slept = FALSE, !.polls = 0]
  <2>1. /\ f \in Flows /\ f.phase = "publish" /\ f.role = "act" /\ f.kind = flow[c].kind
        /\ f.network = flow[c].network /\ f.switched = flow[c].switched
        /\ f.result = flow[c].result /\ f.contended = flow[c].contended
    <3>1. "publish" \in Phases /\ 0 \in 0..3 BY DEF Phases
    <3>2. QED BY <1>1, <1>5, <3>1 DEF Flows
  <2>2. flow' = [flow EXCEPT ![c] = f] BY <1>2, <1>5
  <2> HIDE DEF f
  <2>3. flow' \in [Clicks -> Flows] /\ flow'[c] = f /\ \A d \in Clicks \ {c} : flow'[d] = flow[d]
    BY <1>2, <2>1, <2>2
  <2>4. Current(c)' = Current(c) BY <1>5, <2>1, <2>3 DEF Current
  <2>5. flow[c].kind \notin ApprovesFirst BY <1>5, FlowTypes, HandlerFacts
  <2>6. Shape(c)' BY <1>1, <1>3, <1>5, <2>1, <2>3, <2>4, <2>5 DEF Shape, Active
  <2>7. Dated(c)' BY <1>3, <2>1, <2>3 DEF Dated
  <2>8. OnNetwork(c)' BY <1>3, <2>1, <2>3 DEF FlowInv, OnNetwork
  <2>9. Numbered(c)' /\ Ended(c)' BY <1>1, <2>1, <2>3 DEF Numbered, Ended
  <2>10. QED BY <1>2, <1>5, <2>1, <2>3, <2>6, <2>7, <2>8, <2>9 DEF Lawful, Own, FlowInv
<1>6. CASE role = "act" /\ End(c, "done") /\ (UNCHANGED history \/ AddTransactionHistoryEntry(c))
  BY <1>1, <1>6, DoneKeeps
<1>7. QED BY <1>4, <1>5, <1>6 DEF Succeed
LEMMA PollKeeps ==
  ASSUME Typed, NEW c \in Clicks, FlowInv(c), Poll(c)
  PROVE  Lawful(c)
<1> DEFINE t == Current(c)
           left == flow[c].polls - 1
<1>1. /\ flow[c].phase = "poll" /\ flow[c].slept /\ Active(c) /\ flow[c] \in Flows
      /\ UNCHANGED <<network, walletNetwork, tx, trustline>>
  BY FlowTypes DEF Poll, Active
<1>2. /\ t \in Transactions /\ t = tx[c][flow[c].role] /\ flow[c].role \in Roles
      /\ flow[c].polls \in 1..3 /\ flow[c].result = "none"
      /\ t.state \in {"pending", "lost", "landed", "reverted"}
  BY <1>1, FlowTypes DEF FlowInv, Shape
<1>3. tx \in [Clicks -> [Roles -> Transactions]] /\ flow \in [Clicks -> Flows]
      /\ history \subseteq [click : 0..MaxClicks, network : Networks]
  BY DEF Typed
<1>4. CASE Status(c) = "landed" /\ Succeed(c)
  <2>1. t.state = "landed" BY <1>4 DEF Status
  <2>2. QED BY <1>1, <1>4, <2>1, SucceedKeeps
<1>5. CASE Status(c) = "reverted" /\ End(c, "failed") /\ UNCHANGED history
  <2>1. Own(c) /\ FlowInv(c)' /\ flow'[c].kind = flow[c].kind
    BY <1>1, <1>5, EndKeeps DEF Results
  <2>2. QED BY <1>1, <1>3, <1>5, <2>1 DEF Lawful
<1>6. CASE Status(c) \in {"pending", "lost"} /\ End(c, "timedout") /\ UNCHANGED history /\ left = 0
  <2>1. ASSUME ~flow[c].switched, Panel(flow[c].kind) \in Patient PROVE t.state = "lost"
    <3>1. t.state # "lost" => t.network = network
      BY <1>1, <1>2, <2>1 DEF FlowInv, OnNetwork
    <3>2. t.state \in {"pending", "lost"} BY <1>6, <3>1 DEF Status
    <3>3. ASSUME t.state = "pending" PROVE FALSE
      <4>1. t.ttl # 0 /\ t.ttl < flow[c].polls BY <1>1, <1>2, <2>1, <3>3 DEF FlowInv, Dated
      <4>2. t.ttl \in 0..4 BY <1>2 DEF Transactions
      <4>3. QED BY <1>2, <1>6, <4>1, <4>2
    <3>4. QED BY <3>2, <3>3
  <2>2. Own(c) /\ FlowInv(c)' /\ flow'[c].kind = flow[c].kind
    BY <1>1, <1>6, <2>1, EndKeeps DEF Results
  <2>3. QED BY <1>1, <1>3, <1>6, <2>2 DEF Lawful
<1>7. CASE /\ left # 0 /\ flow' = [flow EXCEPT ![c].polls = left, ![c].slept = FALSE]
           /\ UNCHANGED history
  <2> DEFINE f == [flow[c] EXCEPT !.polls = left, !.slept = FALSE]
  <2>1. /\ f \in Flows /\ f.phase = "poll" /\ f.role = flow[c].role /\ f.kind = flow[c].kind
        /\ f.network = flow[c].network /\ f.switched = flow[c].switched
        /\ f.result = flow[c].result /\ f.contended = flow[c].contended
        /\ f.polls = left /\ f.slept = FALSE
    <3>1. left \in 0..3 BY <1>2
    <3> HIDE DEF left
    <3>2. QED BY <1>1, <3>1 DEF Flows
  <2>2. flow' = [flow EXCEPT ![c] = f] BY <1>3, <1>7
  <2> HIDE DEF f
  <2>3. flow' \in [Clicks -> Flows] /\ flow'[c] = f /\ \A d \in Clicks \ {c} : flow'[d] = flow[d]
    BY <1>3, <2>1, <2>2
  <2>4. Current(c)' = t BY <1>1, <2>1, <2>3 DEF Current
  <2>5. Shape(c)' BY <1>1, <1>2, <1>7, <2>1, <2>3, <2>4 DEF FlowInv, Shape, Active
  <2>6. Dated(c)'
    <3>1. \A r \in Roles : tx'[c][r].state = "pending" => tx'[c][r].ttl # 0
      BY <1>1 DEF FlowInv, Dated
    <3>2. ASSUME Panel(flow[c].kind) \in Patient, t.state = "pending" PROVE t.ttl <= left
      <4>1. t.ttl < flow[c].polls BY <1>1, <3>2 DEF FlowInv, Dated
      <4>2. t.ttl \in 0..4 BY <1>2 DEF Transactions
      <4>3. QED BY <1>2, <4>1, <4>2
    <3>3. QED BY <2>1, <2>3, <2>4, <3>1, <3>2 DEF Dated
  <2>7. OnNetwork(c)' BY <1>1, <2>1, <2>3 DEF FlowInv, OnNetwork, Active
  <2>8. Numbered(c)' /\ Ended(c)' BY <1>2, <2>1, <2>3 DEF Numbered, Ended
  <2>9. QED BY <1>1, <1>3, <1>7, <2>1, <2>3, <2>5, <2>6, <2>7, <2>8 DEF Lawful, Own, FlowInv
<1>8. QED BY <1>4, <1>5, <1>6, <1>7 DEF Poll, PollsLeft

LEMMA HorizonKeeps ==
  ASSUME Typed, NEW c \in Clicks, FlowInv(c), Horizon(c)
  PROVE  Lawful(c)
<1>1. /\ flow[c].phase = "poll" /\ Active(c)
      /\ UNCHANGED <<network, walletNetwork, tx, trustline>>
      /\ history \subseteq [click : 0..MaxClicks, network : Networks]
  BY DEF Horizon, Active, Typed
<1>2. CASE Current(c).state = "landed" /\ Succeed(c) BY <1>1, <1>2, SucceedKeeps
<1>3. ASSUME NEW result \in {"failed", "timedout"}, End(c, result), UNCHANGED history,
             result = "timedout" => Current(c).state = "lost"
      PROVE  Lawful(c)
  <2>1. Own(c) /\ FlowInv(c)' /\ flow'[c].kind = flow[c].kind
    BY <1>1, <1>3, EndKeeps DEF Results
  <2>2. QED BY <1>1, <1>3, <2>1 DEF Lawful
<1>4. QED BY <1>2, <1>3 DEF Horizon

LEMMA PublishKeeps ==
  ASSUME Typed, NEW c \in Clicks, FlowInv(c), Publish(c)
  PROVE  Lawful(c)
<1>1. /\ flow[c].phase = "publish" /\ Active(c) /\ flow[c].role = "act"
      /\ Current(c).state = "landed" \/ flow[c].kind \in Unsent
      /\ UNCHANGED <<network, walletNetwork, tx, trustline>>
      /\ history \subseteq [click : 0..MaxClicks, network : Networks]
  BY DEF Publish, Active, Typed, FlowInv, Shape, Unsent
<1>2. CASE End(c, "done") /\ AddTransactionHistoryEntry(c) BY <1>1, <1>2, DoneKeeps
<1>3. CASE End(c, "unpublished") /\ UNCHANGED history
  <2>1. Own(c) /\ FlowInv(c)' /\ flow'[c].kind = flow[c].kind
    BY <1>1, <1>3, EndKeeps DEF Results
  <2>2. QED BY <1>1, <1>3, <2>1 DEF Lawful
<1>4. QED BY <1>2, <1>3 DEF Publish

LEMMA LoadKeeps ==
  ASSUME Typed, NEW c \in Clicks, FlowInv(c), LoadAccount(c)
  PROVE  Lawful(c)
<1>1. /\ flow[c].phase = "build" /\ flow[c].kind \in Unsent /\ Active(c) /\ flow[c] \in Flows
      /\ UNCHANGED <<network, walletNetwork, tx, history>>
      /\ history \subseteq [click : 0..MaxClicks, network : Networks]
      /\ tx \in [Clicks -> [Roles -> Transactions]]
  BY FlowTypes DEF LoadAccount, Active, Typed, Unsent
<1>2. /\ flow' \in [Clicks -> Flows] /\ flow'[c] = [flow[c] EXCEPT !.phase = "sign"]
      /\ \A d \in Clicks \ {c} : flow'[d] = flow[d]
  BY GotoFacts DEF LoadAccount, Phases
<1>3. /\ flow'[c].phase = "sign" /\ flow'[c].role = flow[c].role
      /\ flow'[c].kind = flow[c].kind /\ flow'[c].network = flow[c].network
      /\ flow'[c].switched = flow[c].switched /\ flow'[c].result = flow[c].result
  BY <1>1, <1>2 DEF Flows
<1>4. Current(c)' = Current(c) BY <1>1, <1>3 DEF Current
<1>5. Shape(c)' BY <1>1, <1>3, <1>4 DEF FlowInv, Shape, Active
<1>6. Panel(flow[c].kind) \notin Patient
  BY DEF LoadAccount, Panel, Handler, HandleMainnetSignAndSubmit, Patient
<1>7. Dated(c)' BY <1>1, <1>3, <1>6 DEF FlowInv, Dated
<1>8. OnNetwork(c)' BY <1>1, <1>3 DEF FlowInv, OnNetwork, Active
<1>9. Numbered(c)'
  <2>1. Current(c).state # "built" BY <1>1 DEF FlowInv, Shape
  <2>2. QED BY <1>4, <2>1 DEF Numbered
<1>10. Ended(c)' BY <1>1, <1>3 DEF FlowInv, Shape, Ended
<1>11. QED
  BY <1>1, <1>2, <1>3, <1>5, <1>7, <1>8, <1>9, <1>10 DEF Lawful, Own, FlowInv

LEMMA SignMainnetKeeps ==
  ASSUME Typed, NEW c \in Clicks, FlowInv(c), SignMainnet(c)
  PROVE  Lawful(c)
<1>1. /\ flow[c].phase = "sign" /\ flow[c].kind \in Unsent /\ Active(c)
      /\ UNCHANGED <<network, walletNetwork, tx>>
      /\ history \subseteq [click : 0..MaxClicks, network : Networks]
      /\ c \in 0..MaxClicks /\ "mainnet" \in Networks
  BY BoundsAssumption DEF SignMainnet, Active, Typed, Unsent, Clicks, Networks
<1>2. ASSUME NEW result \in {"done", "rejected"}, End(c, result)
      PROVE  /\ Own(c) /\ FlowInv(c)' /\ flow'[c].kind = flow[c].kind
             /\ flow'[c].phase = "done"
  BY <1>1, <1>2, EndKeeps DEF Results
<1>3. CASE End(c, "done") /\ history' = history \cup {[click |-> c, network |-> "mainnet"]}
  <2>1. /\ Own(c) /\ FlowInv(c)' /\ flow'[c].kind = flow[c].kind
        /\ flow'[c].phase = "done"
    BY <1>2, <1>3
  <2>2. ASSUME NEW g \in history', g \notin history PROVE g.click = c /\ Entered(g)'
    <3>1. g.click = c BY <1>3, <2>2
    <3>2. QED BY <1>1, <2>1, <3>1 DEF Entered
  <2>3. history' \subseteq [click : 0..MaxClicks, network : Networks] BY <1>1, <1>3
  <2>4. QED BY <1>1, <2>1, <2>2, <2>3 DEF Lawful
<1>4. CASE End(c, "rejected") /\ UNCHANGED history BY <1>1, <1>2, <1>4 DEF Lawful
<1>5. QED BY <1>3, <1>4 DEF SignMainnet

LEMMA RequestFailsKeeps ==
  ASSUME Typed, NEW c \in Clicks, FlowInv(c), RequestFails(c)
  PROVE  Lawful(c)
<1>1. /\ Active(c) /\ End(c, "failed")
      /\ UNCHANGED <<network, walletNetwork, trustline, history>>
      /\ history \subseteq [click : 0..MaxClicks, network : Networks]
      /\ UNCHANGED tx \/ (SetTx(c, NoTx) /\ Current(c).state = "built")
  BY DEF RequestFails, Active, Typed
<1>2. Own(c) /\ FlowInv(c)' /\ flow'[c].kind = flow[c].kind
  BY <1>1, EndKeeps DEF Results
<1>3. QED BY <1>1, <1>2 DEF Lawful
-----------------------------------------------------------------------------
(* The user, the ledger and the clock. *)

\* A new flow has no transactions, and begins only where its panel is free.
LEMMA ClickKeeps ==
  ASSUME Typed, NEW c \in Clicks, FlowInv(c), Click(c)
  PROVE  /\ Own(c) /\ FlowInv(c)' /\ flow[c].phase = "idle"
         /\ MayClick(flow'[c].kind) /\ UNCHANGED history
<1>1. /\ flow[c].phase = "idle" /\ UNCHANGED <<network, walletNetwork, tx, trustline, history>>
  BY DEF Click
<1> DEFINE f(kind) == [Idle EXCEPT !.kind = kind, !.network = network,
                         !.switched = walletNetwork # network,
                         !.phase = CASE Handler(kind).first = "check" -> "check"
                                     [] Handler(kind).first = "post" -> "publish"
                                     [] OTHER -> "build",
                         !.role = IF kind \in ApprovesFirst THEN "approve" ELSE "act"]
<1>2. PICK kind \in AllKinds : MayClick(kind) /\ flow' = [flow EXCEPT ![c] = f(kind)]
  BY KindsAssumption DEF Click
<1>3. network \in Networks /\ walletNetwork \in Networks BY DEF Typed
<1>4. PICK phase \in {"check", "publish", "build"} :
        /\ phase = CASE Handler(kind).first = "check" -> "check"
                     [] Handler(kind).first = "post" -> "publish"
                     [] OTHER -> "build"
        /\ phase = "check" => Handler(kind).first = "check"
        /\ phase = "publish" => kind = "vote" /\ kind \notin ApprovesFirst
  <2>1. Handler(kind).first = "post" => kind = "vote" /\ kind \notin ApprovesFirst
    BY HandlerFacts
  <2>2. QED BY <2>1
<1>5. PICK role \in {"approve", "act"} :
        role = IF kind \in ApprovesFirst THEN "approve" ELSE "act"
  OBVIOUS
<1>6. /\ f(kind) \in Flows /\ f(kind).phase = phase /\ f(kind).role = role
      /\ f(kind).kind = kind /\ f(kind).network = network /\ f(kind).result = "none"
      /\ f(kind).switched = (walletNetwork # network) /\ f(kind).polls = 0
  <2>1. /\ Idle \in Flows /\ Idle.result = "none" /\ Idle.polls = 0
        /\ phase \in Phases /\ role \in Roles
    BY DEF Idle, Flows, AllKinds, Results, Phases, Roles, Networks
  <2>2. PICK switched \in BOOLEAN : switched = (walletNetwork # network) OBVIOUS
  <2>3. f(kind) = [Idle EXCEPT !.kind = kind, !.network = network, !.switched = switched,
                     !.phase = phase, !.role = role]
    BY <1>4, <1>5, <2>2
  <2> HIDE DEF f
  <2>4. QED BY <1>3, <2>1, <2>2, <2>3 DEF Flows
<1> HIDE DEF f
<1>7. /\ flow' \in [Clicks -> Flows] /\ flow'[c] = f(kind)
      /\ \A d \in Clicks \ {c} : flow'[d] = flow[d]
  BY <1>2, <1>6 DEF Typed
<1>8. \A r \in Roles : tx'[c][r].state = "none" BY <1>1 DEF FlowInv, Shape
<1>9. Shape(c)'
  <2>1. Current(c)'.state = "none" BY <1>5, <1>6, <1>7, <1>8 DEF Current, Roles
  <2>2. QED BY <1>4, <1>5, <1>6, <1>7, <1>8, <2>1 DEF Shape
<1>10. Dated(c)' BY <1>6, <1>7, <1>8 DEF Dated
<1>11. OnNetwork(c)' BY <1>1, <1>6, <1>7, <1>8 DEF OnNetwork
<1>12. Numbered(c)' /\ Ended(c)' BY <1>6, <1>7 DEF Numbered, Ended
<1>13. Own(c) BY <1>1, <1>7 DEF Own, Typed
<1>14. QED BY <1>1, <1>2, <1>6, <1>7, <1>9, <1>10, <1>11, <1>12, <1>13 DEF FlowInv

\* A step of the world: it starts, moves and ends no flow.
World ==
  /\ flow' \in [Clicks -> Flows] /\ tx' \in [Clicks -> [Roles -> Transactions]]
  /\ \A d \in Clicks :
       /\ FlowInv(d)'
       /\ flow'[d].phase = flow[d].phase /\ flow'[d].kind = flow[d].kind
       /\ flow'[d].role = flow[d].role /\ flow'[d].network = flow[d].network
       /\ tx[d]["act"].state = "landed" => tx'[d]["act"].state = "landed"
  /\ UNCHANGED history

LEMMA SwitchKeeps ==
  ASSUME Typed, \A d \in Clicks : FlowInv(d), SwitchNetwork
  PROVE  World
<1> DEFINE f(d) == [flow[d] EXCEPT !.switched = @ \/ Active(d)]
<1>1. /\ flow' = [d \in Clicks |-> f(d)] /\ UNCHANGED <<tx, history>>
      /\ flow \in [Clicks -> Flows] /\ tx \in [Clicks -> [Roles -> Transactions]]
  BY DEF SwitchNetwork, Typed
<1>2. ASSUME NEW d \in Clicks
      PROVE  /\ f(d) \in Flows /\ f(d).phase = flow[d].phase /\ f(d).kind = flow[d].kind
             /\ f(d).role = flow[d].role /\ f(d).network = flow[d].network
             /\ f(d).slept = flow[d].slept /\ f(d).polls = flow[d].polls
             /\ f(d).result = flow[d].result /\ f(d).contended = flow[d].contended
             /\ f(d).switched = (flow[d].switched \/ Active(d))
  <2>1. flow[d] \in Flows /\ Active(d) \in BOOLEAN /\ (flow[d].switched \/ Active(d)) \in BOOLEAN
    BY <1>1 DEF Active
  <2> HIDE DEF Active
  <2>2. QED BY <2>1 DEF Flows
<1> HIDE DEF f
<1>3. flow' \in [Clicks -> Flows] /\ \A d \in Clicks : flow'[d] = f(d) BY <1>1, <1>2
<1>4. ASSUME NEW d \in Clicks PROVE FlowInv(d)'
  <2>1. FlowInv(d) /\ Current(d)' = Current(d) BY <1>1, <1>2, <1>3 DEF Current
  <2>2. Active(d)' <=> Active(d) BY <1>2, <1>3 DEF Active
  <2>3. Shape(d)' BY <1>1, <1>2, <1>3, <2>1, <2>2 DEF FlowInv, Shape
  <2>4. Dated(d)' BY <1>1, <1>2, <1>3, <2>1 DEF FlowInv, Dated
  <2>5. OnNetwork(d)' BY <1>1, <1>2, <1>3, <2>1, <2>2 DEF FlowInv, OnNetwork
  <2>6. Numbered(d)' /\ Ended(d)' BY <1>2, <1>3, <2>1 DEF FlowInv, Numbered, Ended
  <2>7. QED BY <2>3, <2>4, <2>5, <2>6 DEF FlowInv
<1>5. QED BY <1>1, <1>2, <1>3, <1>4 DEF World

LEMMA IncludeKeeps ==
  ASSUME Typed, \A d \in Clicks : FlowInv(d), NEW c \in Clicks, NEW r \in Roles, Include(c, r)
  PROVE  World
<1> DEFINE n == tx[c][r].network
           in(state) == [NoTx EXCEPT !.state = state, !.network = n]
           out(d, q) == [tx[d][q] EXCEPT !.next = @ /\ tx[d][q].network # n]
           f(d) == [flow[d] EXCEPT !.contended = @ \/ (d # c /\ Active(d))]
<1>1. /\ flow' = [d \in Clicks |-> f(d)] /\ UNCHANGED <<network, walletNetwork, history>>
      /\ flow \in [Clicks -> Flows] /\ tx \in [Clicks -> [Roles -> Transactions]]
      /\ tx[c][r].state = "pending"
  BY DEF Include, Typed
<1>2. PICK state \in {"landed", "reverted"} :
        tx' = [d \in Clicks |-> [q \in Roles |->
                 IF d = c /\ q = r THEN in(state) ELSE out(d, q)]]
  BY DEF Include
<1>3. /\ in(state) \in Transactions /\ in(state).state = state /\ in(state).network = n
  <2>1. n \in Networks /\ 0 \in 0..4 BY <1>1 DEF Transactions
  <2>2. QED BY <2>1 DEF NoTx, Transactions
<1>4. ASSUME NEW d \in Clicks, NEW q \in Roles
      PROVE  /\ out(d, q) \in Transactions /\ out(d, q).state = tx[d][q].state
             /\ out(d, q).network = tx[d][q].network /\ out(d, q).ttl = tx[d][q].ttl
  <2>1. tx[d][q] \in Transactions BY <1>1
  <2>2. QED BY <2>1 DEF Transactions
<1>5. ASSUME NEW d \in Clicks
      PROVE  /\ f(d) \in Flows /\ f(d).phase = flow[d].phase /\ f(d).kind = flow[d].kind
             /\ f(d).role = flow[d].role /\ f(d).network = flow[d].network
             /\ f(d).slept = flow[d].slept /\ f(d).polls = flow[d].polls
             /\ f(d).result = flow[d].result /\ f(d).switched = flow[d].switched
             /\ f(d).contended = (flow[d].contended \/ (d # c /\ Active(d)))
  <2>1. flow[d] \in Flows /\ (flow[d].contended \/ (d # c /\ Active(d))) \in BOOLEAN
    BY <1>1
  <2> HIDE DEF Active
  <2>2. QED BY <2>1 DEF Flows
<1> HIDE DEF in, out, f
<1>6. flow' \in [Clicks -> Flows] /\ \A d \in Clicks : flow'[d] = f(d) BY <1>1, <1>5
<1>7. /\ tx' \in [Clicks -> [Roles -> Transactions]]
      /\ \A d \in Clicks, q \in Roles :
           tx'[d][q] = IF d = c /\ q = r THEN in(state) ELSE out(d, q)
  BY <1>2, <1>3, <1>4
<1>8. ASSUME NEW d \in Clicks, NEW q \in Roles
      PROVE  /\ tx'[d][q].network = tx[d][q].network
             /\ tx[d][q].state # "pending" => tx'[d][q].state = tx[d][q].state
             /\ tx[d][q].state = "pending" =>
                  tx'[d][q].state \in {"pending", "landed", "reverted"}
             /\ tx'[d][q].state = "pending" =>
                  tx[d][q].state = "pending" /\ tx'[d][q].ttl = tx[d][q].ttl
             /\ tx[d][q].state # "pending" => tx'[d][q].ttl = tx[d][q].ttl
  <2>1. CASE d = c /\ q = r BY <1>1, <1>3, <1>7, <2>1
  <2>2. CASE ~(d = c /\ q = r) BY <1>4, <1>7, <2>2
  <2>3. QED BY <2>1, <2>2
<1>9. ASSUME NEW d \in Clicks PROVE FlowInv(d)'
  <2> DEFINE role == flow[d].role
  <2>1. /\ FlowInv(d) /\ role \in Roles /\ Current(d) = tx[d][role]
        /\ Current(d)' = tx'[d][role]
    BY <1>5, <1>6, FlowTypes DEF Current
  <2>2. Active(d)' <=> Active(d) BY <1>5, <1>6 DEF Active
  <2>3. "approve" \in Roles BY DEF Roles
  <2>4. Shape(d)'
    <3>1. flow[d].phase \in {"idle", "check"} => \A q \in Roles : tx'[d][q].state = "none"
      BY <1>8, <2>1 DEF FlowInv, Shape
    <3>2. Active(d) => \A q \in Roles \ {role} : tx'[d][q].state \in {"none", "landed"}
      BY <1>8, <2>1 DEF FlowInv, Shape
    <3>3. /\ flow[d].phase = "sign" /\ flow[d].kind \notin Unsent => tx'[d][role].state = "built"
          /\ flow[d].phase \in {"send", "poll"} => flow[d].kind \notin Unsent
          /\ flow[d].phase = "build" /\ flow[d].kind \in Unsent => tx'[d][role].state = "none"
          /\ flow[d].phase = "send" => \/ tx'[d][role].state = "built"
                                       \/ tx'[d][role].state = "lost" /\ flow[d].switched
          /\ flow[d].phase = "poll" => /\ flow[d].polls # 0
                                       /\ tx'[d][role].state \in {"pending", "lost", "landed", "reverted"}
          /\ flow[d].phase = "publish" =>
               /\ role = "act"
               /\ flow[d].kind = "vote" \/ (flow[d].kind = "fee" /\ tx'[d][role].state = "landed")
      BY <1>8, <2>1 DEF FlowInv, Shape
    <3>4. flow[d].phase # "idle" /\ role = "act" /\ flow[d].kind \in ApprovesFirst
            => tx'[d]["approve"].state = "landed"
      BY <1>8, <2>1, <2>3 DEF FlowInv, Shape
    <3>5. QED BY <1>5, <1>6, <2>1, <2>2, <3>1, <3>2, <3>3, <3>4 DEF FlowInv, Shape
  <2>5. Dated(d)'
    <3>1. \A q \in Roles : tx'[d][q].state = "pending" => tx'[d][q].ttl # 0
      BY <1>8, <2>1 DEF FlowInv, Dated
    <3>2. ASSUME Panel(flow[d].kind) \in Patient
          PROVE  /\ flow[d].phase \in {"sign", "send"} => tx'[d][role].ttl <= 3
                 /\ flow[d].phase = "poll" /\ tx'[d][role].state = "pending" =>
                      /\ tx'[d][role].ttl <= flow[d].polls
                      /\ flow[d].slept => tx'[d][role].ttl < flow[d].polls
      <4>1. flow[d].phase \in {"sign", "send"} => tx[d][role].state # "pending"
        BY <2>1, <3>2, PatientSends DEF FlowInv, Shape
      <4>2. QED BY <1>8, <2>1, <3>2, <4>1 DEF FlowInv, Dated
    <3>3. QED BY <1>5, <1>6, <2>1, <3>1, <3>2 DEF Dated
  <2>6. OnNetwork(d)'
    <3>1. ASSUME ~flow[d].switched, NEW q \in Roles,
                 tx'[d][q].state \in {"built", "pending", "landed", "reverted"}
          PROVE  tx'[d][q].network = flow[d].network
      BY <1>8, <2>1, <3>1 DEF FlowInv, OnNetwork
    <3>2. QED BY <1>1, <1>5, <1>6, <2>1, <2>2, <3>1 DEF FlowInv, OnNetwork
  <2>7. Numbered(d)'
    <3>1. ASSUME flow[d].phase \in {"sign", "send"}, tx'[d][role].state = "built"
          PROVE  tx'[d][role].next \/ flow[d].switched \/ f(d).contended
      <4>1. Active(d) /\ tx[d][role].state = "built" BY <1>8, <2>1, <3>1 DEF Active
      <4>2. CASE d = c
        <5>1. FALSE
          <6>1. r \in Roles \ {role} BY <1>1, <4>1, <4>2
          <6>2. QED BY <1>1, <2>1, <4>1, <4>2, <6>1 DEF FlowInv, Shape
        <5>2. QED BY <5>1
      <4>3. CASE d # c BY <1>5, <4>1, <4>3
      <4>4. QED BY <4>2, <4>3
    <3>2. QED BY <1>5, <1>6, <2>1, <3>1 DEF Numbered
  <2>8. Ended(d)'
    <3>1. tx[d][role].state = "lost" => tx'[d][role].state = "lost" BY <1>8, <2>1
    <3>2. QED BY <1>5, <1>6, <2>1, <3>1 DEF FlowInv, Ended
  <2>9. QED BY <2>4, <2>5, <2>6, <2>7, <2>8 DEF FlowInv
<1>10. \A d \in Clicks : tx[d]["act"].state = "landed" => tx'[d]["act"].state = "landed"
  BY <1>8 DEF Roles
<1>11. QED BY <1>1, <1>5, <1>6, <1>7, <1>9, <1>10 DEF World
LEMMA TickKeeps ==
  ASSUME Typed, \A d \in Clicks : FlowInv(d), Tick
  PROVE  World
<1> DEFINE older(t) == [t EXCEPT !.ttl = IF @ > 0 THEN @ - 1 ELSE 0]
           f(d) == [flow[d] EXCEPT !.slept = @ \/ flow[d].phase = "poll"]
<1>1. /\ flow' = [d \in Clicks |-> f(d)] /\ UNCHANGED <<network, walletNetwork, history>>
      /\ flow \in [Clicks -> Flows] /\ tx \in [Clicks -> [Roles -> Transactions]]
      /\ tx' = [d \in Clicks |-> [q \in Roles |->
                  IF tx[d][q].state = "pending" /\ tx[d][q].ttl = 1 THEN LostTx
                  ELSE older(tx[d][q])]]
  BY DEF Tick, Typed
<1>2. ASSUME NEW t \in Transactions
      PROVE  /\ older(t) \in Transactions /\ older(t).state = t.state
             /\ older(t).network = t.network /\ older(t).next = t.next
             /\ older(t).ttl = IF t.ttl > 0 THEN t.ttl - 1 ELSE 0
  <2>1. t.ttl \in 0..4 /\ (IF t.ttl > 0 THEN t.ttl - 1 ELSE 0) \in 0..4
    BY DEF Transactions
  <2>2. QED BY <2>1 DEF Transactions
<1>3. ASSUME NEW d \in Clicks
      PROVE  /\ f(d) \in Flows /\ f(d).phase = flow[d].phase /\ f(d).kind = flow[d].kind
             /\ f(d).role = flow[d].role /\ f(d).network = flow[d].network
             /\ f(d).contended = flow[d].contended /\ f(d).polls = flow[d].polls
             /\ f(d).result = flow[d].result /\ f(d).switched = flow[d].switched
  <2>1. flow[d] \in Flows /\ (flow[d].slept \/ flow[d].phase = "poll") \in BOOLEAN
    BY <1>1
  <2>2. QED BY <2>1 DEF Flows
<1> HIDE DEF older, f
<1>4. flow' \in [Clicks -> Flows] /\ \A d \in Clicks : flow'[d] = f(d) BY <1>1, <1>3
<1>5. /\ tx' \in [Clicks -> [Roles -> Transactions]]
      /\ \A d \in Clicks, q \in Roles :
           tx'[d][q] = IF tx[d][q].state = "pending" /\ tx[d][q].ttl = 1 THEN LostTx
                       ELSE older(tx[d][q])
  BY <1>1, <1>2, PlainTypes
<1>6. ASSUME NEW d \in Clicks, NEW q \in Roles
      PROVE  /\ tx[d][q].state # "pending" =>
                  tx'[d][q].state = tx[d][q].state /\ tx'[d][q].next = tx[d][q].next
             /\ tx[d][q].state = "pending" => tx'[d][q].state \in {"pending", "lost"}
             /\ tx'[d][q].state # "lost" => tx'[d][q].network = tx[d][q].network
             /\ tx'[d][q].state = "pending" =>
                  /\ tx[d][q].state = "pending"
                  /\ tx[d][q].ttl > 0 => tx'[d][q].ttl = tx[d][q].ttl - 1 /\ tx'[d][q].ttl > 0
             /\ tx[d][q].state # "pending" =>
                  tx'[d][q].ttl <= tx[d][q].ttl
             /\ tx[d][q].ttl \in 0..4
  <2>1. tx[d][q] \in Transactions /\ tx[d][q].ttl \in 0..4 BY <1>1 DEF Transactions
  <2>2. CASE tx[d][q].state = "pending" /\ tx[d][q].ttl = 1 BY <1>5, <2>1, <2>2, PlainTypes
  <2>3. CASE ~(tx[d][q].state = "pending" /\ tx[d][q].ttl = 1) BY <1>2, <1>5, <2>1, <2>3
  <2>4. QED BY <2>2, <2>3
<1>7. ASSUME NEW d \in Clicks PROVE FlowInv(d)'
  <2> DEFINE role == flow[d].role
  <2>1. /\ FlowInv(d) /\ role \in Roles /\ Current(d) = tx[d][role]
        /\ Current(d)' = tx'[d][role] /\ flow[d].polls \in 0..3
    BY <1>3, <1>4, FlowTypes DEF Current
  <2>2. Active(d)' <=> Active(d) BY <1>3, <1>4 DEF Active
  <2>3. "approve" \in Roles BY DEF Roles
  <2>4. Shape(d)'
    <3>1. flow[d].phase \in {"idle", "check"} => \A q \in Roles : tx'[d][q].state = "none"
      BY <1>6, <2>1 DEF FlowInv, Shape
    <3>2. Active(d) => \A q \in Roles \ {role} : tx'[d][q].state \in {"none", "landed"}
      BY <1>6, <2>1 DEF FlowInv, Shape
    <3>3. /\ flow[d].phase = "sign" /\ flow[d].kind \notin Unsent => tx'[d][role].state = "built"
          /\ flow[d].phase \in {"send", "poll"} => flow[d].kind \notin Unsent
          /\ flow[d].phase = "build" /\ flow[d].kind \in Unsent => tx'[d][role].state = "none"
          /\ flow[d].phase = "send" => \/ tx'[d][role].state = "built"
                                       \/ tx'[d][role].state = "lost" /\ flow[d].switched
          /\ flow[d].phase = "poll" => /\ flow[d].polls # 0
                                       /\ tx'[d][role].state \in {"pending", "lost", "landed", "reverted"}
          /\ flow[d].phase = "publish" =>
               /\ role = "act"
               /\ flow[d].kind = "vote" \/ (flow[d].kind = "fee" /\ tx'[d][role].state = "landed")
      BY <1>6, <2>1 DEF FlowInv, Shape
    <3>4. flow[d].phase # "idle" /\ role = "act" /\ flow[d].kind \in ApprovesFirst
            => tx'[d]["approve"].state = "landed"
      BY <1>6, <2>1, <2>3 DEF FlowInv, Shape
    <3>5. QED BY <1>3, <1>4, <2>1, <2>2, <3>1, <3>2, <3>3, <3>4 DEF FlowInv, Shape
  <2>5. Dated(d)'
    <3>1. ASSUME NEW q \in Roles, tx'[d][q].state = "pending" PROVE tx'[d][q].ttl # 0
      <4>1. tx[d][q].state = "pending" /\ tx[d][q].ttl # 0
        BY <1>6, <2>1, <3>1 DEF FlowInv, Dated
      <4>2. QED BY <1>6, <3>1, <4>1
    <3>2. ASSUME Panel(flow[d].kind) \in Patient, flow[d].phase \in {"sign", "send"}
          PROVE  tx'[d][role].ttl <= 3
      <4>1. tx[d][role].state # "pending" /\ tx[d][role].ttl <= 3
        BY <2>1, <3>2, PatientSends DEF FlowInv, Shape, Dated
      <4>2. /\ tx'[d][role].ttl <= tx[d][role].ttl /\ tx[d][role].ttl \in 0..4
            /\ tx'[d][role].ttl \in 0..4
        BY <1>5, <1>6, <2>1, <4>1 DEF Transactions
      <4>3. QED BY <4>1, <4>2
    <3>3. ASSUME Panel(flow[d].kind) \in Patient, flow[d].phase = "poll",
                 tx'[d][role].state = "pending"
          PROVE  tx'[d][role].ttl < flow[d].polls
      <4>1. tx[d][role].state = "pending" /\ tx[d][role].ttl # 0
        BY <1>6, <2>1, <3>3 DEF FlowInv, Dated
      <4>2. tx[d][role].ttl <= flow[d].polls BY <2>1, <3>3, <4>1 DEF FlowInv, Dated
      <4>3. tx[d][role].ttl \in 0..4 /\ tx'[d][role].ttl = tx[d][role].ttl - 1
        BY <1>6, <2>1, <3>3, <4>1
      <4>4. QED BY <2>1, <4>2, <4>3
    <3>4. ASSUME Panel(flow[d].kind) \in Patient, flow[d].phase = "poll",
                 tx'[d][role].state = "pending"
          PROVE  tx'[d][role].ttl <= flow[d].polls
      <4>1. tx'[d][role].ttl \in 0..4 BY <1>5, <2>1 DEF Transactions
      <4>2. QED BY <2>1, <3>3, <3>4, <4>1
    <3>5. QED BY <1>3, <1>4, <2>1, <3>1, <3>2, <3>3, <3>4 DEF Dated
  <2>6. OnNetwork(d)'
    <3>1. ASSUME ~flow[d].switched, NEW q \in Roles,
                 tx'[d][q].state \in {"built", "pending", "landed", "reverted"}
          PROVE  tx'[d][q].network = flow[d].network
      <4>1. tx'[d][q].network = tx[d][q].network BY <1>6, <3>1
      <4>2. tx[d][q].state \in {"built", "pending", "landed", "reverted"} BY <1>6, <3>1
      <4>3. QED BY <2>1, <3>1, <4>1, <4>2 DEF FlowInv, OnNetwork
    <3>2. QED BY <1>1, <1>3, <1>4, <2>1, <2>2, <3>1 DEF FlowInv, OnNetwork
  <2>7. Numbered(d)'
    <3>1. ASSUME flow[d].phase \in {"sign", "send"}, tx'[d][role].state = "built"
          PROVE  tx'[d][role].next \/ flow[d].switched \/ flow[d].contended
      <4>1. tx[d][role].state = "built" /\ tx'[d][role].next = tx[d][role].next
        BY <1>6, <2>1, <3>1
      <4>2. QED BY <2>1, <3>1, <4>1 DEF FlowInv, Numbered
    <3>2. QED BY <1>3, <1>4, <2>1, <3>1 DEF Numbered
  <2>8. Ended(d)'
    <3>1. tx[d][role].state = "lost" => tx'[d][role].state = "lost" BY <1>6, <2>1
    <3>2. QED BY <1>3, <1>4, <2>1, <3>1 DEF FlowInv, Ended
  <2>9. QED BY <2>4, <2>5, <2>6, <2>7, <2>8 DEF FlowInv
<1>8. \A d \in Clicks : tx[d]["act"].state = "landed" => tx'[d]["act"].state = "landed"
  BY <1>6 DEF Roles
<1>9. QED BY <1>1, <1>3, <1>4, <1>5, <1>7, <1>8 DEF World
-----------------------------------------------------------------------------
(* The invariant. *)

LEMMA FlowStepKeeps ==
  ASSUME Typed, NEW c \in Clicks, FlowInv(c),
         FlowStep(c) \/ Sign(c) \/ SignMainnet(c) \/ RequestFails(c)
  PROVE  Lawful(c)
BY CheckKeeps, BuildKeeps, LoadKeeps, SendKeeps, PollKeeps, HorizonKeeps, PublishKeeps,
   SignKeeps, SignMainnetKeeps, RequestFailsKeeps DEF FlowStep

\* The variables that belong to no flow.
LEMMA PlainKeeps ==
  ASSUME Typed, Next
  PROVE  /\ network' \in Networks /\ walletNetwork' \in Networks
         /\ trustline' \in BOOLEAN /\ mishaps' \in 0..MaxMishaps
<1>1. Mishap => mishaps' \in 0..MaxMishaps BY BoundsAssumption DEF Mishap, Typed
<1>2. ASSUME NEW c \in Clicks, Click(c) PROVE UNCHANGED <<network, walletNetwork, trustline, mishaps>>
  BY <1>2 DEF Click
<1>3. ASSUME NEW c \in Clicks, FlowStep(c)
      PROVE  UNCHANGED <<network, walletNetwork, trustline>> /\ (Mishap \/ UNCHANGED mishaps)
  BY <1>3 DEF FlowStep, CheckTrustline, Build, LoadAccount, Send, Poll, Horizon, Publish
<1>4. ASSUME NEW c \in Clicks, Sign(c) \/ SignMainnet(c) \/ RequestFails(c)
      PROVE  UNCHANGED <<network, walletNetwork, trustline>> /\ (Mishap \/ UNCHANGED mishaps)
  BY <1>4 DEF Sign, SignMainnet, RequestFails
<1>5. ASSUME NEW c \in Clicks, NEW r \in Roles, Include(c, r)
      PROVE  UNCHANGED <<network, walletNetwork, mishaps>> /\ trustline' \in BOOLEAN
  <2>1. PICK state \in {"landed", "reverted"} :
          trustline' = (trustline \/ (r = "trust" /\ state = "landed"
                                      /\ tx[c][r].network = "testnet"))
    BY <1>5 DEF Include
  <2>2. trustline' \in BOOLEAN BY <2>1 DEF Typed
  <2>3. QED BY <1>5, <2>2 DEF Include
<1>6. CASE SwitchNetwork BY <1>1, <1>6 DEF SwitchNetwork, Typed
<1>7. CASE Tick BY <1>7 DEF Tick, Typed
<1>8. QED BY <1>1, <1>2, <1>3, <1>4, <1>5, <1>6, <1>7 DEF Next, Typed

LEMMA StepKeeps ==
  ASSUME TransactionsInv, Next
  PROVE  TransactionsInv'
<1>1. Typed /\ Locked /\ (\A d \in Clicks : FlowInv(d)) /\ (\A h \in history \ Samples : Entered(h))
  BY TypeParts DEF TransactionsInv
<1>2. /\ network' \in Networks /\ walletNetwork' \in Networks
      /\ trustline' \in BOOLEAN /\ mishaps' \in 0..MaxMishaps
  BY <1>1, PlainKeeps
<1>3. SUFFICES Typed' /\ Locked' /\ (\A d \in Clicks : FlowInv(d)') /\ (\A h \in history' \ Samples : Entered(h)')
  <2>1. Typed' /\ Locked' => TypeOK' BY TypeParts, PTL
  <2>2. QED BY <1>3, <2>1 DEF TransactionsInv
<1>4. ASSUME NEW c \in Clicks, Click(c)
      PROVE  Typed' /\ Locked' /\ (\A d \in Clicks : FlowInv(d)') /\ (\A h \in history' \ Samples : Entered(h)')
  <2>1. /\ Own(c) /\ FlowInv(c)' /\ flow[c].phase = "idle"
        /\ MayClick(flow'[c].kind) /\ UNCHANGED history
    BY <1>1, <1>4, ClickKeeps
  <2>2. Typed' BY <1>1, <1>2, <2>1 DEF Typed, Own
  <2>3. \A d \in Clicks : FlowInv(d)' BY <1>1, <2>1, Elsewhere DEF Own
  <2>4. \A d \in Clicks \ {c} : flow'[d] = flow[d] /\ (Active(d)' <=> Active(d))
    BY <2>1 DEF Own, Active
  <2>5. Panel(flow'[c].kind) \notin Unlocked =>
          \A d \in Clicks : Active(d) => Panel(flow[d].kind) # Panel(flow'[c].kind)
    BY <2>1 DEF MayClick
  <2>6. Locked' BY <1>1, <2>4, <2>5 DEF Locked
  <2>7. ASSUME NEW h \in history' \ Samples PROVE Entered(h)'
    <3>1. h \in history /\ h \notin Samples /\ h.click \in Clicks /\ Entered(h) BY <1>1, <2>1, <2>7 DEF Entered
    <3>2. h.click # c BY <2>1, <3>1 DEF Entered
    <3>3. flow'[h.click] = flow[h.click] /\ tx'[h.click] = tx[h.click] BY <2>1, <3>1, <3>2 DEF Own
    <3>4. QED BY <3>1, <3>3 DEF Entered
  <2>8. QED BY <2>2, <2>3, <2>6, <2>7
<1>5. ASSUME NEW c \in Clicks,
             FlowStep(c) \/ Sign(c) \/ SignMainnet(c) \/ RequestFails(c)
      PROVE  Typed' /\ Locked' /\ (\A d \in Clicks : FlowInv(d)') /\ (\A h \in history' \ Samples : Entered(h)')
  <2>1. Lawful(c) BY <1>1, <1>5, FlowStepKeeps
  <2>2. Own(c) /\ Typed' BY <1>2, <2>1 DEF Typed, Lawful, Own
  <2>3. \A d \in Clicks : FlowInv(d)' BY <1>1, <2>1, <2>2, Elsewhere DEF Lawful, Own
  <2>4. \A d \in Clicks : flow'[d].kind = flow[d].kind /\ (Active(d)' => Active(d))
    BY <2>1 DEF Lawful, Own, Active
  <2>5. Locked' BY <1>1, <2>4 DEF Locked
  <2>6. ASSUME NEW h \in history' \ Samples PROVE Entered(h)'
    <3>1. CASE h \in history
      <4>1. h.click \in Clicks /\ Entered(h) BY <1>1, <2>6, <3>1 DEF Entered
      <4>2. h.click # c BY <2>1, <4>1 DEF Entered, Lawful, Active
      <4>3. flow'[h.click] = flow[h.click] /\ tx'[h.click] = tx[h.click]
        BY <2>2, <4>1, <4>2 DEF Own
      <4>4. QED BY <4>1, <4>3 DEF Entered
    <3>2. CASE h \notin history BY <2>1, <2>6, <3>2 DEF Lawful
    <3>3. QED BY <3>1, <3>2
  <2>7. QED BY <2>2, <2>3, <2>5, <2>6
<1>6. ASSUME World
      PROVE  Typed' /\ Locked' /\ (\A d \in Clicks : FlowInv(d)') /\ (\A h \in history' \ Samples : Entered(h)')
  <2>1. Typed' BY <1>1, <1>2, <1>6 DEF Typed, World
  <2>2. Locked'
    <3>1. \A d \in Clicks : flow'[d].kind = flow[d].kind /\ (Active(d)' <=> Active(d))
      BY <1>6 DEF World, Active
    <3>2. QED BY <1>1, <3>1 DEF Locked
  <2>3. \A d \in Clicks : FlowInv(d)' BY <1>6 DEF World
  <2>4. ASSUME NEW h \in history' \ Samples PROVE Entered(h)'
    <3>1. h \in history /\ h.click \in Clicks /\ Entered(h)
      BY <1>1, <1>6, <2>4 DEF Entered, World
    <3>2. QED BY <1>6, <3>1 DEF Entered, World
  <2>5. QED BY <2>1, <2>2, <2>3, <2>4
<1>7. QED
  BY <1>1, <1>4, <1>5, <1>6, SwitchKeeps, IncludeKeeps, TickKeeps DEF Next

LEMMA InitKeeps == Init => TransactionsInv
<1> SUFFICES ASSUME Init PROVE TransactionsInv OBVIOUS
<1>1. Idle \in Flows /\ Idle.phase = "idle" /\ Idle.result = "none" /\ Idle.role = "act"
  BY DEF Idle, Flows, AllKinds, Phases, Roles, Networks, Results
<1>2. /\ flow \in [Clicks -> Flows] /\ tx \in [Clicks -> [Roles -> Transactions]]
      /\ \A c \in Clicks : flow[c] = Idle
      /\ \A c \in Clicks, r \in Roles : tx[c][r].state = "none"
  BY <1>1, PlainTypes DEF Init
<1>3. Typed
  <2>1. mishaps \in 0..MaxMishaps BY BoundsAssumption DEF Init
  <2>2. Samples \subseteq [click : 0..MaxClicks, network : Networks]
    BY BoundsAssumption DEF Samples, Networks
  <2>3. QED BY <1>2, <2>1, <2>2 DEF Typed, Init, Networks
<1>4. Locked BY <1>1, <1>2 DEF Locked, Active
<1>5. ASSUME NEW c \in Clicks PROVE FlowInv(c)
  <2>1. ~Active(c) /\ flow[c].phase = "idle" /\ flow[c].role = "act" /\ flow[c].result = "none"
    BY <1>1, <1>2 DEF Active
  <2>2. Shape(c) BY <1>2, <2>1 DEF Shape
  <2>3. Dated(c) /\ OnNetwork(c) BY <1>2, <2>1 DEF Dated, OnNetwork
  <2>4. Numbered(c) /\ Ended(c) BY <2>1 DEF Numbered, Ended
  <2>5. QED BY <2>2, <2>3, <2>4 DEF FlowInv
<1>6. history = Samples BY DEF Init
<1>7. QED BY <1>3, <1>4, <1>5, <1>6, TypeParts DEF TransactionsInv

\* The inductive invariant: what phase a flow is in tells what its
\* transactions can be, for any number of flows at the same time.
THEOREM TransactionsInvariant == Spec => []TransactionsInv
<1>1. TransactionsInv /\ [Next]_vars => TransactionsInv'
  <2> SUFFICES ASSUME TransactionsInv, [Next]_vars PROVE TransactionsInv' OBVIOUS
  <2>1. CASE Next BY <2>1, StepKeeps
  <2>2. CASE UNCHANGED vars
    <3>1. TypeOK' BY <2>2 DEF TransactionsInv, TypeOK, vars, Active
    <3>2. \A c \in Clicks : FlowInv(c)' BY <2>2, Elsewhere DEF TransactionsInv, vars
    <3>3. \A h \in history' \ Samples : Entered(h)' BY <2>2 DEF TransactionsInv, Entered, vars
    <3>4. QED BY <3>1, <3>2, <3>3 DEF TransactionsInv
  <2>3. QED BY <2>1, <2>2
<1>2. QED BY InitKeeps, <1>1, PTL DEF Spec

\* Every variable keeps its type, and a panel runs at most one flow: the flags
\* that disable its button hold from the click to the finally of the handler.
THEOREM TransactionsTypes == Spec => []TypeOK
<1>1. TransactionsInv => TypeOK BY DEF TransactionsInv
<1>2. QED BY TransactionsInvariant, <1>1, PTL

\* What the handlers that poll put on the transactions list is true, however
\* many flows run at the same time and whatever is lost: each enters its act
\* after polling it to success.  Nothing is said of the other entries.
THEOREM PolledEntriesAlwaysTrue == Spec => []PolledEntriesAreTrue
<1>1. TransactionsInv => PolledEntriesAreTrue
  <2> SUFFICES ASSUME TransactionsInv, NEW h \in history \ Samples,
                      flow[h.click].kind \notin Unsent
               PROVE  /\ tx[h.click]["act"].state = "landed"
                      /\ tx[h.click]["act"].network = h.network \/ flow[h.click].switched
                      /\ flow[h.click].kind \in ApprovesFirst =>
                           tx[h.click]["approve"].state = "landed"
    BY DEF PolledEntriesAreTrue
  <2>1. Entered(h) /\ h.click \in Clicks /\ FlowInv(h.click)
    BY DEF TransactionsInv, Entered
  <2>2. ~flow[h.click].switched => tx[h.click]["act"].network = h.network
    BY <2>1 DEF Entered, FlowInv, OnNetwork, Roles
  <2>3. flow[h.click].kind \in ApprovesFirst => tx[h.click]["approve"].state = "landed"
    BY <2>1 DEF Entered, FlowInv, Shape
  <2>4. QED BY <2>1, <2>2, <2>3 DEF Entered
<1>2. QED BY TransactionsInvariant, <1>1, PTL

\* A backstop or hook flow that timed out without a switch has left nothing
\* that lands: its fifteen polls outlast the thirty seconds of setTimeout.
THEOREM TimedOutStaysDead == Spec => []TimedOutIsDead
<1>1. TransactionsInv => TimedOutIsDead
  BY DEF TransactionsInv, TimedOutIsDead, FlowInv, Ended, Patient, Current
<1>2. QED BY TransactionsInvariant, <1>1, PTL

\* A flow never makes its own transaction stale: a refusal has a cause outside
\* the flow, because each leg reads its sequence number after the leg before.
THEOREM RefusalsHaveACause == Spec => []RefusedOnlyIfTouched
<1>1. TransactionsInv => RefusedOnlyIfTouched
  BY DEF TransactionsInv, RefusedOnlyIfTouched, FlowInv, Ended
<1>2. QED BY TransactionsInvariant, <1>1, PTL
=============================================================================
