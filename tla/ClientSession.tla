---------------------------- MODULE ClientSession ----------------------------
(***************************************************************************)
(* The session of one page of the client: the wallet of                    *)
(* lib/stellar-wallet.tsx, what the page shows of the connected account    *)
(* (lib/store.ts, lib/positions.ts, lib/markets.ts, lib/hooks, the effects *)
(* of ErgoDashboard.tsx) and the books it keeps of a wallet in            *)
(* localStorage: mainnet positions, credit delegations and rewards.        *)
(*                                                                         *)
(* What is fetched is told apart only by the wallet and the network it was *)
(* fetched for.  A request carries both from the moment it is made; its    *)
(* answer may come after the user has moved on, and later requests may be  *)
(* answered first.  No two views share state, so a behaviour follows one,  *)
(* picked in Init, or a book.                                              *)
(***************************************************************************)
EXTENDS Naturals, Sequences, FiniteSets, SequencesExt

CONSTANTS
  Wallets, None,
  MaxMoves,        \* what the user does to the session
  MaxFaults,       \* requests that fail
  MaxTxs           \* entries in the lists when a new one is begun

ASSUME NoneAssumption == None \notin Wallets
ASSUME BoundsAssumption == MaxMoves \in Nat /\ MaxFaults \in Nat /\ MaxTxs \in Nat

Networks == {"testnet", "mainnet"}
Views == {"positions", "hookPosition", "hookBalances", "hookMarkets", "balances",
          "compliance", "backstop", "preview", "markets", "prices"}
Books == {"mainnet", "delegations", "rewards"}
Sections == {"portfolio", "backstop"}

VARIABLES
  view,            \* the view or the book this behaviour follows
  \* The page.
  wallet, network,
  asking,          \* the wallet connectWallet waits for
  shown,           \* what the view shows
  requests,        \* its requests under way
  loaded,          \* the store has a list of markets
  typed,           \* the transaction modal has a positive amount
  section,         \* activeSection: the backstop's or another one
  staking,         \* the wallet of a backstop handler under way
  modal,           \* mainnetSignData: what the user is asked to confirm
  signing,         \* the mainnet transaction the wallet is asked to sign
  handler,         \* a handler of ClientTransactions under way: wallet, network
  book,            \* mainnetPositions, activeDelegations or liveRewards: the
                   \* wallet it was read for, the amount
  transactions,    \* the list shown: the wallet it was read for, both networks'
  \* localStorage.
  session,         \* ergo_wallet_address and ergo_wallet_provider
  books,           \* ergo_mainnet_positions_, ergo_dels_, ergo_rewards_<wallet>
  lists,           \* ergo_mainnet_txs_<wallet>, oldest first; what was done to
                   \* another book
  tests,           \* the length of ergo_txs_<wallet>
  \* Bounds and history.
  moves, faults,
  raced,           \* since the view was reset or asked for with nothing under
                   \* way: a request was made, or the session moved, with one
                   \* under way, one failed, or one was for another wallet
  tainted,         \* wallets that signed while another one's book was shown
  strayed          \* what a handler of another wallet has overwritten since the
                   \* effects read it: the book, the list

pageVars == <<wallet, network, asking>>
stakeVars == <<section, staking>>
viewVars == <<shown, requests, loaded, typed, raced, stakeVars>>
dialogVars == <<modal, signing, handler>>
bookVars == <<dialogVars, book, transactions, books, lists, tests, tainted, strayed>>
vars == <<view, pageVars, viewVars, bookVars, session, moves, faults>>

Tags == [who : Wallets \cup {None}, at : Networks \cup {"none"},
         prices : Networks \cup {"none"}, good : BOOLEAN]
Tag(w, n) == [who |-> w, at |-> n, prices |-> "none", good |-> TRUE]
Nothing == Tag(None, "none")
NoBook == [who |-> None, amount |-> 0]
NoSigning == [who |-> None, amount |-> 0, action |-> "add"]
NoHandler == [who |-> None, at |-> "testnet"]
\* To supply or borrow, to withdraw or repay; to delegate, to revoke.
Actions == {"add", "take"}
\* The list also has the entries of the handlers.
Entries == Actions \cup {"handler"}

TypeOK ==
  /\ view \in Views \cup Books
  /\ wallet \in Wallets \cup {None} /\ network \in Networks
  /\ asking \in Wallets \cup {None}
  /\ shown \in Tags /\ requests \subseteq Tags /\ loaded \in BOOLEAN
  /\ typed \in BOOLEAN
  /\ section \in Sections /\ staking \in Wallets \cup {None}
  /\ modal \in Actions \cup {"none"}
  /\ signing \in [who : Wallets \cup {None}, amount : Nat, action : Actions]
  /\ handler \in [who : Wallets \cup {None}, at : Networks]
  /\ book \in [who : Wallets \cup {None}, amount : Nat]
  /\ session = wallet
  /\ transactions \in [who : Wallets \cup {None}, main : Seq(Entries), test : Nat]
  /\ books \in [Wallets -> Nat] /\ lists \in [Wallets -> Seq(Entries)]
  /\ tests \in [Wallets -> Nat]
  /\ moves \in 0..MaxMoves /\ faults \in 0..MaxFaults
  /\ raced \in BOOLEAN /\ tainted \subseteq Wallets /\ strayed \subseteq {"book", "list"}

NoList == [who |-> None, main |-> <<>>, test |-> 0]

\* What a wallet without an entry in localStorage starts from: one delegation,
\* the rewards' first amount.
Default == IF view = "delegations" THEN 1 ELSE 0

Init ==
  /\ view \in Views \cup Books
  /\ wallet = None /\ network = "testnet" /\ asking = None
  /\ shown = Nothing /\ requests = {} /\ loaded = FALSE /\ typed = FALSE
  /\ section = "portfolio" /\ staking = None
  /\ modal = "none" /\ signing = NoSigning /\ handler = NoHandler
  /\ book = NoBook /\ transactions = NoList
  /\ session = None
  /\ books = [w \in Wallets |-> Default] /\ lists = [w \in Wallets |-> <<>>]
  /\ tests = [w \in Wallets |-> 0]
  /\ moves = 0 /\ faults = 0 /\ raced = FALSE /\ tainted = {} /\ strayed = {}
-----------------------------------------------------------------------------
(* The views.  A rule says when a view is fetched: when the wallet or the  *)
(* network changes (deps), whether also without a wallet (nobody), and by  *)
(* a timer: "connected", "always" or "never".  emptied: without a wallet it *)
(* is reset.  keeps: a failed request leaves it alone; else it is set to   *)
(* what stands for "nothing known".                                        *)

\* The store's positions: refreshPositions, every 10 s.
PositionsViewOnce ==                           \* mutant: the interval is lost
  [deps |-> {"wallet"}, nobody |-> FALSE, timer |-> "never", emptied |-> TRUE, keeps |-> FALSE]
PositionsView ==
  [deps |-> {"wallet"}, nobody |-> FALSE, timer |-> "connected", emptied |-> TRUE, keeps |-> FALSE]
\* useUserPosition.
HookPositionView ==
  [deps |-> {"wallet"}, nobody |-> FALSE, timer |-> "connected", emptied |-> TRUE, keeps |-> TRUE]
\* useWalletBalances.
HookBalancesView ==
  [deps |-> {"wallet"}, nobody |-> FALSE, timer |-> "never", emptied |-> TRUE, keeps |-> FALSE]
\* useMarkets.
HookMarketsView ==
  [deps |-> {}, nobody |-> TRUE, timer |-> "always", emptied |-> FALSE, keeps |-> TRUE]
\* fetchBalances of the dashboard.
BalancesViewOfWallet ==                        \* mutant: network is no dependency
  [deps |-> {"wallet"}, nobody |-> FALSE, timer |-> "never", emptied |-> TRUE, keeps |-> TRUE]
BalancesView ==
  [deps |-> {"wallet", "network"}, nobody |-> FALSE, timer |-> "never", emptied |-> TRUE,
   keeps |-> TRUE]
\* fetchComplianceStates: also on each list of markets, every 30 s.
ComplianceView ==
  [deps |-> {"wallet"}, nobody |-> TRUE, timer |-> "always", emptied |-> FALSE, keeps |-> FALSE]
\* The user's balances of fetchBackstopData, asked for in its section only; no
\* other section, and no loss of the wallet, takes away what it has shown.
BackstopView ==
  [deps |-> {"wallet"}, nobody |-> FALSE, timer |-> "never", emptied |-> FALSE, keeps |-> FALSE]
\* TransactionOverview, for the amount typed.
PreviewView ==
  [deps |-> {"wallet"}, nobody |-> FALSE, timer |-> "never", emptied |-> TRUE, keeps |-> TRUE]
\* The store's markets and prices, every 30 s.
MarketsView ==
  [deps |-> {}, nobody |-> TRUE, timer |-> "always", emptied |-> FALSE, keeps |-> FALSE]
PricesView == MarketsView

Rule ==
  CASE view = "positions" -> PositionsView
    [] view = "hookPosition" -> HookPositionView
    [] view = "hookBalances" -> HookBalancesView
    [] view = "hookMarkets" -> HookMarketsView
    [] view = "balances" -> BalancesView
    [] view = "compliance" -> ComplianceView
    [] view = "backstop" -> BackstopView
    [] view = "preview" -> PreviewView
    [] view = "markets" -> MarketsView
    [] view = "prices" -> PricesView
    [] view \in Books -> [HookMarketsView EXCEPT !.timer = "never"]

Personal == "wallet" \in Rule.deps
\* The preview waits 400 ms before it asks, the live network by then.
RequestFor(w, n) == Tag(IF Personal THEN w ELSE None, IF view = "preview" THEN "none" ELSE n)
UnderWay == {r \in requests : r.at # "none"}

\* The view is asked for with a wallet and a network; a cleanup clears the
\* timeout of a preview that still waits.
Request(w, n) == requests' = UnderWay \cup {RequestFor(w, n)}
Fetches(w, n) == Request(w, n) /\ raced' = (UnderWay # {})

\* The effects have something to ask.
Asks(w) ==
  /\ w # None \/ Rule.nobody
  /\ view = "preview" => typed
  /\ view = "backstop" => section = "backstop"

\* The book of a wallet.
BookOf(w) == IF view \in Books /\ w # None THEN [who |-> w, amount |-> books[w]] ELSE NoBook

\* reloadTransactionsList: both lists of the wallet of the render it comes from.
ListOf(w) ==
  IF view = "mainnet" /\ w # None
  THEN [who |-> w, main |-> lists[w], test |-> tests[w]] ELSE NoList

\* Effects of a change of wallet.
WalletEffects(w) ==
  /\ \/ /\ Personal /\ Asks(w)
        /\ Fetches(w, network) /\ shown' = shown
     \/ /\ ~Personal \/ ~Asks(w)
        /\ requests' = UnderWay
        /\ LET reset == w = None /\ Rule.emptied IN
             /\ shown' = IF reset THEN Nothing ELSE shown
             /\ raced' = (UnderWay # {} \/ (raced /\ ~reset))
  /\ book' = BookOf(w) /\ transactions' = ListOf(w) /\ strayed' = {}
  /\ UNCHANGED <<loaded, typed, stakeVars, dialogVars, books, lists, tests, tainted>>

\* What localStorage remembers of the wallet.
Remembers(w) == w

Move == moves < MaxMoves /\ moves' = moves + 1

\* handleConnect: the button waits for the wallet's answer.
Connect ==
  /\ Move /\ asking = None
  /\ asking' \in Wallets
  /\ UNCHANGED <<view, wallet, network, viewVars, bookVars, session, faults>>

\* connectWallet goes on with the wallet's answer, whatever happened since.
ConnectAnswers ==
  /\ asking # None
  /\ asking' = None
  /\ \/ /\ wallet' = asking /\ session' = Remembers(asking)
        /\ IF asking = wallet THEN UNCHANGED <<viewVars, bookVars>> ELSE WalletEffects(asking)
     \/ UNCHANGED <<wallet, session, viewVars, bookVars>>
  /\ UNCHANGED <<view, network, moves, faults>>

Disconnect ==
  /\ Move /\ wallet # None
  /\ wallet' = None /\ session' = Remembers(None)
  /\ WalletEffects(None)
  /\ UNCHANGED <<view, network, asking, faults>>

\* The page is loaded again: everything under way is lost, the wallet comes
\* back from localStorage and the network from the URL.
Reload ==
  /\ Move
  /\ wallet' = session /\ network' \in Networks /\ asking' = None
  /\ shown' = Nothing /\ loaded' = FALSE /\ typed' = FALSE /\ raced' = FALSE
  /\ section' = "portfolio" /\ staking' = None
  /\ requests' = IF view \notin Books \cup {"preview", "backstop"} /\ Asks(session)
                 THEN {RequestFor(session, network')} ELSE {}
  /\ modal' = "none" /\ signing' = NoSigning /\ handler' = NoHandler
  /\ book' = BookOf(session) /\ transactions' = ListOf(session) /\ strayed' = {}
  /\ UNCHANGED <<view, books, lists, tests, tainted, session, faults>>

\* The network toggle, the effect that calls setRpcNetwork and the one that
\* reads the list again.
SwitchNetwork ==
  /\ Move
  /\ network' \in Networks \ {network}
  /\ \/ /\ "network" \in Rule.deps /\ wallet # None
        /\ Fetches(wallet, network')
     \/ /\ "network" \notin Rule.deps \/ wallet = None
        /\ requests' = requests /\ raced' = (raced \/ UnderWay # {})
  /\ transactions' = ListOf(wallet) /\ strayed' = strayed \ {"list"}
  /\ UNCHANGED <<view, wallet, asking, shown, loaded, typed, stakeVars, session, faults,
                 dialogVars, book, books, lists, tests, tainted>>

\* setActiveSection, and the effect that fetches the backstop's data.
OpenSection ==
  /\ Move /\ view = "backstop"
  /\ section' \in Sections \ {section}
  /\ IF section' = "backstop" /\ wallet # None THEN Fetches(wallet, network)
     ELSE UNCHANGED <<requests, raced>>
  /\ UNCHANGED <<view, pageVars, shown, loaded, typed, staking, bookVars, session, faults>>

\* handleBackstopDeposit or handleBackstopWithdraw starts.
BackstopHandlerStarts ==
  /\ view = "backstop" /\ section = "backstop" /\ wallet # None /\ staking = None
  /\ staking' = wallet
  /\ UNCHANGED <<view, pageVars, shown, requests, loaded, typed, section, raced, bookVars,
                 session, moves, faults>>

\* Its last step asks for the balances of the wallet of the click, wherever the
\* page is by then.  Or it fails.
BackstopHandlerEnds ==
  /\ view = "backstop" /\ staking # None
  /\ staking' = None
  /\ \/ /\ Request(staking, network)
        /\ raced' = (UnderWay # {} \/ staking # wallet)
     \/ UNCHANGED <<requests, raced>>
  /\ UNCHANGED <<view, pageVars, shown, loaded, typed, section, bookVars, session, moves,
                 faults>>

\* The amount in the transaction modal is edited; a zero leaves the preview in
\* place, no amount takes it away with what it asked.
TypeAmount ==
  /\ Move /\ view = "preview"
  /\ typed' \in BOOLEAN
  /\ \/ /\ typed' /\ wallet # None
        /\ Fetches(wallet, network) /\ shown' = shown
     \/ /\ typed' => wallet = None
        /\ requests' = UnderWay /\ raced' = (UnderWay # {})
        /\ shown' = Nothing
     \/ /\ ~typed'
        /\ requests' = {} /\ raced' = FALSE
        /\ shown' = Nothing
  /\ UNCHANGED <<view, pageVars, loaded, stakeVars, bookVars, session, faults>>

\* The 400 ms of a preview are over.
PreviewAsks ==
  /\ \E r \in requests :
       /\ view = "preview" /\ r.at = "none"
       /\ requests' = UnderWay \cup {[r EXCEPT !.at = network]}
  /\ UNCHANGED <<view, pageVars, shown, loaded, typed, stakeVars, raced, bookVars, session,
                 moves, faults>>

\* A timer fires.
Poll ==
  /\ \/ Rule.timer = "always"
     \/ Rule.timer = "connected" /\ wallet # None
  /\ RequestFor(wallet, network) \notin requests
  /\ Fetches(wallet, network)
  /\ UNCHANGED <<view, pageVars, shown, loaded, typed, stakeVars, bookVars, session, moves,
                 faults>>

\* refreshMarkets has an answer, a list or the fallback one.
MarketsLoad ==
  /\ view = "positions" /\ ~loaded
  /\ loaded' = TRUE
  /\ UNCHANGED <<view, pageVars, shown, requests, typed, stakeVars, raced, bookVars, session,
                 moves, faults>>

\* simulateContractCall turns a failure into an empty answer.  A request made
\* for another network than the live one may fail half-way: server and config
\* are read again after its first await.
AnswerFails(r) ==
  \/ r.at # network /\ faults' = faults
  \/ faults < MaxFaults /\ faults' = faults + 1

\* What stands for "nothing known": the built-in markets and prices, no
\* positions, a balance of 0.
Unknown(r) == [r EXCEPT !.good = FALSE]

\* getAllMarkets has the list, and asks the live network's oracle for prices.
ListAnswers(r) ==
  /\ r \in requests /\ view = "markets" /\ r.prices = "none"
  /\ requests' = (requests \ {r}) \cup {[r EXCEPT !.prices = network]}
  /\ UNCHANGED <<view, pageVars, shown, loaded, typed, stakeVars, raced, bookVars, session,
                 moves, faults>>

Answer(r) ==
  /\ r \in UnderWay /\ (view = "markets" => r.prices # "none")
  /\ requests' = requests \ {r}
  /\ \/ /\ shown' = [r EXCEPT !.good = view = "positions" => loaded]
        /\ UNCHANGED <<faults, raced>>
     \/ /\ AnswerFails(r)
        /\ shown' = IF Rule.keeps THEN shown ELSE Unknown(r)
        /\ raced' = TRUE
  /\ UNCHANGED <<view, pageVars, loaded, typed, stakeVars, bookVars, session, moves>>
-----------------------------------------------------------------------------
(* The books. *)

\* One more, or one less but never below zero.
Apply(amount, action) ==
  CASE action = "add" -> amount + 1
    [] action = "take" -> IF amount = 0 THEN 0 ELSE amount - 1
    [] action = "handler" -> amount

\* What a list of entries, from its oldest, makes of a first amount.
Replay(first, list) ==
  LET amount[n \in 0..Len(list)] ==
        IF n = 0 THEN first ELSE Apply(amount[n - 1], list[n])
  IN  amount[Len(list)]

Room == MapThenSumSet(LAMBDA w : Len(lists[w]) + tests[w], Wallets) < MaxTxs

\* assetPools: the pools of the page show the mainnet's book, or the store's
\* positions.
Pools == IF network = "mainnet" THEN book ELSE shown

\* The button of a pool, on the mainnet page only: it refuses an amount that is
\* not positive, and a market the wallet is not allowed on.
MaySubmit == view = "mainnet" /\ network = "mainnet" /\ wallet # None

\* triggerMainnetTransaction opens the modal, which covers the page.
MainnetTrigger ==
  /\ MaySubmit /\ modal = "none" /\ Room
  /\ modal' \in Actions
  /\ UNCHANGED <<view, pageVars, viewVars, session, moves, faults, signing, handler,
                 book, transactions, books, lists, tests, tainted, strayed>>

MainnetReject ==
  /\ modal # "none" /\ signing.who = None
  /\ modal' = "none"
  /\ UNCHANGED <<view, pageVars, viewVars, session, moves, faults, signing, handler,
                 book, transactions, books, lists, tests, tainted, strayed>>

\* The confirmation captures the wallet, and the book the page shows, of its
\* own render; the network is not looked at again.
MainnetConfirm ==
  /\ modal # "none" /\ signing.who = None /\ wallet # None
  /\ signing' = [who |-> wallet, amount |-> book.amount, action |-> modal]
  /\ tainted' = IF book.who = wallet THEN tainted ELSE tainted \cup {wallet}
  /\ UNCHANGED <<view, pageVars, viewVars, session, moves, faults, modal, handler,
                 book, transactions, books, lists, tests, strayed>>

\* The book the handler starts from when the wallet has signed.
BookOfPage == book.amount                      \* mutant: what is shown by then
BookToSign == signing.amount

\* A handler of w shows what it has written.
Strays(w, what) == strayed' = IF w = wallet THEN strayed \ what ELSE strayed \cup what

\* The wallet signs, or refuses: the book in storage and the list of
\* transactions are written for the wallet of the confirmation, and shown.
MainnetSigned ==
  /\ signing.who # None
  /\ \/ LET w == signing.who
            amount == Apply(BookToSign, signing.action) IN
          /\ books' = [books EXCEPT ![w] = amount]
          /\ lists' = [lists EXCEPT ![w] = Append(@, signing.action)]
          /\ book' = [who |-> w, amount |-> amount]
          /\ transactions' = [ListOf(w) EXCEPT !.main = lists'[w]]
          /\ Strays(w, {"book", "list"})
          /\ modal' = "none"
     \/ UNCHANGED <<books, lists, book, transactions, strayed, modal>>
  /\ signing' = NoSigning
  /\ UNCHANGED <<view, pageVars, viewVars, handler, tests, tainted, session, moves, faults>>

\* A handler that ends with addTransactionHistoryEntry starts.
HandlerStarts ==
  /\ view = "mainnet" /\ wallet # None /\ modal = "none" /\ handler.who = None /\ Room
  /\ handler' = [who |-> wallet, at |-> network]
  /\ UNCHANGED <<view, pageVars, viewVars, session, moves, faults, modal, signing,
                 book, transactions, books, lists, tests, tainted, strayed>>

\* addTransactionHistoryEntry: the entry goes to the list of the wallet and the
\* network of the click, and that wallet's list is shown.  Or the handler fails.
AddTransactionHistoryEntry ==
  /\ handler.who # None
  /\ \/ LET w == handler.who IN
          /\ IF handler.at = "mainnet"
             THEN lists' = [lists EXCEPT ![w] = Append(@, "handler")] /\ tests' = tests
             ELSE tests' = [tests EXCEPT ![w] = @ + 1] /\ lists' = lists
          /\ transactions' = [who |-> w, main |-> lists'[w], test |-> tests'[w]]
          /\ Strays(w, {"list"})
     \/ UNCHANGED <<lists, tests, transactions, strayed>>
  /\ handler' = NoHandler
  /\ UNCHANGED <<view, pageVars, viewVars, session, moves, faults, modal, signing,
                 book, books, tainted>>

\* The page's book changes and, with a wallet, so does storage.
Edit(action) ==
  /\ Room
  /\ book' = [book EXCEPT !.amount = Apply(@, action)]
  /\ IF wallet = None THEN UNCHANGED <<books, lists>>
     ELSE /\ books' = [books EXCEPT ![wallet] = book'.amount]
          /\ lists' = [lists EXCEPT ![wallet] = Append(@, action)]
  /\ UNCHANGED <<view, pageVars, viewVars, session, moves, faults, dialogVars,
                 transactions, tests, tainted, strayed>>

\* The buttons of the delegations; without a wallet what they do is lost.
Delegate == view = "delegations" /\ book.amount <= MaxTxs /\ Edit("add")
Revoke == view = "delegations" /\ book.amount > 0 /\ Edit("take")

\* A second of rewards.
AccrueRewards == view = "rewards" /\ wallet # None /\ Edit("add")
-----------------------------------------------------------------------------
Next ==
  \/ Connect \/ ConnectAnswers \/ Disconnect \/ Reload \/ SwitchNetwork
  \/ OpenSection \/ BackstopHandlerStarts \/ BackstopHandlerEnds
  \/ TypeAmount \/ PreviewAsks \/ Poll \/ MarketsLoad
  \/ MainnetTrigger \/ MainnetReject \/ MainnetConfirm \/ MainnetSigned
  \/ HandlerStarts \/ AddTransactionHistoryEntry
  \/ Delegate \/ Revoke \/ AccrueRewards
  \/ \E r \in requests : ListAnswers(r) \/ Answer(r)

\* Timers fire and every request is answered or fails.  The user and the
\* wallet need not do anything.
Spec ==
  /\ Init /\ [][Next]_vars
  /\ WF_vars(Poll) /\ WF_vars(MarketsLoad) /\ WF_vars(PreviewAsks)
  /\ \A w \in Wallets \cup {None}, n \in Networks, p \in Networks \cup {"none"} :
       LET r == [who |-> w, at |-> n, prices |-> p, good |-> TRUE] IN
         WF_vars(ListAnswers(r) \/ Answer(r))
-----------------------------------------------------------------------------
(* Properties. *)

\* A polled view comes right: in the end it shows the connected wallet on the
\* network the page is on (and the markets' list with that network's prices),
\* however late the answers to requests made before a change of wallet or
\* network are, and whatever failed (the intervals of the dashboard's effects,
\* useUserPosition and the refetch on each list of markets).
PolledViewsHeal ==
  <>[]/\ view \in {"positions", "hookPosition"} /\ wallet # None => shown = Tag(wallet, network)
      /\ view = "compliance" => shown = Tag(wallet, network)
      /\ view \in {"prices", "hookMarkets"} => shown = Tag(None, network)
      /\ view = "markets" => shown = [Tag(None, network) EXCEPT !.prices = network]

\* The views that are not polled follow the wallet: at rest, once a request was
\* made and answered undisturbed, they show the connected wallet's data, the
\* dashboard's balances those of the page's network and the modal a preview just
\* when there is an amount; those that are reset are empty without a wallet (the
\* dependencies of the effects, their resets and the cleanup of a timeout).  The
\* user's backstop balances do so in the backstop's section only: elsewhere they
\* stay those of an earlier wallet, or of none, and the totals and the rewards
\* are made from them.
UnpolledViewsFollow ==
  /\ TypeOK
  /\ requests = {} /\ ~raced =>
       /\ view \in {"balances", "hookBalances", "preview"} =>
            IF wallet = None THEN shown = Nothing
            ELSE /\ shown.who = IF view = "preview" /\ ~typed THEN None ELSE wallet
                 /\ view = "balances" => shown.at = network
       /\ view = "backstop" /\ section = "backstop" /\ wallet # None => shown.who = wallet

\* The books a wallet keeps in localStorage are true, through switches of
\* wallet, reloads and answers of wallets that come late: each is what was done
\* to it, unless the wallet signed while the page showed another wallet's book
\* (handleMainnetSignAndSubmit starts from the state it was made in), and what
\* the page shows of the connected wallet - its pools on the mainnet, its
\* delegations, its rewards, its transactions of both networks - is what is
\* stored, unless a handler started by another wallet has ended since the
\* effects last ran.
BooksMatch ==
  /\ \A w \in Wallets \ tainted : books[w] = Replay(Default, lists[w])
  /\ wallet # None =>
       /\ view \in {"delegations", "rewards"} => book = BookOf(wallet)
       /\ view = "mainnet" /\ network = "mainnet" /\ "book" \notin strayed =>
            Pools = BookOf(wallet)
       /\ "list" \notin strayed => transactions = ListOf(wallet)
=============================================================================
