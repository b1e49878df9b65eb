------------------------ MODULE ClientSessionProofs ------------------------
(***************************************************************************)
(* Proofs about the session of a page, for every set of wallets and every  *)
(* bound: what an unpolled view shows at rest, and that the books a wallet *)
(* keeps in localStorage are what was done to them and what is shown.      *)
(***************************************************************************)
EXTENDS ClientSession, TallyProofs

-----------------------------------------------------------------------------
(* What a list of entries makes of an amount. *)

LEMMA ApplyType ==
  ASSUME NEW amount \in Nat, NEW action \in Entries PROVE Apply(amount, action) \in Nat
BY DEF Apply, Entries, Actions

\* The amounts on the way to a replay.
Amounts(f, first, list) ==
  /\ f \in [0..Len(list) -> Nat] /\ f[0] = first
  /\ \A n \in 1..Len(list) : f[n] = Apply(f[n - 1], list[n])
  /\ f[Len(list)] = Replay(first, list)

LEMMA ReplayAmounts ==
  ASSUME NEW first \in Nat, NEW list \in Seq(Entries)
  PROVE  \E f : Amounts(f, first, list)
<1> DEFINE N == Len(list)
           F(f) == [n \in 0..N |-> IF n = 0 THEN first ELSE Apply(f[n - 1], list[n])]
           amount == CHOOSE f : f = F(f)
           step == [n \in 1..N |-> [a \in Nat |-> Apply(a, list[n])]]
<1>1. N \in Nat /\ \A n \in 1..N : list[n] \in Entries OBVIOUS
<1>2. Replay(first, list) = amount[N] BY DEF Replay
<1>3. step \in [1..N -> [Nat -> Nat]] BY <1>1, ApplyType
<1>4. \E f \in [0..N -> Nat] : BuiltUp(f, N, first, step)
  <2> HIDE DEF step, N
  <2>1. QED BY <1>1, <1>3, RecursionUpTo, Zenon
<1>5. PICK g \in [0..N -> Nat] : g = [i \in 0..N |-> IF i = 0 THEN first ELSE step[i][g[i - 1]]]
  BY <1>4 DEF BuiltUp
<1>6. g = F(g)
  <2>1. ASSUME NEW i \in 0..N PROVE g[i] = F(g)[i]
    <3>1. CASE i = 0 BY <1>5, <3>1
    <3>2. CASE i # 0
      <4>1. i \in 1..N /\ i - 1 \in 0..N BY <1>1, <3>2
      <4>2. g[i - 1] \in Nat /\ g[i] = step[i][g[i - 1]] BY <1>5, <3>2, <4>1
      <4>3. QED BY <3>2, <4>1, <4>2
    <3>3. QED BY <3>1, <3>2
  <2>2. QED BY <1>5, <2>1
<1>7. amount = F(amount)
  <2> HIDE DEF F
  <2>1. QED BY <1>6
<1> HIDE DEF amount, N
<1>8. amount[0] = first /\ \A n \in 1..N : amount[n] = Apply(amount[n - 1], list[n])
  <2>1. 0 \in 0..N /\ \A n \in 1..N : n \in 0..N /\ n # 0 BY <1>1
  <2>2. QED BY <1>7, <2>1
<1> DEFINE T == {n \in Nat : n <= N => amount[n] \in Nat}
<1>9. 0 \in T BY <1>8
<1>10. ASSUME NEW n \in T PROVE n + 1 \in T
  <2>1. ASSUME n + 1 <= N PROVE amount[n + 1] \in Nat
    <3>1. n \in Nat /\ n <= N /\ n + 1 \in 1..N /\ (n + 1) - 1 = n BY <1>1, <2>1
    <3>2. amount[n + 1] = Apply(amount[n], list[n + 1]) BY <1>8, <3>1
    <3>3. amount[n] \in Nat /\ list[n + 1] \in Entries BY <1>1, <3>1
    <3>4. QED BY <3>2, <3>3, ApplyType
  <2>2. QED BY <2>1
<1>11. T = Nat
  <2>1. T \in SUBSET Nat OBVIOUS
  <2> HIDE DEF T
  <2>2. QED BY <1>9, <1>10, <2>1, Induction
<1>12. amount \in [0..N -> Nat]
  <2>1. \A n \in 0..N : amount[n] \in Nat
    <3>1. \A n \in 0..N : n \in Nat /\ n <= N BY <1>1
    <3>2. QED BY <1>11, <3>1
  <2>2. QED BY <1>7, <2>1
<1>13. Amounts(amount, first, list) BY <1>2, <1>8, <1>12 DEF Amounts, N
<1>14. QED BY <1>13

LEMMA ReplayEmpty ==
  ASSUME NEW first \in Nat PROVE Replay(first, <<>>) = first
<1>1. <<>> \in Seq(Entries) /\ Len(<<>>) = 0 OBVIOUS
<1>2. PICK f : Amounts(f, first, <<>>) BY <1>1, ReplayAmounts
<1>3. QED BY <1>1, <1>2 DEF Amounts

\* One more entry is one more step.
LEMMA ReplayAppend ==
  ASSUME NEW first \in Nat, NEW list \in Seq(Entries), NEW action \in Entries
  PROVE  /\ Replay(first, list) \in Nat
         /\ Replay(first, Append(list, action)) = Apply(Replay(first, list), action)
<1> DEFINE N == Len(list)
           longer == Append(list, action)
<1>1. /\ N \in Nat /\ longer \in Seq(Entries) /\ Len(longer) = N + 1
      /\ longer[N + 1] = action /\ \A n \in 1..N : longer[n] = list[n]
  OBVIOUS
<1>2. PICK f : Amounts(f, first, list) BY ReplayAmounts
<1>3. PICK g : Amounts(g, first, longer) BY <1>1, ReplayAmounts
<1> HIDE DEF longer
<1>4. /\ f[0] = first /\ \A n \in 1..N : f[n] = Apply(f[n - 1], list[n])
      /\ f[N] = Replay(first, list) /\ f[N] \in Nat
  BY <1>1, <1>2 DEF Amounts
<1>5. /\ g[0] = first /\ \A n \in 1..(N + 1) : g[n] = Apply(g[n - 1], longer[n])
      /\ g[N + 1] = Replay(first, longer)
  BY <1>1, <1>3 DEF Amounts
<1> HIDE DEF N
<1> DEFINE T == {n \in Nat : n <= N => g[n] = f[n]}
<1>6. 0 \in T BY <1>4, <1>5
<1>7. ASSUME NEW n \in T PROVE n + 1 \in T
  <2>1. ASSUME n + 1 <= N PROVE g[n + 1] = f[n + 1]
    <3>1. n \in Nat /\ n <= N /\ n + 1 \in 1..N /\ n + 1 \in 1..(N + 1) /\ (n + 1) - 1 = n
      BY <1>1, <2>1
    <3>2. g[n] = f[n] /\ longer[n + 1] = list[n + 1] BY <1>1, <3>1
    <3>3. QED BY <1>4, <1>5, <3>1, <3>2
  <2>2. QED BY <2>1
<1>8. T = Nat
  <2>1. T \in SUBSET Nat OBVIOUS
  <2> HIDE DEF T
  <2>2. QED BY <1>6, <1>7, <2>1, Induction
<1>9. g[N] = f[N] BY <1>1, <1>8
<1>10. N + 1 \in 1..(N + 1) /\ (N + 1) - 1 = N BY <1>1
<1>11. g[N + 1] = Apply(g[N], longer[N + 1]) BY <1>5, <1>10
<1>12. QED BY <1>1, <1>4, <1>5, <1>9, <1>11 DEF longer

-----------------------------------------------------------------------------
(* Types. *)

SessionTypes ==
  /\ view \in Views \cup Books
  /\ wallet \in Wallets \cup {None} /\ network \in Networks
  /\ asking \in Wallets \cup {None} /\ session = wallet
  /\ moves \in 0..MaxMoves /\ faults \in 0..MaxFaults

ViewTypes ==
  /\ shown \in Tags /\ requests \subseteq Tags
  /\ loaded \in BOOLEAN /\ typed \in BOOLEAN /\ raced \in BOOLEAN
  /\ section \in Sections /\ staking \in Wallets \cup {None}

DialogTypes ==
  /\ modal \in Actions \cup {"none"}
  /\ signing \in [who : Wallets \cup {None}, amount : Nat, action : Actions]
  /\ handler \in [who : Wallets \cup {None}, at : Networks]

BookTypes ==
  /\ book \in [who : Wallets \cup {None}, amount : Nat]
  /\ transactions \in [who : Wallets \cup {None}, main : Seq(Entries), test : Nat]
  /\ books \in [Wallets -> Nat] /\ lists \in [Wallets -> Seq(Entries)]
  /\ tests \in [Wallets -> Nat]
  /\ tainted \subseteq Wallets /\ strayed \subseteq {"book", "list"}

LEMMA Types == TypeOK <=> SessionTypes /\ ViewTypes /\ DialogTypes /\ BookTypes
BY DEF TypeOK, SessionTypes, ViewTypes, DialogTypes, BookTypes

\* A field of a tag is set.
LEMMA TagUpdates ==
  ASSUME NEW r \in Tags, NEW n \in Networks, NEW b \in BOOLEAN
  PROVE  /\ [r EXCEPT !.at = n] \in Tags
         /\ [r EXCEPT !.at = n].who = r.who /\ [r EXCEPT !.at = n].at = n
         /\ [r EXCEPT !.at = n].prices = r.prices /\ [r EXCEPT !.at = n].good = r.good
         /\ [r EXCEPT !.prices = n] \in Tags
         /\ [r EXCEPT !.good = b] \in Tags
         /\ [r EXCEPT !.good = b].who = r.who /\ [r EXCEPT !.good = b].at = r.at
BY DEF Tags

LEMMA TagFields ==
  ASSUME NEW w \in Wallets \cup {None}, NEW n \in Networks \cup {"none"}
  PROVE  /\ Tag(w, n) \in Tags
         /\ Tag(w, n).who = w /\ Tag(w, n).at = n /\ Tag(w, n).prices = "none"
         /\ Tag(w, n).good = TRUE
         /\ Nothing \in Tags /\ Nothing.who = None
BY DEF Tag, Tags, Nothing

\* A request for a wallet.
LEMMA RequestFields ==
  ASSUME NEW w \in Wallets \cup {None}, NEW n \in Networks
  PROVE  /\ RequestFor(w, n) \in Tags
         /\ RequestFor(w, n).prices = "none" /\ RequestFor(w, n).good = TRUE
         /\ Personal => RequestFor(w, n).who = w
         /\ RequestFor(w, n).at = IF view = "preview" THEN "none" ELSE n
<1>1. /\ (IF Personal THEN w ELSE None) \in Wallets \cup {None}
      /\ (IF view = "preview" THEN "none" ELSE n) \in Networks \cup {"none"}
  OBVIOUS
<1>2. QED BY <1>1, TagFields DEF RequestFor

LEMMA RequestType ==
  ASSUME ViewTypes, NEW w \in Wallets \cup {None}, NEW n \in Networks, Request(w, n)
  PROVE  requests' \subseteq Tags
BY RequestFields DEF Request, UnderWay, ViewTypes

LEMMA FetchesType ==
  ASSUME ViewTypes, NEW w \in Wallets \cup {None}, NEW n \in Networks, Fetches(w, n)
  PROVE  requests' \subseteq Tags /\ raced' \in BOOLEAN
<1>1. requests' \subseteq Tags BY RequestType DEF Fetches
<1>2. raced' \in BOOLEAN BY Zenon DEF Fetches
<1>3. QED BY <1>1, <1>2

\* The steps that leave the session, the view, the dialogs, the books alone.
QuietSession == view' = view /\ wallet' = wallet /\ network' = network /\ session' = session
QuietViews == UNCHANGED <<view, wallet, network, viewVars>>
QuietDialogs == UNCHANGED <<view, dialogVars>>
QuietBooks == UNCHANGED <<view, wallet, bookVars>>

LEMMA Quiet ==
  ASSUME [Next]_vars
  PROVE  /\ \/ Connect \/ ConnectAnswers \/ Disconnect \/ Reload \/ SwitchNetwork
            \/ QuietSession
         /\ \/ ConnectAnswers \/ Disconnect \/ Reload \/ SwitchNetwork
            \/ OpenSection \/ BackstopHandlerStarts \/ BackstopHandlerEnds
            \/ TypeAmount \/ PreviewAsks \/ Poll \/ MarketsLoad
            \/ \E r \in requests : ListAnswers(r) \/ Answer(r)
            \/ QuietViews
         /\ \/ Reload \/ MainnetTrigger \/ MainnetReject \/ MainnetConfirm \/ MainnetSigned
            \/ HandlerStarts \/ AddTransactionHistoryEntry
            \/ QuietDialogs
         /\ \/ ConnectAnswers \/ Disconnect \/ Reload \/ SwitchNetwork
            \/ MainnetTrigger \/ MainnetReject \/ MainnetConfirm \/ MainnetSigned
            \/ HandlerStarts \/ AddTransactionHistoryEntry
            \/ Delegate \/ Revoke \/ AccrueRewards
            \/ QuietBooks

<1>1. CASE Connect
  BY <1>1 DEF Connect, QuietViews, QuietDialogs, QuietBooks, bookVars
<1>2. CASE ConnectAnswers
  BY <1>2 DEF ConnectAnswers, WalletEffects, QuietDialogs, bookVars
<1>3. CASE Disconnect
  BY <1>3 DEF Disconnect, WalletEffects, QuietDialogs, bookVars
<1>4. CASE Reload BY <1>4
<1>5. CASE SwitchNetwork
  BY <1>5 DEF SwitchNetwork, QuietDialogs, bookVars
<1>6. CASE OpenSection \/ BackstopHandlerStarts \/ BackstopHandlerEnds
  BY <1>6 DEF OpenSection, BackstopHandlerStarts, BackstopHandlerEnds,
              QuietSession, QuietDialogs, QuietBooks, pageVars, bookVars
<1>7. CASE TypeAmount
  BY <1>7 DEF TypeAmount, QuietSession, QuietDialogs, QuietBooks, pageVars, bookVars
<1>8. CASE PreviewAsks
  BY <1>8 DEF PreviewAsks, QuietSession, QuietDialogs, QuietBooks, pageVars, bookVars
<1>9. CASE Poll
  BY <1>9 DEF Poll, QuietSession, QuietDialogs, QuietBooks, pageVars, bookVars
<1>10. CASE MarketsLoad
  BY <1>10 DEF MarketsLoad, QuietSession, QuietDialogs, QuietBooks, pageVars, bookVars
<1>11. CASE MainnetTrigger
  BY <1>11 DEF MainnetTrigger, QuietSession, QuietViews, pageVars
<1>12. CASE MainnetReject
  BY <1>12 DEF MainnetReject, QuietSession, QuietViews, pageVars
<1>13. CASE MainnetConfirm
  BY <1>13 DEF MainnetConfirm, QuietSession, QuietViews, pageVars
<1>14. CASE MainnetSigned
  BY <1>14 DEF MainnetSigned, QuietSession, QuietViews, pageVars
<1>15. CASE HandlerStarts
  BY <1>15 DEF HandlerStarts, QuietSession, QuietViews, pageVars
<1>16. CASE AddTransactionHistoryEntry
  BY <1>16 DEF AddTransactionHistoryEntry, QuietSession, QuietViews, pageVars
<1>17. CASE Delegate
  BY <1>17 DEF Delegate, Edit, QuietSession, QuietViews, QuietDialogs, pageVars, bookVars
<1>18. CASE Revoke
  BY <1>18 DEF Revoke, Edit, QuietSession, QuietViews, QuietDialogs, pageVars, bookVars
<1>19. CASE AccrueRewards
  BY <1>19 DEF AccrueRewards, Edit, QuietSession, QuietViews, QuietDialogs, pageVars, bookVars
<1>20. CASE \E r \in requests : ListAnswers(r) \/ Answer(r)
  BY <1>20 DEF ListAnswers, Answer, QuietSession, QuietDialogs, QuietBooks, pageVars, bookVars
<1>21. CASE UNCHANGED vars
  BY <1>21 DEF vars, pageVars, QuietSession, QuietViews, QuietDialogs, QuietBooks, bookVars
<1>22. QED BY <1>1, <1>2, <1>3, <1>4, <1>5, <1>6, <1>7, <1>8, <1>9, <1>10, <1>11, <1>12,
     <1>13, <1>14, <1>15, <1>16, <1>17, <1>18, <1>19, <1>20, <1>21, Zenon DEF Next

\* What a step does to the session and the bounds.
Bounded ==
  /\ view' = view
  /\ Move \/ moves' = moves
  /\ faults' = faults \/ (faults < MaxFaults /\ faults' = faults + 1)
  /\ asking' \in {asking, None} \cup Wallets
  /\ network' \in {network} \cup Networks
  /\ \/ wallet' = wallet /\ session' = session
     \/ wallet' \in {asking, session, None} /\ session' = wallet'
     \/ wallet' = session /\ session' = session

LEMMA BoundedStep == ASSUME [Next]_vars PROVE Bounded
<1>1. CASE Connect BY <1>1 DEF Connect, Bounded, Remembers
<1>2. CASE ConnectAnswers BY <1>2 DEF ConnectAnswers, Bounded, Remembers
<1>3. CASE Disconnect BY <1>3 DEF Disconnect, Bounded, Remembers
<1>4. CASE Reload BY <1>4 DEF Reload, Bounded
<1>5. CASE SwitchNetwork BY <1>5 DEF SwitchNetwork, Bounded
<1>6. CASE OpenSection \/ BackstopHandlerStarts \/ BackstopHandlerEnds
  BY <1>6 DEF OpenSection, BackstopHandlerStarts, BackstopHandlerEnds, Bounded, pageVars
<1>7. CASE TypeAmount BY <1>7 DEF TypeAmount, Bounded, pageVars
<1>8. CASE PreviewAsks BY <1>8 DEF PreviewAsks, Bounded, pageVars
<1>9. CASE Poll BY <1>9 DEF Poll, Bounded, pageVars
<1>10. CASE MarketsLoad BY <1>10 DEF MarketsLoad, Bounded, pageVars
<1>11. CASE MainnetTrigger BY <1>11 DEF MainnetTrigger, Bounded, pageVars
<1>12. CASE MainnetReject BY <1>12 DEF MainnetReject, Bounded, pageVars
<1>13. CASE MainnetConfirm BY <1>13 DEF MainnetConfirm, Bounded, pageVars
<1>14. CASE MainnetSigned BY <1>14 DEF MainnetSigned, Bounded, pageVars
<1>15. CASE HandlerStarts BY <1>15 DEF HandlerStarts, Bounded, pageVars
<1>16. CASE AddTransactionHistoryEntry BY <1>16 DEF AddTransactionHistoryEntry, Bounded, pageVars
<1>17. CASE Delegate BY <1>17 DEF Delegate, Edit, Bounded, pageVars
<1>18. CASE Revoke BY <1>18 DEF Revoke, Edit, Bounded, pageVars
<1>19. CASE AccrueRewards BY <1>19 DEF AccrueRewards, Edit, Bounded, pageVars
<1>20. CASE \E r \in requests : ListAnswers(r) \/ Answer(r)
  BY <1>20 DEF ListAnswers, Answer, AnswerFails, pageVars, Bounded
<1>21. CASE UNCHANGED vars BY <1>21 DEF vars, pageVars, Bounded
<1>22. QED BY <1>1, <1>2, <1>3, <1>4, <1>5, <1>6, <1>7, <1>8, <1>9, <1>10, <1>11, <1>12,
     <1>13, <1>14, <1>15, <1>16, <1>17, <1>18, <1>19, <1>20, <1>21, Zenon DEF Next

LEMMA SessionKeeps ==
  ASSUME SessionTypes, [Next]_vars PROVE SessionTypes'
<1>1. Bounded BY BoundedStep
<1>2. /\ view' \in Views \cup Books /\ wallet' \in Wallets \cup {None}
      /\ network' \in Networks /\ asking' \in Wallets \cup {None} /\ session' = wallet'
  BY <1>1 DEF Bounded, SessionTypes
<1>3. moves' \in 0..MaxMoves /\ faults' \in 0..MaxFaults
  BY <1>1, BoundsAssumption DEF Bounded, Move, SessionTypes
<1>4. QED BY <1>2, <1>3 DEF SessionTypes

LEMMA DialogKeeps ==
  ASSUME SessionTypes, DialogTypes, BookTypes, [Next]_vars PROVE DialogTypes'
<1>1. NoSigning \in [who : Wallets \cup {None}, amount : Nat, action : Actions]
      /\ NoHandler \in [who : Wallets \cup {None}, at : Networks]
  BY DEF NoSigning, NoHandler, Actions, Networks
<1>2. CASE QuietDialogs BY <1>2, Zenon DEF QuietDialogs, dialogVars, DialogTypes
<1>3. CASE Reload BY <1>1, <1>3 DEF Reload, DialogTypes
<1>4. CASE MainnetTrigger BY <1>4 DEF MainnetTrigger, DialogTypes
<1>5. CASE MainnetReject BY <1>5 DEF MainnetReject, DialogTypes
<1>6. CASE MainnetConfirm
  <2>1. signing' \in [who : Wallets \cup {None}, amount : Nat, action : Actions]
    BY <1>6 DEF MainnetConfirm, DialogTypes, BookTypes, SessionTypes
  <2>2. QED BY <1>6, <2>1 DEF MainnetConfirm, DialogTypes
<1>7. CASE MainnetSigned BY <1>1, <1>7 DEF MainnetSigned, DialogTypes
<1>8. CASE HandlerStarts
  <2>1. handler' \in [who : Wallets \cup {None}, at : Networks]
    BY <1>8 DEF HandlerStarts, SessionTypes
  <2>2. QED BY <1>8, <2>1 DEF HandlerStarts, DialogTypes
<1>9. CASE AddTransactionHistoryEntry
  BY <1>1, <1>9 DEF AddTransactionHistoryEntry, DialogTypes
<1>10. QED BY <1>2, <1>3, <1>4, <1>5, <1>6, <1>7, <1>8, <1>9, Quiet, Zenon

-----------------------------------------------------------------------------
(* The books. *)

\* What was done to a wallet's book, unless it signed beside another one's.
Replayed == \A w \in Wallets \ tainted : books[w] = Replay(Default, lists[w])

\* Only the mainnet page has dialogs and handlers.
OnMainnet ==
  modal # "none" \/ signing.who # None \/ handler.who # None \/ strayed # {} =>
    view = "mainnet"

\* The page shows what is stored, or another wallet's answer strayed onto it.
BookShown == view \in Books /\ wallet # None /\ "book" \notin strayed => book = BookOf(wallet)
ListShown == wallet # None /\ "list" \notin strayed => transactions = ListOf(wallet)

\* Whosever book the page shows, and whosever is being signed for, it is that
\* wallet's.
BookStored == view = "mainnet" /\ book.who # None => book.amount = books[book.who]
BookSigned == signing.who \in Wallets \ tainted => signing.amount = books[signing.who]

BookInv == Replayed /\ OnMainnet /\ BookShown /\ ListShown /\ BookStored /\ BookSigned

LEMMA BookOfType ==
  ASSUME BookTypes, NEW w \in Wallets \cup {None}
  PROVE  /\ BookOf(w) \in [who : Wallets \cup {None}, amount : Nat]
         /\ BookOf(w).who # None => BookOf(w).amount = books[BookOf(w).who]
         /\ BookOf(w).who \in {w, None}
         /\ ListOf(w) \in [who : Wallets \cup {None}, main : Seq(Entries), test : Nat]
<1>1. CASE w = None BY <1>1 DEF BookOf, ListOf, NoBook, NoList
<1>2. CASE w # None
  <2>1. w \in Wallets /\ books[w] \in Nat /\ lists[w] \in Seq(Entries) /\ tests[w] \in Nat
    BY <1>2 DEF BookTypes
  <2>2. /\ BookOf(w) \in [who : Wallets \cup {None}, amount : Nat]
        /\ BookOf(w).who # None => BookOf(w).amount = books[BookOf(w).who]
        /\ BookOf(w).who \in {w, None}
    BY <2>1 DEF BookOf, NoBook
  <2>3. ListOf(w) \in [who : Wallets \cup {None}, main : Seq(Entries), test : Nat]
    BY <2>1 DEF ListOf, NoList
  <2>4. QED BY <2>2, <2>3
<1>3. QED BY <1>1, <1>2

\* The books b are what the lists l make of a first amount, but for T's.
Kept(b, l, T, first) == \A w \in Wallets \ T : b[w] = Replay(first, l[w])

\* An entry a of the wallet w that makes its book the amount.
Entered(b, l, w, a, amount, b2, l2) ==
  b2 = [b EXCEPT ![w] = amount] /\ l2 = [l EXCEPT ![w] = Append(@, a)]

LEMMA OneEntry ==
  ASSUME NEW b \in [Wallets -> Nat], NEW l \in [Wallets -> Seq(Entries)], NEW T,
         NEW first \in Nat, Kept(b, l, T, first),
         NEW w \in Wallets, NEW a \in Entries, NEW amount \in Nat,
         w \notin T => amount = Apply(b[w], a),
         NEW b2, NEW l2, Entered(b, l, w, a, amount, b2, l2)
  PROVE  /\ b2 \in [Wallets -> Nat] /\ l2 \in [Wallets -> Seq(Entries)]
         /\ b2[w] = amount /\ Kept(b2, l2, T, first)
<1>1. l[w] \in Seq(Entries) /\ Append(l[w], a) \in Seq(Entries) OBVIOUS
<1>2. /\ b2 \in [Wallets -> Nat] /\ l2 \in [Wallets -> Seq(Entries)]
      /\ b2[w] = amount /\ l2[w] = Append(l[w], a)
      /\ \A x \in Wallets \ {w} : b2[x] = b[x] /\ l2[x] = l[x]
  BY <1>1 DEF Entered
<1>3. w \notin T => b2[w] = Replay(first, l2[w])
  BY <1>1, <1>2, ReplayAppend DEF Kept
<1>4. Kept(b2, l2, T, first) BY <1>2, <1>3 DEF Kept
<1>5. QED BY <1>2, <1>4

LEMMA DefaultType == Default \in Nat
BY DEF Default

\* The effects of a change of wallet read its book and its list.
LEMMA EffectsKeepBooks ==
  ASSUME BookTypes, DialogTypes, BookInv, view' = view, wallet' \in Wallets \cup {None},
         book' = BookOf(wallet'), transactions' = ListOf(wallet'), strayed' = {},
         books' = books, lists' = lists, tests' = tests, tainted' = tainted,
         modal' \in {modal, "none"}, signing' \in {signing, NoSigning},
         handler' \in {handler, NoHandler}
  PROVE  BookTypes' /\ BookInv'
<1>1. PICK w \in Wallets \cup {None} : wallet' = w OBVIOUS
<1>2. book' = BookOf(w) /\ transactions' = ListOf(w) BY <1>1
<1>3. BookTypes'
  <2>1. /\ book' \in [who : Wallets \cup {None}, amount : Nat]
        /\ transactions' \in [who : Wallets \cup {None}, main : Seq(Entries), test : Nat]
    BY <1>2, BookOfType
  <2>2. QED BY <2>1, Zenon DEF BookTypes
<1>4. Replayed' /\ OnMainnet'
  <2>1. Replayed' BY DEF BookInv, Replayed, Default
  <2>2. OnMainnet' BY DEF BookInv, OnMainnet, NoSigning, NoHandler
  <2>3. QED BY <2>1, <2>2
<1>5. BookShown' /\ ListShown'
  BY <1>1, <1>2 DEF BookShown, ListShown, BookOf, ListOf
<1>6. BookStored'
  <2>1. book'.who # None => book'.amount = books[book'.who] BY <1>2, BookOfType
  <2>2. QED BY <2>1 DEF BookStored
<1>7. BookSigned' BY NoneAssumption DEF BookInv, BookSigned, NoSigning
<1>8. QED BY <1>3, <1>4, <1>5, <1>6, <1>7 DEF BookInv

\* The steps that only open, close or confirm a dialog, or start a handler.
LEMMA DialogsKeepBooks ==
  ASSUME SessionTypes, DialogTypes, BookTypes, BookInv,
         MainnetTrigger \/ MainnetReject \/ MainnetConfirm \/ HandlerStarts
  PROVE  BookTypes' /\ BookInv'
<1>1. /\ view' = view /\ wallet' = wallet /\ book' = book /\ transactions' = transactions
      /\ books' = books /\ lists' = lists /\ tests' = tests /\ strayed' = strayed
  BY DEF MainnetTrigger, MainnetReject, MainnetConfirm, HandlerStarts, pageVars
<1>2. tainted \subseteq tainted' /\ tainted' \subseteq Wallets
  <2>1. tainted \subseteq Wallets BY DEF BookTypes
  <2>2. CASE MainnetConfirm
    <3>1. wallet \in Wallets BY <2>2 DEF MainnetConfirm, SessionTypes
    <3>2. QED BY <2>1, <2>2, <3>1 DEF MainnetConfirm
  <2>3. CASE ~MainnetConfirm
    BY <2>1, <2>3 DEF MainnetTrigger, MainnetReject, HandlerStarts
  <2>4. QED BY <2>2, <2>3
<1>3. BookTypes' BY <1>1, <1>2 DEF BookTypes
<1>4. Replayed'
  <2>1. Default' = Default BY <1>1 DEF Default
  <2>2. QED BY <1>1, <1>2, <2>1 DEF BookInv, Replayed
<1>5. OnMainnet'
  BY DEF BookInv, OnMainnet, MainnetTrigger, MainnetReject, MainnetConfirm, HandlerStarts, MaySubmit
<1>6. BookShown' /\ ListShown' /\ BookStored'
  BY <1>1 DEF BookInv, BookShown, ListShown, BookStored, BookOf, ListOf
<1>7. BookSigned'
  <2>1. CASE MainnetConfirm
    <3>1. signing'.who = wallet /\ signing'.amount = book.amount /\ wallet # None
      BY <2>1 DEF MainnetConfirm
    <3>2. view = "mainnet" BY <2>1 DEF MainnetConfirm, BookInv, OnMainnet
    <3>3. wallet \notin tainted' => book.who = wallet
      BY <2>1, <3>1 DEF MainnetConfirm, SessionTypes
    <3>4. QED BY <1>1, <3>1, <3>2, <3>3 DEF BookInv, BookStored, BookSigned
  <2>2. CASE ~MainnetConfirm
    BY <1>1, <1>2, <2>2 DEF BookInv, BookSigned, MainnetTrigger, MainnetReject, HandlerStarts
  <2>3. QED BY <2>1, <2>2
<1>8. QED BY <1>3, <1>4, <1>5, <1>6, <1>7 DEF BookInv

\* The wallet signs: its book is what it confirmed, and one step.
LEMMA SignedKeepsBooks ==
  ASSUME SessionTypes, DialogTypes, BookTypes, BookInv, MainnetSigned
  PROVE  BookTypes' /\ BookInv'
<1>1. /\ view' = view /\ wallet' = wallet /\ tests' = tests /\ tainted' = tainted
      /\ handler' = handler /\ signing' = NoSigning /\ signing.who # None
  BY DEF MainnetSigned, pageVars
<1>2. view = "mainnet" /\ OnMainnet' /\ BookSigned'
  <2>1. view = "mainnet" BY <1>1 DEF BookInv, OnMainnet
  <2>2. QED BY <1>1, <2>1, NoneAssumption DEF OnMainnet, BookSigned, NoSigning
<1>3. CASE UNCHANGED <<books, lists, book, transactions, strayed, modal>>
  <2>1. BookTypes' BY <1>1, <1>3 DEF BookTypes
  <2>2. Replayed' BY <1>1, <1>3 DEF BookInv, Replayed, Default
  <2>3. BookShown' /\ ListShown' /\ BookStored'
    BY <1>1, <1>3 DEF BookInv, BookShown, ListShown, BookStored, BookOf, ListOf
  <2>4. QED BY <1>2, <2>1, <2>2, <2>3 DEF BookInv
<1>4. CASE ~UNCHANGED <<books, lists, book, transactions, strayed, modal>>
  <2> DEFINE w == signing.who
             a == signing.action
             amount == Apply(signing.amount, a)
  <2>1. /\ books' = [books EXCEPT ![w] = amount]
        /\ lists' = [lists EXCEPT ![w] = Append(@, a)]
        /\ book' = [who |-> w, amount |-> amount]
        /\ transactions' = [ListOf(w) EXCEPT !.main = lists'[w]]
        /\ strayed' = IF w = wallet THEN strayed \ {"book", "list"}
                                    ELSE strayed \cup {"book", "list"}
    BY <1>4 DEF MainnetSigned, BookToSign, Strays
  <2>2. w \in Wallets /\ a \in Entries /\ signing.amount \in Nat /\ amount \in Nat
    <3>1. w \in Wallets /\ a \in Entries /\ signing.amount \in Nat
      BY <1>1 DEF DialogTypes, Entries
    <3>2. QED BY <3>1, ApplyType
  <2>3. w \notin tainted => amount = Apply(books[w], a)
    BY <2>2 DEF BookInv, BookSigned
  <2>4. /\ books \in [Wallets -> Nat] /\ lists \in [Wallets -> Seq(Entries)]
        /\ tests \in [Wallets -> Nat] /\ tainted \subseteq Wallets
        /\ strayed \subseteq {"book", "list"}
    BY DEF BookTypes
  <2>5. Default \in Nat /\ Kept(books, lists, tainted, Default)
    BY DefaultType DEF BookInv, Replayed, Kept
  <2> HIDE DEF w, a, amount
  <2>6. /\ books' \in [Wallets -> Nat] /\ lists' \in [Wallets -> Seq(Entries)]
        /\ books'[w] = amount /\ Kept(books', lists', tainted, Default)
    <3>1. Entered(books, lists, w, a, amount, books', lists') BY <2>1 DEF Entered
    <3>2. QED BY <2>2, <2>3, <2>4, <2>5, <3>1, OneEntry, Zenon
  <2>7. transactions' = [who |-> w, main |-> lists'[w], test |-> tests[w]]
    BY <1>2, <2>1, <2>2, NoneAssumption DEF ListOf
  <2>8. BookTypes'
    <3>1. book' \in [who : Wallets \cup {None}, amount : Nat] BY <2>1, <2>2
    <3>2. transactions' \in [who : Wallets \cup {None}, main : Seq(Entries), test : Nat]
      BY <2>2, <2>4, <2>6, <2>7
    <3>3. strayed' \subseteq {"book", "list"} BY <2>1, <2>4
    <3>4. QED BY <1>1, <2>4, <2>6, <3>1, <3>2, <3>3 DEF BookTypes
  <2>9. Replayed' BY <1>1, <2>6 DEF Replayed, Default, Kept
  <2>10. BookShown' /\ ListShown'
    <3>1. CASE w = wallet
      <4>1. book' = [who |-> wallet', amount |-> books'[wallet']]
            /\ transactions' = [who |-> wallet', main |-> lists'[wallet'], test |-> tests'[wallet']]
        BY <1>1, <2>1, <2>6, <2>7, <3>1
      <4>2. wallet' # None /\ view' = "mainnet" BY <1>1, <1>2, <2>2, <3>1, NoneAssumption
      <4>3. QED BY <4>1, <4>2 DEF BookShown, ListShown, BookOf, ListOf, Books
    <3>2. CASE w # wallet BY <2>1, <3>2 DEF BookShown, ListShown
    <3>3. QED BY <3>1, <3>2
  <2>11. BookStored' BY <2>1, <2>6 DEF BookStored
  <2>12. QED BY <1>2, <2>8, <2>9, <2>10, <2>11 DEF BookInv
<1>5. QED BY <1>3, <1>4

\* A handler's entry leaves the amounts alone.
LEMMA HandlersKeepBooks ==
  ASSUME SessionTypes, DialogTypes, BookTypes, BookInv, AddTransactionHistoryEntry
  PROVE  BookTypes' /\ BookInv'
<1>1. /\ view' = view /\ wallet' = wallet /\ book' = book /\ books' = books
      /\ tainted' = tainted /\ modal' = modal /\ signing' = signing
      /\ handler' = NoHandler /\ handler.who # None
  BY DEF AddTransactionHistoryEntry, pageVars
<1>2. view = "mainnet" /\ OnMainnet' /\ BookSigned'
  <2>1. view = "mainnet" BY <1>1 DEF BookInv, OnMainnet
  <2>2. QED BY <1>1, <2>1 DEF OnMainnet, BookInv, BookSigned
<1>3. CASE UNCHANGED <<lists, tests, transactions, strayed>>
  <2>1. BookTypes' BY <1>1, <1>3 DEF BookTypes
  <2>2. Replayed' BY <1>1, <1>3 DEF BookInv, Replayed, Default
  <2>3. BookShown' /\ ListShown' /\ BookStored'
    BY <1>1, <1>3 DEF BookInv, BookShown, ListShown, BookStored, BookOf, ListOf
  <2>4. QED BY <1>2, <2>1, <2>2, <2>3 DEF BookInv
<1>4. CASE ~UNCHANGED <<lists, tests, transactions, strayed>>
  <2> DEFINE w == handler.who
  <2>1. /\ \/ lists' = [lists EXCEPT ![w] = Append(@, "handler")] /\ tests' = tests
           \/ lists' = lists /\ tests' = [tests EXCEPT ![w] = @ + 1]
        /\ transactions' = [who |-> w, main |-> lists'[w], test |-> tests'[w]]
        /\ strayed' = IF w = wallet THEN strayed \ {"list"} ELSE strayed \cup {"list"}
    BY <1>4 DEF AddTransactionHistoryEntry, Strays
  <2>2. w \in Wallets /\ "handler" \in Entries
    BY <1>1 DEF DialogTypes, Entries
  <2>3. /\ books \in [Wallets -> Nat] /\ lists \in [Wallets -> Seq(Entries)]
        /\ tests \in [Wallets -> Nat] /\ tainted \subseteq Wallets
        /\ strayed \subseteq {"book", "list"} /\ books[w] \in Nat
        /\ book \in [who : Wallets \cup {None}, amount : Nat]
    BY <2>2 DEF BookTypes
  <2>4. Default \in Nat /\ Kept(books, lists, tainted, Default)
    BY DefaultType DEF BookInv, Replayed, Kept
  <2> HIDE DEF w
  <2>5. lists' \in [Wallets -> Seq(Entries)] /\ Kept(books, lists', tainted, Default)
    <3>1. CASE lists' = lists BY <2>3, <2>4, <3>1
    <3>2. CASE lists' = [lists EXCEPT ![w] = Append(@, "handler")]
      <4>1. books[w] = Apply(books[w], "handler") BY DEF Apply
      <4>2. books = [books EXCEPT ![w] = books[w]] BY <2>3
      <4>3. Entered(books, lists, w, "handler", books[w], books, lists')
        BY <3>2, <4>2 DEF Entered
      <4>4. QED BY <2>2, <2>3, <2>4, <4>1, <4>3, OneEntry, Zenon
    <3>3. QED BY <2>1, <3>1, <3>2
  <2>6. tests' \in [Wallets -> Nat] BY <2>1, <2>2, <2>3
  <2>7. BookTypes'
    <3>1. transactions' \in [who : Wallets \cup {None}, main : Seq(Entries), test : Nat]
      BY <2>1, <2>2, <2>5, <2>6
    <3>2. strayed' \subseteq {"book", "list"} BY <2>1, <2>3
    <3>3. QED BY <1>1, <2>3, <2>5, <2>6, <3>1, <3>2 DEF BookTypes
  <2>8. Replayed' BY <1>1, <2>5 DEF Replayed, Default, Kept
  <2>9. BookShown'
    <3>1. "book" \in strayed' <=> "book" \in strayed BY <2>1
    <3>2. QED BY <1>1, <3>1 DEF BookInv, BookShown, BookOf
  <2>10. ListShown'
    <3>1. CASE w = wallet
      <4>1. wallet' # None /\ view' = "mainnet" BY <1>1, <1>2, <2>2, <3>1, NoneAssumption
      <4>2. QED BY <1>1, <2>1, <3>1, <4>1 DEF ListShown, ListOf
    <3>2. CASE w # wallet BY <2>1, <3>2 DEF ListShown
    <3>3. QED BY <3>1, <3>2
  <2>11. BookStored' BY <1>1 DEF BookInv, BookStored
  <2>12. QED BY <1>2, <2>7, <2>8, <2>9, <2>10, <2>11 DEF BookInv
<1>5. QED BY <1>3, <1>4

\* A button changes the book that is shown and, with a wallet, the stored one.
LEMMA EditsKeepBooks ==
  ASSUME SessionTypes, DialogTypes, BookTypes, BookInv,
         view \in {"delegations", "rewards"}, NEW a \in Actions, Edit(a)
  PROVE  BookTypes' /\ BookInv'
<1>1. /\ view' = view /\ wallet' = wallet /\ transactions' = transactions /\ tests' = tests
      /\ tainted' = tainted /\ strayed' = strayed
      /\ modal' = modal /\ signing' = signing /\ handler' = handler
  BY DEF Edit, pageVars, dialogVars
<1>2. /\ view # "mainnet" /\ view \in Books /\ strayed = {} /\ signing.who = None
      /\ a \in Entries
  BY DEF BookInv, OnMainnet, Books, Entries
<1>3. /\ book'.who = book.who /\ book'.amount = Apply(book.amount, a)
      /\ book' \in [who : Wallets \cup {None}, amount : Nat]
  <2>1. book' = [book EXCEPT !.amount = Apply(book.amount, a)] BY DEF Edit
  <2>2. book \in [who : Wallets \cup {None}, amount : Nat] BY DEF BookTypes
  <2>3. Apply(book.amount, a) \in Nat BY <1>2, <2>2, ApplyType
  <2>4. QED BY <2>1, <2>2, <2>3
<1>4. OnMainnet' /\ BookStored' /\ BookSigned'
  BY <1>1, <1>2, NoneAssumption DEF BookInv, OnMainnet, BookStored, BookSigned
<1>5. ListShown' BY <1>1, <1>2 DEF BookInv, ListShown, ListOf
<1>6. CASE wallet = None
  <2>1. books' = books /\ lists' = lists BY <1>6 DEF Edit
  <2>2. BookTypes' BY <1>1, <1>3, <2>1 DEF BookTypes
  <2>3. Replayed' BY <1>1, <2>1 DEF BookInv, Replayed, Default
  <2>4. BookShown' BY <1>1, <1>6 DEF BookShown
  <2>5. QED BY <1>4, <1>5, <2>2, <2>3, <2>4 DEF BookInv
<1>7. CASE wallet # None
  <2> DEFINE w == wallet
             amount == book'.amount
  <2>1. /\ w \in Wallets /\ amount \in Nat
        /\ books' = [books EXCEPT ![w] = amount]
        /\ lists' = [lists EXCEPT ![w] = Append(@, a)]
    BY <1>3, <1>7 DEF Edit, SessionTypes
  <2>2. book.who = wallet /\ book.amount = books[wallet]
    BY <1>2, <1>7 DEF BookInv, BookShown, BookOf
  <2>3. w \notin tainted => amount = Apply(books[w], a)
    BY <1>3, <2>2
  <2>4. /\ books \in [Wallets -> Nat] /\ lists \in [Wallets -> Seq(Entries)]
        /\ tainted \subseteq Wallets
    BY DEF BookTypes
  <2>5. Default \in Nat /\ Kept(books, lists, tainted, Default)
    BY DefaultType DEF BookInv, Replayed, Kept
  <2> HIDE DEF w, amount
  <2>6. /\ books' \in [Wallets -> Nat] /\ lists' \in [Wallets -> Seq(Entries)]
        /\ books'[w] = amount /\ Kept(books', lists', tainted, Default)
    <3>1. Entered(books, lists, w, a, amount, books', lists') BY <2>1 DEF Entered
    <3>2. w \in Wallets /\ a \in Entries /\ amount \in Nat BY <1>2, <2>1
    <3>3. QED BY <2>3, <2>4, <2>5, <3>1, <3>2, OneEntry, Zenon
  <2>7. BookTypes' BY <1>1, <1>3, <2>6 DEF BookTypes
  <2>8. Replayed' BY <1>1, <2>6 DEF Replayed, Default, Kept
  <2>9. BookShown'
    <3>1. book' = [who |-> wallet, amount |-> books'[wallet]]
      BY <1>3, <2>2, <2>6 DEF w, amount
    <3>2. QED BY <1>1, <1>2, <1>7, <3>1 DEF BookShown, BookOf
  <2>10. QED BY <1>4, <1>5, <2>7, <2>8, <2>9 DEF BookInv
<1>8. QED BY <1>6, <1>7

LEMMA BooksKeep ==
  ASSUME SessionTypes, DialogTypes, BookTypes, BookInv, [Next]_vars
  PROVE  BookTypes' /\ BookInv'
<1>1. CASE QuietBooks
  <2>1. /\ view' = view /\ wallet' = wallet /\ book' = book /\ transactions' = transactions
        /\ books' = books /\ lists' = lists /\ tests' = tests /\ tainted' = tainted
        /\ strayed' = strayed /\ modal' = modal /\ signing' = signing /\ handler' = handler
    BY <1>1 DEF QuietBooks, bookVars, dialogVars
  <2>2. BookTypes' BY <2>1, Zenon DEF BookTypes
  <2>3. BookInv'
    BY <2>1 DEF BookInv, Replayed, Default, OnMainnet, BookShown, BookOf, ListShown, ListOf,
                BookStored, BookSigned
  <2>4. QED BY <2>2, <2>3
<1>2. CASE ConnectAnswers \/ Disconnect \/ Reload
  <2>1. view' = view /\ wallet' \in Wallets \cup {None}
    BY BoundedStep, SessionKeeps DEF Bounded, SessionTypes
  <2>2. CASE wallet' = wallet /\ UNCHANGED bookVars
    <3>1. QuietBooks BY <2>1, <2>2 DEF QuietBooks
    <3>2. QED BY <1>1, <3>1
  <2>3. CASE ~(wallet' = wallet /\ UNCHANGED bookVars)
    <3>1. /\ book' = BookOf(wallet') /\ transactions' = ListOf(wallet') /\ strayed' = {}
          /\ books' = books /\ lists' = lists /\ tests' = tests /\ tainted' = tainted
          /\ modal' \in {modal, "none"} /\ signing' \in {signing, NoSigning}
          /\ handler' \in {handler, NoHandler}
      <4>1. CASE ConnectAnswers
        <5>1. wallet' = asking /\ WalletEffects(asking)
          BY <2>3, <4>1 DEF ConnectAnswers
        <5>2. QED BY <5>1 DEF WalletEffects, dialogVars
      <4>2. CASE Disconnect BY <4>2 DEF Disconnect, WalletEffects, dialogVars
      <4>3. CASE Reload BY <4>3 DEF Reload
      <4>4. QED BY <1>2, <4>1, <4>2, <4>3
    <3>2. QED BY <2>1, <3>1, EffectsKeepBooks
  <2>4. QED BY <2>2, <2>3
<1>3. CASE SwitchNetwork
  <2>1. /\ view' = view /\ wallet' = wallet /\ book' = book
        /\ books' = books /\ lists' = lists /\ tests' = tests /\ tainted' = tainted
        /\ modal' = modal /\ signing' = signing /\ handler' = handler
        /\ transactions' = ListOf(wallet) /\ strayed' = strayed \ {"list"}
    BY <1>3 DEF SwitchNetwork, dialogVars
  <2>2. BookTypes'
    <3>1. transactions' \in [who : Wallets \cup {None}, main : Seq(Entries), test : Nat]
      BY <2>1, BookOfType DEF SessionTypes
    <3>2. strayed' \subseteq {"book", "list"} BY <2>1 DEF BookTypes
    <3>3. QED BY <2>1, <3>1, <3>2, Zenon DEF BookTypes
  <2>3. BookInv'
    <3>1. strayed' \subseteq strayed /\ ("book" \in strayed' <=> "book" \in strayed) BY <2>1
    <3>2. Replayed' /\ OnMainnet' /\ BookStored' /\ BookSigned'
      BY <2>1, <3>1 DEF BookInv, Replayed, Default, OnMainnet, BookStored, BookSigned
    <3>3. BookShown' /\ ListShown'
      BY <2>1, <3>1 DEF BookInv, BookShown, BookOf, ListShown, ListOf
    <3>4. QED BY <3>2, <3>3 DEF BookInv
  <2>4. QED BY <2>2, <2>3
<1>4. CASE MainnetTrigger \/ MainnetReject \/ MainnetConfirm \/ HandlerStarts
  BY <1>4, DialogsKeepBooks
<1>5. CASE MainnetSigned BY <1>5, SignedKeepsBooks
<1>6. CASE AddTransactionHistoryEntry BY <1>6, HandlersKeepBooks
<1>7. CASE Delegate \/ Revoke \/ AccrueRewards
  BY <1>7, EditsKeepBooks DEF Delegate, Revoke, AccrueRewards, Actions
<1>8. QED BY <1>1, <1>2, <1>3, <1>4, <1>5, <1>6, <1>7, Quiet, Zenon

-----------------------------------------------------------------------------
(* The views. *)

Unpolled == {"balances", "hookBalances", "backstop", "preview"}

\* A request that nothing has happened to since it was made.
AsIfNow(r) ==
  /\ r.who = wallet /\ wallet # None /\ r.prices = "none" /\ r.good
  /\ view = "balances" => r.at = network
  /\ view = "preview" => typed
  /\ view # "preview" => r.at # "none"

\* What an unpolled view shows at rest.
AtRest ==
  /\ wallet # None /\ (view = "backstop" => section = "backstop") =>
       shown.who = IF view = "preview" /\ ~typed THEN None ELSE wallet
  /\ wallet # None /\ view = "balances" => shown.at = network
  /\ wallet = None /\ view # "backstop" => shown = Nothing

ViewInv ==
  view \in Unpolled /\ ~raced =>
    /\ \A r \in requests : AsIfNow(r)
    /\ \A r, s \in requests : r = s
    /\ requests = {} => AtRest

LEMMA Rules ==
  ASSUME view \in Unpolled
  PROVE  /\ Personal /\ Rule.timer = "never" /\ ~Rule.nobody
         /\ Rule.emptied <=> view # "backstop"
         /\ "network" \in Rule.deps <=> view = "balances"
         /\ view \notin Books
BY DEF Unpolled, Rule, Personal, Books, BalancesView, HookBalancesView, BackstopView, PreviewView

\* A change of wallet has effects on the view only.
LEMMA EffectsType ==
  ASSUME SessionTypes, ViewTypes, NEW w \in Wallets \cup {None}, WalletEffects(w)
  PROVE  ViewTypes'
<1>1. /\ loaded' \in BOOLEAN /\ typed' \in BOOLEAN
      /\ section' \in Sections /\ staking' \in Wallets \cup {None}
  BY Zenon DEF WalletEffects, ViewTypes, stakeVars
<1>2. network \in Networks BY DEF SessionTypes
<1>3. CASE Fetches(w, network) /\ shown' = shown
  BY <1>1, <1>2, <1>3, FetchesType DEF ViewTypes
<1>4. CASE /\ requests' = UnderWay
           /\ raced' = (UnderWay # {} \/ (raced /\ ~(w = None /\ Rule.emptied)))
           /\ shown' = IF w = None /\ Rule.emptied THEN Nothing ELSE shown
  <2>1. requests' \subseteq Tags BY <1>4 DEF UnderWay, ViewTypes
  <2>2. shown' \in Tags BY <1>2, <1>4, TagFields DEF ViewTypes
  <2>3. raced' \in BOOLEAN BY <1>4, Zenon DEF ViewTypes
  <2>4. QED BY <1>1, <2>1, <2>2, <2>3, Zenon DEF ViewTypes
<1>5. QED BY <1>3, <1>4, Zenon DEF WalletEffects

LEMMA ViewKeeps ==
  ASSUME SessionTypes, ViewTypes, [Next]_vars PROVE ViewTypes'
<1>1. PICK w \in Wallets \cup {None}, n \in Networks : w = session /\ n = network'
  BY SessionKeeps DEF SessionTypes
<1>2. network \in Networks /\ wallet \in Wallets \cup {None} /\ asking \in Wallets \cup {None}
      /\ wallet = session
  BY DEF SessionTypes
<1>3. Nothing \in Tags BY <1>2, TagFields
<1>4. CASE QuietViews BY <1>4, Zenon DEF QuietViews, viewVars, stakeVars, ViewTypes
<1>5. CASE ConnectAnswers
  <2>1. CASE UNCHANGED viewVars BY <2>1, Zenon DEF viewVars, stakeVars, ViewTypes
  <2>2. CASE WalletEffects(asking) BY <1>2, <2>2, EffectsType
  <2>3. QED BY <1>5, <2>1, <2>2, Zenon DEF ConnectAnswers
<1>6. CASE Disconnect BY <1>6, EffectsType DEF Disconnect
<1>7. CASE Reload
  <2>1. requests' \subseteq Tags BY <1>1, <1>7, RequestFields DEF Reload
  <2>2. QED BY <1>3, <1>7, <2>1 DEF Reload, ViewTypes, Sections
<1>8. CASE SwitchNetwork
  <2>1. /\ shown' = shown /\ loaded' = loaded /\ typed' = typed
        /\ section' = section /\ staking' = staking
    BY <1>8 DEF SwitchNetwork, stakeVars
  <2>2. CASE Fetches(wallet, network')
    <3>1. Fetches(w, n) BY <1>1, <1>2, <2>2
    <3>2. requests' \subseteq Tags /\ raced' \in BOOLEAN BY <3>1, FetchesType
    <3>3. QED BY <2>1, <3>2, Zenon DEF ViewTypes
  <2>3. CASE requests' = requests /\ raced' = (raced \/ UnderWay # {})
    BY <2>1, <2>3, Zenon DEF ViewTypes
  <2>4. QED BY <1>8, <2>2, <2>3, Zenon DEF SwitchNetwork
<1>9. CASE Poll
  <2>1. /\ shown' = shown /\ loaded' = loaded /\ typed' = typed /\ Fetches(wallet, network)
        /\ section' = section /\ staking' = staking
    BY <1>9 DEF Poll, stakeVars
  <2>2. requests' \subseteq Tags /\ raced' \in BOOLEAN BY <1>2, <2>1, FetchesType
  <2>3. QED BY <2>1, <2>2, Zenon DEF ViewTypes
<1>10. CASE TypeAmount
  <2>1. /\ loaded' = loaded /\ typed' \in BOOLEAN /\ section' = section /\ staking' = staking
    BY <1>10 DEF TypeAmount, stakeVars
  <2>2. CASE Fetches(wallet, network) /\ shown' = shown
    <3>1. requests' \subseteq Tags /\ raced' \in BOOLEAN BY <1>2, <2>2, FetchesType
    <3>2. QED BY <2>1, <2>2, <3>1, Zenon DEF ViewTypes
  <2>3. CASE requests' = UnderWay /\ raced' = (UnderWay # {}) /\ shown' = Nothing
    <3>1. requests' \subseteq Tags BY <2>3 DEF UnderWay, ViewTypes
    <3>2. raced' \in BOOLEAN BY <2>3, Zenon
    <3>3. QED BY <1>3, <2>1, <2>3, <3>1, <3>2, Zenon DEF ViewTypes
  <2>4. CASE requests' = {} /\ raced' = FALSE /\ shown' = Nothing
    <3>1. requests' \subseteq Tags BY <2>4
    <3>2. QED BY <1>3, <2>1, <2>4, <3>1, Zenon DEF ViewTypes
  <2>5. QED BY <1>10, <2>2, <2>3, <2>4, Zenon DEF TypeAmount
<1>11. CASE PreviewAsks
  <2>1. PICK r \in requests : requests' = UnderWay \cup {[r EXCEPT !.at = network]}
    BY <1>11 DEF PreviewAsks
  <2>2. r \in Tags /\ UnderWay \subseteq Tags BY DEF UnderWay, ViewTypes
  <2>3. [r EXCEPT !.at = network] \in Tags BY <1>2, <2>2, TagUpdates
  <2>4. requests' \subseteq Tags BY <2>1, <2>2, <2>3
  <2>5. QED BY <1>11, <2>4, Zenon DEF PreviewAsks, ViewTypes, stakeVars
<1>12. CASE MarketsLoad BY <1>12, Zenon DEF MarketsLoad, ViewTypes, stakeVars
<1>13. ASSUME NEW r \in requests, ListAnswers(r) PROVE ViewTypes'
  <2>1. r \in Tags BY DEF ViewTypes
  <2>2. [r EXCEPT !.prices = network] \in Tags BY <1>2, <2>1, TagUpdates
  <2>3. requests' \subseteq Tags BY <1>13, <2>2 DEF ListAnswers, ViewTypes
  <2>4. QED BY <1>13, <2>3, Zenon DEF ListAnswers, ViewTypes, stakeVars
<1>14. ASSUME NEW r \in requests, Answer(r) PROVE ViewTypes'
  <2>1. r \in Tags BY DEF ViewTypes
  <2>2. \A b \in BOOLEAN : [r EXCEPT !.good = b] \in Tags BY <1>2, <2>1, TagUpdates
  <2>3. [r EXCEPT !.good = view = "positions" => loaded] \in Tags
    <3>1. (view = "positions" => loaded) \in BOOLEAN BY Zenon
    <3>2. QED BY <2>2, <3>1, Zenon
  <2>4. Unknown(r) \in Tags BY <2>2 DEF Unknown
  <2>5. requests' \subseteq Tags BY <1>14 DEF Answer, ViewTypes
  <2>6. shown' \in Tags BY <1>14, <2>3, <2>4, Zenon DEF Answer, ViewTypes
  <2>7. raced' \in BOOLEAN BY <1>14, Zenon DEF Answer, ViewTypes
  <2>8. QED BY <1>14, <2>5, <2>6, <2>7, Zenon DEF Answer, ViewTypes, stakeVars
<1>15. CASE OpenSection
  <2>1. /\ shown' = shown /\ loaded' = loaded /\ typed' = typed /\ staking' = staking
        /\ section' \in Sections
    BY <1>15 DEF OpenSection
  <2>2. CASE Fetches(wallet, network)
    <3>1. requests' \subseteq Tags /\ raced' \in BOOLEAN BY <1>2, <2>2, FetchesType
    <3>2. QED BY <2>1, <3>1, Zenon DEF ViewTypes
  <2>3. CASE requests' = requests /\ raced' = raced BY <2>1, <2>3, Zenon DEF ViewTypes
  <2>4. QED BY <1>15, <2>2, <2>3 DEF OpenSection
<1>16. CASE BackstopHandlerStarts BY <1>2, <1>16, Zenon DEF BackstopHandlerStarts, ViewTypes
<1>17. CASE BackstopHandlerEnds
  <2>1. /\ shown' = shown /\ loaded' = loaded /\ typed' = typed /\ section' = section
        /\ staking' \in Wallets \cup {None}
    BY <1>17 DEF BackstopHandlerEnds
  <2>2. CASE Request(staking, network) /\ raced' = (UnderWay # {} \/ staking # wallet)
    <3>1. requests' \subseteq Tags BY <1>2, <2>2, RequestType DEF ViewTypes
    <3>2. raced' \in BOOLEAN BY <2>2, Zenon
    <3>3. QED BY <2>1, <3>1, <3>2, Zenon DEF ViewTypes
  <2>3. CASE requests' = requests /\ raced' = raced BY <2>1, <2>3, Zenon DEF ViewTypes
  <2>4. QED BY <1>17, <2>2, <2>3, Zenon DEF BackstopHandlerEnds
<1>18. QED BY <1>4, <1>5, <1>6, <1>7, <1>8, <1>9, <1>10, <1>11, <1>12, <1>13, <1>14, <1>15,
     <1>16, <1>17, Quiet, Zenon

\* A request made now is the only one, or it raced another one.
LEMMA FetchFollows ==
  ASSUME view \in Unpolled, view' = view, NEW w \in Wallets, NEW n \in Networks,
         Request(w, n), ~raced' => UnderWay = {}, wallet' = w, network' = n,
         view = "preview" => typed'
  PROVE  ViewInv'
<1>2. ~raced' => requests' = {RequestFor(w, n)} BY DEF Request
<1>3. /\ RequestFor(w, n).who = w /\ RequestFor(w, n).prices = "none"
      /\ RequestFor(w, n).good = TRUE
      /\ RequestFor(w, n).at = IF view = "preview" THEN "none" ELSE n
      /\ n # "none" /\ w # None
  <2>1. w \in Wallets \cup {None} /\ w # None /\ n # "none" BY NoneAssumption DEF Networks
  <2>2. QED BY <2>1, Rules, RequestFields
<1> DEFINE q == RequestFor(w, n)
<1> HIDE DEF q
<1>4. ASSUME ~raced' PROVE /\ \A r \in requests' : AsIfNow(r)'
                           /\ \A r, s \in requests' : r = s
                           /\ requests' # {}
  <2>1. requests' = {q} BY <1>2, <1>4 DEF q
  <2>2. \A r \in requests' : AsIfNow(r)'
    <3>1. TAKE r \in requests'
    <3>2. r = q BY <2>1
    <3>3. QED BY <1>3, <3>2 DEF AsIfNow, q
  <2>3. QED BY <2>1, <2>2
<1>5. QED BY <1>4 DEF ViewInv

\* The effects of a change of wallet.
LEMMA EffectsFollow ==
  ASSUME SessionTypes, view \in Unpolled, ViewInv, view' = view, network' = network,
         NEW w \in Wallets \cup {None}, wallet' = w, WalletEffects(w)
  PROVE  ViewInv'
<1>1. typed' = typed BY DEF WalletEffects
<1>2. network \in Networks BY DEF SessionTypes
<1>3. CASE Asks(w) /\ Fetches(w, network)
  <2>1. w \in Wallets /\ (view = "preview" => typed) BY <1>3, Rules DEF Asks
  <2>2. QED BY <1>1, <1>2, <1>3, <2>1, FetchFollows, Zenon DEF Fetches
<1>4. CASE /\ ~Personal \/ ~Asks(w)
           /\ requests' = UnderWay
           /\ raced' = (UnderWay # {} \/ (raced /\ ~(w = None /\ Rule.emptied)))
           /\ shown' = IF w = None /\ Rule.emptied THEN Nothing ELSE shown
  <2>1. ASSUME ~raced' PROVE requests' = {} /\ AtRest'
    <3>1. UnderWay = {} /\ requests' = {} /\ section' = section
      BY <1>4, <2>1, Zenon DEF WalletEffects, stakeVars
    <3>2. CASE w = None
      <4>1. view # "backstop" => shown' = Nothing BY <1>4, <3>2, Rules
      <4>2. QED BY <3>1, <3>2, <4>1 DEF AtRest
    <3>3. CASE w # None /\ view = "backstop"
      <4>1. section # "backstop" BY <1>4, <3>3, Rules DEF Asks
      <4>2. QED BY <3>1, <3>3, <4>1 DEF AtRest
    <3>4. CASE w # None /\ view # "backstop"
      <4>1. view = "preview" /\ ~typed BY <1>4, <3>4, Rules DEF Asks
      <4>2. ~raced BY <1>4, <2>1, <3>4, Zenon
      <4>3. requests = {} /\ AtRest BY <3>1, <4>1, <4>2 DEF ViewInv, AsIfNow
      <4>4. shown' = shown BY <1>4, <3>4
      <4>5. shown.who = None BY <4>1, <4>3 DEF AtRest, Nothing, Tag
      <4>6. QED BY <1>1, <3>1, <3>4, <4>1, <4>4, <4>5 DEF AtRest
    <3>5. QED BY <3>1, <3>2, <3>3, <3>4
  <2>2. QED BY <2>1 DEF ViewInv
<1>5. QED BY <1>3, <1>4, Zenon DEF WalletEffects

LEMMA ReloadFollows ==
  ASSUME SessionTypes, view \in Unpolled, Reload PROVE ViewInv'
<1>1. PICK w \in Wallets \cup {None}, n \in Networks : w = session /\ n = network'
  BY DEF SessionTypes, Reload
<1>2. /\ view' = view /\ wallet' = w /\ network' = n /\ shown' = Nothing /\ ~typed'
      /\ section' = "portfolio"
      /\ requests' = IF view \notin {"preview", "backstop"} /\ w # None
                     THEN {RequestFor(w, n)} ELSE {}
  <2>1. ~typed' BY Zenon DEF Reload
  <2>2. view \notin Books \cup {"preview", "backstop"} /\ Asks(session)
          <=> view \notin {"preview", "backstop"} /\ w # None
    BY <1>1, Rules DEF Asks
  <2>3. QED BY <1>1, <2>1, <2>2 DEF Reload
<1>3. CASE view \notin {"preview", "backstop"} /\ w # None
  <2>1. requests' = {RequestFor(w, n)} BY <1>2, <1>3
  <2>2. /\ RequestFor(w, n).who = w /\ RequestFor(w, n).prices = "none"
        /\ RequestFor(w, n).good = TRUE /\ RequestFor(w, n).at = n /\ n # "none"
    <3>1. n # "none" BY DEF Networks
    <3>2. QED BY <1>3, <3>1, Rules, RequestFields
  <2>3. \A r \in requests' : AsIfNow(r)'
    <3>1. TAKE r \in requests'
    <3>2. r = RequestFor(w, n) BY <2>1
    <3>3. QED BY <1>2, <1>3, <2>2, <3>2 DEF AsIfNow
  <2>4. QED BY <2>1, <2>3 DEF ViewInv
<1>4. CASE ~(view \notin {"preview", "backstop"} /\ w # None)
  <2>1. requests' = {} BY <1>2, <1>4
  <2>2. Nothing.who = None BY DEF Nothing, Tag
  <2>3. AtRest' BY <1>2, <1>4, <2>2 DEF AtRest
  <2>4. QED BY <2>1, <2>3 DEF ViewInv
<1>5. QED BY <1>3, <1>4

LEMMA SwitchFollows ==
  ASSUME SessionTypes, view \in Unpolled, ViewInv, SwitchNetwork PROVE ViewInv'
<1>1. PICK n \in Networks : n = network' BY DEF SwitchNetwork
<1>2. /\ view' = view /\ wallet' = wallet /\ shown' = shown /\ typed' = typed
      /\ section' = section
  BY DEF SwitchNetwork, stakeVars
<1>3. CASE "network" \in Rule.deps /\ wallet # None /\ Fetches(wallet, network')
  <2>1. PICK w \in Wallets : w = wallet BY <1>3 DEF SessionTypes
  <2>2. view # "preview" BY <1>3, Rules
  <2>3. Fetches(w, n) BY <1>1, <1>3, <2>1
  <2>4. Request(w, n) /\ (~raced' => UnderWay = {}) BY <2>3, Zenon DEF Fetches
  <2>5. QED BY <1>1, <1>2, <2>1, <2>2, <2>4, FetchFollows
<1>4. CASE /\ "network" \notin Rule.deps \/ wallet = None
           /\ requests' = requests /\ raced' = (raced \/ UnderWay # {})
  <2>1. ASSUME ~raced'
        PROVE  /\ \A r \in requests' : AsIfNow(r)'
               /\ \A r, s \in requests' : r = s
               /\ requests' = {} => AtRest'
    <3>1. ~raced /\ UnderWay = {} BY <1>4, <2>1, Zenon
    <3>2. requests' = requests BY <1>4
    <3>3. /\ \A r \in requests : AsIfNow(r) /\ r.at = "none"
          /\ \A r, s \in requests : r = s
          /\ requests = {} => AtRest
      BY <3>1 DEF ViewInv, UnderWay
    <3>4. \A r \in requests' : AsIfNow(r)'
      <4>1. TAKE r \in requests'
      <4>2. AsIfNow(r) /\ r.at = "none" BY <3>2, <3>3
      <4>3. QED BY <1>2, <4>2 DEF AsIfNow
    <3>5. view = "balances" => wallet = None BY <1>4, Rules
    <3>6. requests' = {} => AtRest' BY <1>2, <3>2, <3>3, <3>5 DEF AtRest
    <3>7. QED BY <3>2, <3>3, <3>4, <3>6
  <2>2. QED BY <2>1 DEF ViewInv
<1>5. QED BY <1>3, <1>4, Zenon DEF SwitchNetwork

LEMMA TypingFollows ==
  ASSUME SessionTypes, view \in Unpolled, TypeAmount PROVE ViewInv'
<1>1. view' = view /\ view = "preview" /\ wallet' = wallet /\ network' = network
  BY DEF TypeAmount, pageVars
<1>2. Nothing.who = None BY DEF Nothing, Tag
<1>3. CASE typed' /\ wallet # None /\ Fetches(wallet, network)
  <2>1. PICK w \in Wallets, n \in Networks : w = wallet /\ n = network
    BY <1>3 DEF SessionTypes
  <2>2. Fetches(w, n) BY <1>3, <2>1
  <2>3. Request(w, n) /\ (~raced' => UnderWay = {}) BY <2>2, Zenon DEF Fetches
  <2>4. QED BY <1>1, <1>3, <2>1, <2>3, FetchFollows
<1>4. CASE /\ typed' => wallet = None
           /\ requests' = UnderWay /\ raced' = (UnderWay # {}) /\ shown' = Nothing
  <2>1. ~raced' => UnderWay = {} BY <1>4, Zenon
  <2>2. AtRest' BY <1>1, <1>2, <1>4 DEF AtRest
  <2>3. QED BY <1>4, <2>1, <2>2 DEF ViewInv
<1>5. CASE ~typed' /\ requests' = {} /\ shown' = Nothing
  <2>1. AtRest' BY <1>1, <1>2, <1>5 DEF AtRest
  <2>2. QED BY <1>5, <2>1 DEF ViewInv
<1>6. QED BY <1>3, <1>4, <1>5, Zenon DEF TypeAmount

\* The timeout of a preview: what it asks is for the wallet it has waited for.
LEMMA AskingFollows ==
  ASSUME SessionTypes, ViewTypes, view \in Unpolled, ViewInv, PreviewAsks PROVE ViewInv'
<1>1. PICK r \in requests : /\ view = "preview" /\ r.at = "none"
                            /\ requests' = UnderWay \cup {[r EXCEPT !.at = network]}
  BY DEF PreviewAsks
<1>2. /\ view' = view /\ wallet' = wallet /\ network' = network
      /\ typed' = typed /\ raced' = raced
  BY DEF PreviewAsks, pageVars
<1> DEFINE q == [r EXCEPT !.at = network]
<1>3. q.who = r.who /\ q.prices = r.prices /\ q.good = r.good
  BY TagUpdates DEF ViewTypes, SessionTypes
<1> HIDE DEF q
<1>4. ASSUME ~raced'
      PROVE  /\ \A s \in requests' : AsIfNow(s)'
             /\ \A s, t \in requests' : s = t
             /\ requests' # {}
  <2>1. AsIfNow(r) /\ \A s \in requests : s = r BY <1>1, <1>2, <1>4 DEF ViewInv
  <2>2. UnderWay = {} BY <1>1, <2>1 DEF UnderWay
  <2>3. requests' = {q} BY <1>1, <2>2 DEF q
  <2>4. \A s \in requests' : AsIfNow(s)'
    <3>1. TAKE s \in requests'
    <3>2. s = q BY <2>3
    <3>3. QED BY <1>1, <1>2, <1>3, <2>1, <3>2 DEF AsIfNow
  <2>5. QED BY <2>3, <2>4
<1>5. QED BY <1>4 DEF ViewInv

\* The answer to the only request, made for what the page is on now.
LEMMA AnswerFollows ==
  ASSUME ViewTypes, view \in Unpolled, ViewInv, NEW r \in requests, Answer(r)
  PROVE  ViewInv'
<1>1. /\ view' = view /\ wallet' = wallet /\ network' = network /\ typed' = typed
      /\ requests' = requests \ {r} /\ section' = section
  BY DEF Answer, pageVars, stakeVars
<1>2. CASE shown' = [r EXCEPT !.good = view = "positions" => loaded] /\ raced' = raced
  <2>1. shown'.who = r.who /\ shown'.at = r.at BY <1>2 DEF ViewTypes, Tags
  <2>2. ASSUME ~raced' PROVE requests' = {} /\ AtRest'
    <3>1. AsIfNow(r) /\ \A s \in requests : s = r BY <1>2, <2>2 DEF ViewInv
    <3>2. QED BY <1>1, <2>1, <3>1 DEF AsIfNow, AtRest
  <2>3. QED BY <2>2 DEF ViewInv
<1>3. CASE raced' = TRUE BY <1>3 DEF ViewInv
<1>4. QED BY <1>2, <1>3, Zenon DEF Answer

\* The backstop's section and its handlers.
LEMMA StakingFollows ==
  ASSUME SessionTypes, ViewTypes, view \in Unpolled, ViewInv,
         OpenSection \/ BackstopHandlerStarts \/ BackstopHandlerEnds
  PROVE  ViewInv'
<1>1. /\ view' = view /\ view = "backstop" /\ wallet' = wallet /\ network' = network
      /\ shown' = shown /\ typed' = typed
  BY DEF OpenSection, BackstopHandlerStarts, BackstopHandlerEnds, pageVars
<1>2. CASE OpenSection
  <2>1. CASE section' = "backstop" /\ wallet # None
    <3>1. PICK w \in Wallets, n \in Networks : w = wallet /\ n = network
      BY <2>1 DEF SessionTypes
    <3>2. Fetches(w, n) BY <1>2, <2>1, <3>1 DEF OpenSection
    <3>3. Request(w, n) /\ (~raced' => UnderWay = {}) BY <3>2, Zenon DEF Fetches
    <3>4. QED BY <1>1, <3>1, <3>3, FetchFollows
  <2>2. CASE ~(section' = "backstop" /\ wallet # None)
    <3>1. requests' = requests /\ raced' = raced BY <1>2, <2>2 DEF OpenSection
    <3>2. AtRest' BY <1>1, <2>2 DEF AtRest
    <3>3. QED BY <1>1, <3>1, <3>2 DEF ViewInv, AsIfNow
  <2>3. QED BY <2>1, <2>2
<1>3. CASE BackstopHandlerStarts
  BY <1>1, <1>3 DEF BackstopHandlerStarts, ViewInv, AsIfNow, AtRest
<1>4. CASE BackstopHandlerEnds
  <2>1. section' = section /\ staking # None BY <1>4 DEF BackstopHandlerEnds
  <2>2. CASE Request(staking, network) /\ raced' = (UnderWay # {} \/ staking # wallet)
    <3>1. CASE staking = wallet
      <4>1. PICK w \in Wallets, n \in Networks : w = wallet /\ n = network
        BY <2>1, <3>1 DEF SessionTypes
      <4>2. Request(w, n) /\ (~raced' => UnderWay = {}) BY <2>2, <3>1, <4>1, Zenon
      <4>3. QED BY <1>1, <4>1, <4>2, FetchFollows
    <3>2. CASE staking # wallet
      <4>1. raced' BY <2>2, <3>2, Zenon
      <4>2. QED BY <4>1 DEF ViewInv
    <3>3. QED BY <3>1, <3>2
  <2>3. CASE requests' = requests /\ raced' = raced
    BY <1>1, <2>1, <2>3 DEF ViewInv, AsIfNow, AtRest
  <2>4. QED BY <1>4, <2>2, <2>3, Zenon DEF BackstopHandlerEnds
<1>5. QED BY <1>2, <1>3, <1>4

LEMMA ViewsFollow ==
  ASSUME SessionTypes, ViewTypes, ViewInv, [Next]_vars PROVE ViewInv'
<1>1. CASE view' \notin Unpolled BY <1>1 DEF ViewInv
<1>2. CASE view' \in Unpolled
  <2>1. view' = view /\ view \in Unpolled BY <1>2, BoundedStep DEF Bounded
  <2>2. CASE QuietViews
    BY <2>2 DEF QuietViews, viewVars, stakeVars, ViewInv, AsIfNow, AtRest
  <2>3. CASE ConnectAnswers
    <3>1. network' = network BY <2>3 DEF ConnectAnswers
    <3>2. CASE wallet' = wallet /\ UNCHANGED viewVars
      <4>1. QuietViews BY <2>1, <3>1, <3>2 DEF QuietViews
      <4>2. QED BY <2>2, <4>1
    <3>3. CASE wallet' = asking /\ WalletEffects(asking)
      <4>1. PICK w \in Wallets \cup {None} : w = asking BY DEF SessionTypes
      <4>2. QED BY <2>1, <3>1, <3>3, <4>1, EffectsFollow
    <3>4. QED BY <2>3, <3>2, <3>3 DEF ConnectAnswers
  <2>4. CASE Disconnect
    BY <2>1, <2>4, EffectsFollow DEF Disconnect
  <2>5. CASE Reload BY <2>1, <2>5, ReloadFollows
  <2>6. CASE SwitchNetwork BY <2>1, <2>6, SwitchFollows
  <2>7. CASE OpenSection \/ BackstopHandlerStarts \/ BackstopHandlerEnds
    BY <2>1, <2>7, StakingFollows
  <2>8. CASE TypeAmount BY <2>1, <2>8, TypingFollows
  <2>9. CASE PreviewAsks BY <2>1, <2>9, AskingFollows
  <2>10. ~Poll BY <2>1, Rules DEF Poll
  <2>11. ~MarketsLoad BY <2>1 DEF MarketsLoad, Unpolled
  <2>12. ASSUME NEW r \in requests, ListAnswers(r) \/ Answer(r) PROVE ViewInv'
    <3>1. ~ListAnswers(r) BY <2>1 DEF ListAnswers, Unpolled
    <3>2. QED BY <2>1, <2>12, <3>1, AnswerFollows
  <2>13. QED BY <2>2, <2>3, <2>4, <2>5, <2>6, <2>7, <2>8, <2>9, <2>10, <2>11, <2>12, Quiet, Zenon
<1>3. QED BY <1>1, <1>2

-----------------------------------------------------------------------------
(* The invariant. *)

SessionInv == TypeOK /\ BookInv /\ ViewInv

LEMMA SessionInit == Init => SessionInv
<1> SUFFICES ASSUME Init PROVE SessionInv OBVIOUS
<1>1. SessionTypes
  BY BoundsAssumption DEF Init, SessionTypes, Networks
<1>2. ViewTypes BY TagFields DEF Init, ViewTypes, Networks, Sections
<1>3. DialogTypes
  BY DEF Init, DialogTypes, NoSigning, NoHandler, Actions, Networks
<1>4. BookTypes
  BY DefaultType DEF Init, BookTypes, NoBook, NoList
<1>5. BookInv
  <2>1. Replayed
    <3>1. Replay(Default, <<>>) = Default BY DefaultType, ReplayEmpty
    <3>2. QED BY <3>1 DEF Init, Replayed
  <2>2. OnMainnet /\ BookShown /\ ListShown /\ BookStored /\ BookSigned
    BY NoneAssumption
    DEF Init, OnMainnet, BookShown, ListShown, BookStored, BookSigned, NoSigning, NoHandler, NoBook
  <2>3. QED BY <2>1, <2>2 DEF BookInv
<1>6. ViewInv BY DEF Init, ViewInv, AtRest
<1>7. QED BY <1>1, <1>2, <1>3, <1>4, <1>5, <1>6, Types DEF SessionInv

LEMMA SessionStep == SessionInv /\ [Next]_vars => SessionInv'
<1> SUFFICES ASSUME SessionInv, [Next]_vars PROVE SessionInv' OBVIOUS
<1>1. SessionTypes /\ ViewTypes /\ DialogTypes /\ BookTypes /\ BookInv /\ ViewInv
  BY Types DEF SessionInv
<1>2. SessionTypes' BY <1>1, SessionKeeps
<1>3. ViewTypes' BY <1>1, ViewKeeps
<1>4. DialogTypes' BY <1>1, DialogKeeps
<1>5. BookTypes' /\ BookInv' BY <1>1, BooksKeep
<1>6. ViewInv' BY <1>1, ViewsFollow
<1>7. TypeOK'
  BY <1>2, <1>3, <1>4, <1>5
  DEF TypeOK, SessionTypes, ViewTypes, DialogTypes, BookTypes
<1>8. QED BY <1>5, <1>6, <1>7 DEF SessionInv

\* The inductive invariant of the session: the types, what is stored, shown and
\* being signed of the books, and that a request which nothing raced was made
\* for the wallet, the network and the amount the page is on now.
THEOREM SessionInvariant == Spec => []SessionInv
<1>1. SessionInv /\ UNCHANGED vars => SessionInv' BY SessionStep
<1>2. QED BY SessionInit, SessionStep, PTL DEF Spec

\* At rest a view without a timer shows the connected wallet, the page's network
\* and a preview just when there is an amount, if no answer was overtaken
\* (the effects of ErgoDashboard.tsx, useWalletBalances, TransactionOverview).
THEOREM ViewsFollowTheWallet == Spec => []UnpolledViewsFollow
<1>1. SessionInv => UnpolledViewsFollow
  BY DEF SessionInv, ViewInv, AtRest, Unpolled, UnpolledViewsFollow
<1>2. QED BY <1>1, SessionInvariant, PTL

\* The books in localStorage are what was done to them and what the page shows,
\* whatever wallets, networks, reloads and late signatures come between, but for
\* a wallet that signed beside another one's book and what a handler of another
\* wallet has overwritten (handleMainnetSignAndSubmit, addTransactionHistoryEntry).
THEOREM BooksAreTrue == Spec => []BooksMatch
<1>1. SessionInv => BooksMatch
  <2> SUFFICES ASSUME SessionInv PROVE BooksMatch OBVIOUS
  <2>1. Replayed /\ BookShown /\ ListShown BY DEF SessionInv, BookInv
  <2>2. OnMainnet BY DEF SessionInv, BookInv
  <2>3. view \in {"delegations", "rewards"} => "book" \notin strayed
    BY <2>2 DEF OnMainnet
  <2>4. QED BY <2>1, <2>3 DEF Replayed, BookShown, ListShown, BooksMatch, Pools, Books
<1>2. QED BY <1>1, SessionInvariant, PTL
=============================================================================
