--------------------------- MODULE OracleAggregator ---------------------------
(***************************************************************************)
(* The oracle aggregator, for one asset: its feeds, get_price with the     *)
(* median of the fresh ones and the circuit breaker.  No call concerns two *)
(* assets.                                                                 *)
(*                                                                         *)
(* The feeds are outside: each has a price (0 or less: none that counts)   *)
(* of some age.  The ledger drops what a call wrote before it returned an  *)
(* error.                                                                  *)
(***************************************************************************)
EXTENDS Integers, Sequences, FiniteSets, SequencesExt

CONSTANTS
  Feeds,
  QuotePrices,     \* what feeds answer; 0 also stands for a failing feed
  BuiltInPrices,   \* what may be built in for the asset, 0 for no price
  MaxStaleness,    \* 300 s
  MaxFeeds         \* bound on the list

ASSUME OracleAssumption ==
  /\ BuiltInPrices \subseteq Nat /\ QuotePrices \subseteq Int
  /\ MaxStaleness \in Nat /\ MaxFeeds \in Nat

MaxDeviationBps == 2000

VARIABLES
  builtIn,         \* the asset's built-in price, fixed in the code
  oracleAdmin,     \* initialize was called
  feeds, tripped, lastGood,
  quotes,          \* what each feed answers
  outcome,         \* history: the last step, if it was a get_price
  byHand           \* history: tripped by a call since the last override

oracleVars == <<builtIn, oracleAdmin, feeds, tripped, lastGood, quotes, outcome, byHand>>

NoOutcome == [kind |-> "none", price |-> 0]

OracleTypeOK ==
  /\ builtIn \in BuiltInPrices
  /\ oracleAdmin \in BOOLEAN /\ tripped \in BOOLEAN /\ byHand \in BOOLEAN
  /\ feeds \in Seq(Feeds) /\ Len(feeds) <= MaxFeeds
  /\ lastGood \in Nat
  /\ quotes \in [Feeds -> [price : QuotePrices, age : 0..(MaxStaleness + 1)]]
  /\ outcome \in [kind : {"none", "price", "error"}, price : Nat]

OracleInit ==
  /\ builtIn \in BuiltInPrices
  /\ oracleAdmin = FALSE /\ feeds = <<>> /\ tripped = FALSE /\ lastGood = 0
  /\ quotes \in [Feeds -> [price : QuotePrices, age : {0}]]
  /\ outcome = NoOutcome /\ byHand = FALSE
-----------------------------------------------------------------------------
(* get_price. *)

\* The prices of the feeds, in the list's order, that are positive and young.
FreshPrices ==
  LET fresh[i \in 0..Len(feeds)] ==
        IF i = 0 THEN <<>>
        ELSE LET quote == quotes[feeds[i]]
             IN  IF quote.price > 0 /\ quote.age <= MaxStaleness
                 THEN Append(fresh[i - 1], quote.price) ELSE fresh[i - 1]
  IN fresh[Len(feeds)]

\* One round of the insertion sort: what is larger than the key moves up, until
\* the last entry that is not.
Inserted(sorted, key) ==
  LET place == Max({0} \cup {j \in DOMAIN sorted : sorted[j] <= key})
  IN  [j \in 1..(Len(sorted) + 1) |-> IF j <= place THEN sorted[j]
                                      ELSE IF j = place + 1 THEN key ELSE sorted[j - 1]]

LowerMedian(prices) ==
  LET sorted[i \in 0..Len(prices)] ==
        IF i = 0 THEN <<>> ELSE Inserted(sorted[i - 1], prices[i])
  IN sorted[Len(prices)][(Len(prices) + 1) \div 2]

\* A price in the middle of a list: at most half of the entries are below it,
\* and at least half are not above it.
Middle(p, prices) ==
  /\ p \in ToSet(prices)
  /\ 2 * Cardinality({i \in DOMAIN prices : prices[i] < p}) < Len(prices)
  /\ 2 * Cardinality({i \in DOMAIN prices : prices[i] <= p}) >= Len(prices)

DeviatesAtLimit(price, median) ==              \* mutant: >= 20%
  (IF price > median THEN price - median ELSE median - price) * 10000
    >= median * MaxDeviationBps
Deviates(price, median) ==
  (IF price > median THEN price - median ELSE median - price) * 10000
    > median * MaxDeviationBps

Error(trips) == [ok |-> FALSE, price |-> 0, tripped |-> trips, lastGood |-> lastGood]
Price(p) == [ok |-> TRUE, price |-> p, tripped |-> FALSE, lastGood |-> p]

\* What the handler returns, and what it has written by then.
GetPriceResult ==
  LET prices == FreshPrices
      median == LowerMedian(prices)
  IN CASE tripped -> Error(TRUE)
       [] ~tripped /\ prices = <<>> -> IF builtIn = 0 THEN Error(FALSE) ELSE Price(builtIn)
       [] OTHER -> IF \E i \in DOMAIN prices : Deviates(prices[i], median)
                   THEN Error(TRUE) ELSE Price(median)

\* The ledger keeps the writes of a call that returned a value.
Kept(result) == IF result.ok THEN result
                ELSE [result EXCEPT !.tripped = tripped, !.lastGood = lastGood]

OracleGetPrice ==
  LET result == GetPriceResult IN
  /\ tripped' = Kept(result).tripped /\ lastGood' = Kept(result).lastGood
  /\ outcome' = [kind |-> IF result.ok THEN "price" ELSE "error", price |-> result.price]
  /\ UNCHANGED <<builtIn, oracleAdmin, feeds, quotes, byHand>>
-----------------------------------------------------------------------------
(* The other calls; the admin's but for the second. *)

OracleInitialize ==
  /\ ~oracleAdmin /\ oracleAdmin' = TRUE /\ outcome' = NoOutcome
  /\ UNCHANGED <<builtIn, feeds, tripped, lastGood, quotes, byHand>>

\* trip_circuit_breaker is anyone's.
TripCircuitBreaker ==
  /\ tripped' = TRUE /\ byHand' = TRUE /\ outcome' = NoOutcome
  /\ UNCHANGED <<builtIn, oracleAdmin, feeds, lastGood, quotes>>

ConfirmPause ==
  /\ oracleAdmin
  /\ tripped' = TRUE /\ byHand' = TRUE /\ outcome' = NoOutcome
  /\ UNCHANGED <<builtIn, oracleAdmin, feeds, lastGood, quotes>>

RegisterFeed(feed) ==
  /\ oracleAdmin /\ feed \notin ToSet(feeds) /\ Len(feeds) < MaxFeeds
  /\ feeds' = Append(feeds, feed) /\ outcome' = NoOutcome
  /\ UNCHANGED <<builtIn, oracleAdmin, tripped, lastGood, quotes, byHand>>

\* The new list is taken as it comes, repetitions included.
OverrideWithNewFeeds(list) ==
  /\ oracleAdmin
  /\ feeds' = list /\ tripped' = FALSE /\ byHand' = FALSE /\ outcome' = NoOutcome
  /\ UNCHANGED <<builtIn, oracleAdmin, lastGood, quotes>>

\* A feed is given a price.
Quotes(feed, price) ==
  /\ quotes' = [quotes EXCEPT ![feed] = [price |-> price, age |-> 0]]
  /\ outcome' = NoOutcome
  /\ UNCHANGED <<builtIn, oracleAdmin, feeds, tripped, lastGood, byHand>>

\* Time passes; ages stop where a quote is stale.
QuotesAge ==
  /\ quotes' = [f \in Feeds |-> [quotes[f] EXCEPT !.age = IF @ > MaxStaleness THEN @ ELSE @ + 1]]
  /\ outcome' = NoOutcome
  /\ UNCHANGED <<builtIn, oracleAdmin, feeds, tripped, lastGood, byHand>>

OracleNext ==
  \/ OracleGetPrice \/ OracleInitialize \/ TripCircuitBreaker \/ ConfirmPause
  \/ \E feed \in Feeds : RegisterFeed(feed)
  \/ \E list \in BoundedSeq(Feeds, MaxFeeds) : OverrideWithNewFeeds(list)
  \/ \E feed \in Feeds, price \in QuotePrices : Quotes(feed, price)
  \/ QuotesAge
-----------------------------------------------------------------------------
\* What the entries of the list say that count, by the definition.
Said == LET counted == {i \in DOMAIN feeds :
                         quotes[feeds[i]].price > 0 /\ quotes[feeds[i]].age <= MaxStaleness}
        IN {quotes[feeds[i]].price : i \in counted}

\* A call of get_price that answers was not held up by a hand-tripped breaker,
\* stores its answer as the last good price, and answers as follows: with fresh
\* feeds, were it a single one, a price in the middle of theirs and within 20% of
\* each; with none, the price built in for the asset, whatever was good before.
\* It fails only for a breaker that was tripped by hand since the last override,
\* for fresh feeds that disagree by more than 20%, or with no fresh feed for an
\* asset without a built-in price, and a failure leaves nothing behind: there is
\* no quorum and no breaker that stays up by itself (get_price, median, and the
\* rollback of a failed call).
ReadsAnswer ==
  LET agree(p) == \A q \in Said : 5 * q <= 6 * p /\ 5 * q >= 4 * p
      middles == {p \in Said : Middle(p, FreshPrices)}
  IN /\ outcome.kind = "price" =>
          /\ ~byHand /\ lastGood = outcome.price
          /\ IF Said = {} THEN outcome.price = builtIn /\ builtIn # 0
             ELSE outcome.price \in middles /\ agree(outcome.price)
     /\ outcome.kind = "error" =>
          \/ byHand
          \/ Said = {} /\ builtIn = 0
          \/ \E p \in middles : ~agree(p)
=============================================================================
