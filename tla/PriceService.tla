---------------------------- MODULE PriceService ----------------------------
(***************************************************************************)
(* The price of one asset as the server publishes it: services/oracle.ts   *)
(* behind GET /oracle/:asset, with the cached price of db/index.ts.        *)
(*                                                                         *)
(* A request asks the Reflector feed twice, once for itself and once for   *)
(* the price the "DEX" one is derived from; where the feed does not answer *)
(* the cached price stands in.  The larger of the two is published and     *)
(* becomes the cached price.  Requests overlap, and a query for the cached *)
(* price may return when another request has published.                    *)
(***************************************************************************)
EXTENDS Integers, FiniteSets, FiniteSetsExt

CONSTANTS
  FeedPrices,      \* what the feed may answer
  SeedPrices,      \* memoryStore's price of the asset, 0 if it has none
  DefaultPrice,    \* the hardcoded price
  Requests,
  MaxMoves,        \* bound on the changes of the feed and restarts
  MaxPublished     \* bound on the prices that are published

ASSUME PricesAssumption ==
  /\ FeedPrices \subseteq Nat \ {0} /\ SeedPrices \subseteq Nat /\ DefaultPrice \in Nat \ {0}
  /\ MaxMoves \in Nat /\ MaxPublished \in Nat

VARIABLES
  seed,            \* memoryStore's price when a process starts
  feed,            \* the feed's price; 0 when it does not answer
  cached,          \* memoryStore.prices, 0 for none
  stored,          \* the row of prices, 0 for none
  priceWrites,     \* upserts of the row under way
  asked,           \* the two prices of each request, and what each awaits
  known,           \* the prices there were, apart from the published ones
  published, feedMoves

priceVars == <<seed, feed, cached, stored, priceWrites, asked, known, published, feedMoves>>

\* A price: not asked for; the feed called; the row queried; the query run, with
\* the row's price or 0; there.
Legs == {"reflector", "twap"}
Asks == [at : {"idle", "feed", "query", "row", "there"}, price : Nat]
Idle == [k \in Legs |-> [at |-> "idle", price |-> 0]]
Fresh == [k \in Legs |-> [at |-> "feed", price |-> 0]]

PricesTypeOK ==
  /\ seed \in SeedPrices
  /\ feed \in FeedPrices \cup {0}
  /\ cached \in Nat /\ stored \in Nat /\ priceWrites \subseteq Nat
  /\ asked \in [Requests -> [Legs -> Asks]]
  /\ known \subseteq FeedPrices \cup SeedPrices \cup {DefaultPrice}
  /\ published \in 0..MaxPublished /\ feedMoves \in 0..MaxMoves

PricesInit ==
  /\ seed \in SeedPrices
  /\ feed \in FeedPrices \cup {0}
  /\ cached = seed /\ stored = 0 /\ priceWrites = {}
  /\ asked = [r \in Requests |-> Idle]
  /\ known = ({feed} \cup {IF seed = 0 THEN DefaultPrice ELSE seed}) \ {0}
  /\ published = 0 /\ feedMoves = 0
-----------------------------------------------------------------------------
Round(x) == (x + 500) \div 1000
\* getSoroswapPrice: at random from 0.2 % below to 0.2 % above, here one or the other.
TwapPrices(p) == {Round(p * 998), Round(p * 1002)}
LegPrices(k, p) == IF k = "twap" THEN TwapPrices(p) ELSE {p}

\* GET /oracle/:asset calls getAggregatedPrice, which asks for both prices.
GetPrice(r) ==
  /\ asked[r] = Idle
  /\ asked' = [asked EXCEPT ![r] = Fresh]
  /\ UNCHANGED <<seed, feed, cached, stored, priceWrites, known, published, feedMoves>>

Returns(r, k, p) ==
  \E price \in LegPrices(k, p) : asked' = [asked EXCEPT ![r][k] = [at |-> "there", price |-> price]]

\* getReflectorPrice: the feed's price; or the call fails, as one to a feed that
\* answers may, and getPrice returns memory's price or queries the row.
FeedAnswers(r, k) ==
  /\ asked[r][k].at = "feed"
  /\ \/ feed # 0 /\ Returns(r, k, feed)
     \/ cached # 0 /\ Returns(r, k, cached)
     \/ cached = 0 /\ asked' = [asked EXCEPT ![r][k].at = "query"]
  /\ UNCHANGED <<seed, feed, cached, stored, priceWrites, known, published, feedMoves>>

\* The query reads the row as it is then; or it fails, as if there were none.
QueryRuns(r, k) ==
  /\ asked[r][k].at = "query"
  /\ \E price \in {0, stored} : asked' = [asked EXCEPT ![r][k] = [at |-> "row", price |-> price]]
  /\ UNCHANGED <<seed, feed, cached, stored, priceWrites, known, published, feedMoves>>

\* getPrice has the row's price, which memory keeps whatever it has by now; with
\* none, getReflectorPrice returns the hardcoded one.
QueryReturns(r, k) ==
  /\ asked[r][k].at = "row"
  /\ LET row == asked[r][k].price IN
       /\ Returns(r, k, IF row = 0 THEN DefaultPrice ELSE row)
       /\ cached' = IF row = 0 THEN cached ELSE row
  /\ UNCHANGED <<seed, feed, stored, priceWrites, known, published, feedMoves>>

\* The middle of the two, sorted: the element at length / 2.
MedianOfFirst(a, b) == IF a < b THEN a ELSE b  \* mutant: the element before it
Median(a, b) == IF a < b THEN b ELSE a

\* upsertPrice(asset, median), when the snapshot was written or failed.
Publish(r) ==
  /\ \A k \in Legs : asked[r][k].at = "there"
  /\ LET median == Median(asked[r]["reflector"].price, asked[r]["twap"].price) IN
       /\ cached' = median
       /\ priceWrites' = priceWrites \cup {median}
  /\ asked' = [asked EXCEPT ![r] = Idle]
  /\ published < MaxPublished /\ published' = published + 1
  /\ UNCHANGED <<seed, feed, stored, known, feedMoves>>

\* The upsert of the row lands, in any order, or fails.
PriceWriteSettles(p) ==
  /\ p \in priceWrites
  /\ priceWrites' = priceWrites \ {p}
  /\ stored' \in {stored, p}
  /\ UNCHANGED <<seed, feed, cached, asked, known, published, feedMoves>>

\* The feed has a new price, or stops answering.
FeedMoves ==
  /\ feedMoves < MaxMoves /\ feedMoves' = feedMoves + 1
  /\ feed' \in (FeedPrices \cup {0}) \ {feed}
  /\ known' = (known \cup {feed'}) \ {0}
  /\ UNCHANGED <<seed, cached, stored, priceWrites, asked, published>>

\* The server starts again, with the memory it starts with.
PricesRestart ==
  /\ feedMoves < MaxMoves /\ feedMoves' = feedMoves + 1
  /\ cached' = seed /\ priceWrites' \in SUBSET priceWrites
  /\ asked' = [r \in Requests |-> Idle]
  /\ UNCHANGED <<seed, feed, stored, known, published>>

PricesNext ==
  \/ \E r \in Requests : GetPrice(r) \/ Publish(r)
  \/ \E r \in Requests, k \in Legs : FeedAnswers(r, k) \/ QueryRuns(r, k) \/ QueryReturns(r, k)
  \/ \E p \in priceWrites : PriceWriteSettles(p)
  \/ FeedMoves \/ PricesRestart
-----------------------------------------------------------------------------
\* The highest price n publications can make of p.
Ratchet(p, n) ==
  LET ratchet[i \in Nat] == IF i = 0 THEN p ELSE Round(ratchet[i - 1] * 1002)
  IN  ratchet[n]

\* However requests overlap, the feed fails or the server restarts, and though a
\* query may overwrite a price published since with the older row's, the cached
\* price never falls below all the prices the feed gave and the built-in one,
\* and rises above them by at most 0.2 % for each price that was published
\* (getAggregatedPrice publishes the larger price, made of the one it
\* published before when the feed does not answer).
PriceDrift ==
  cached # 0 =>
    /\ cached >= Min(known)
    /\ cached <= Ratchet(Max(known), published)
=============================================================================
