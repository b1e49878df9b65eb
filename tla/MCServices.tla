---------------------------- MODULE MCServices ----------------------------
(* Two proposals of governance and two voters, either of them a quorum; two *)
(* feeds, in lists of up to three, whose prices are within, at and past 20% *)
(* of each other, of an asset with or without a built-in price; two holders *)
(* of a token with a supply of up to two; two of the server's proposals     *)
(* beside one that is built in, with up to three of its requests and        *)
(* upserts under way; two price requests at a time of an asset with or      *)
(* without a price in memory, whose feed answers or not; three users of the *)
(* faucet; two auctions of one borrower and two cycles of the filler, which *)
(* make up to three records.                                                *)
EXTENDS Services, TLC

CONSTANTS t1, t2, r1, r2, u1, u2, u3, a1, a2, c1, c2, v1, v2, market, f1, f2, h1, h2

MCVoters == {v1, v2}
MCTargets == {market}
MCTypes == {"MarketPauseResume", "RiskParamUpdate"}
MCFeeds == {f1, f2}
MCBuiltInPrices == {0, 120}
MCQuotePrices == {0, 100, 120, 121}
MCHolders == {h1, h2}
MCTitles == {t1, t2}
MCSeeds == {1}
MCFeedPrices == {1000}
MCSeedPrices == {0, 1150}
MCRequests == {r1, r2}
MCUsers == {u1, u2, u3}
MCAuctions == {a1, a2}
MCCycles == {c1, c2}

\* States with more calls under way, mishaps or records are not followed further.
MCConstraint ==
  LET underWay == Cardinality(loads) + Cardinality(posts) + Cardinality(writes) IN
    /\ underWay <= 2 /\ underWay + failures + restarts <= 3
    /\ published + feedMoves <= 2
    /\ Len(records) <= 2

Symmetry == Permutations(MCTitles) \cup Permutations(MCRequests)
=============================================================================
