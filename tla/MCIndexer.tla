----------------------------- MODULE MCIndexer -----------------------------
(***************************************************************************)
(* An instance of the indexer for TLC: two pages of two events make the    *)
(* page budget, so that ledgers 4 and 5 together overrun it; the auction   *)
(* created in ledger 4 is filled in ledger 5 and created again in 6.       *)
(***************************************************************************)
EXTENDS Indexer, TLC

CONSTANTS pool, engine, other, t1, t2, t3

Event(l, n, a, t, c, d, u) ==
  [ledger |-> l, name |-> n, auction |-> a, tx |-> t, contract |-> c, data |-> d, user |-> u]

MCChain == <<
  Event(3, "Supply", 0, t1, pool, TRUE, FALSE),
  Event(4, "AuctionCreated", 0, t1, engine, TRUE, FALSE),
  Event(4, "Supply", 0, t2, pool, TRUE, TRUE),
  Event(4, "Repay", 0, t2, pool, FALSE, FALSE),
  Event(5, "AuctionFilled", 0, t3, engine, TRUE, FALSE),
  Event(5, "Withdraw", 0, t3, other, TRUE, TRUE),
  Event(6, "AuctionCreated", 0, t2, engine, TRUE, FALSE) >>

\* No ledger fills the page budget alone: a window cut inside its first ledger
\* would leave the checkpoint where it was (NextCheckpoint), for ever.
ASSUME NoBusyLedger == \A l \in 0..MaxLedger :
  Cardinality({e \in Events : LedgerOf(e) = l}) < EVENT_PAGE_SIZE * MAX_PAGES_PER_BATCH

MCContractIds == <<pool, engine, other>>
=============================================================================
