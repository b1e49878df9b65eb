------------------------------ MODULE Indexer ------------------------------
(***************************************************************************)
(* The event indexer of the API server (server/src/services/indexer.ts)    *)
(* over its database layer (server/src/db/index.ts).                       *)
(*                                                                         *)
(* The chain is an environment: a fixed sequence of contract events, of    *)
(* which those up to the latest ledger are visible.  The indexer is one    *)
(* process with a state per await of its polling loop.  Memory dies with   *)
(* the process; the database keeps what it wrote.  Each statement to the   *)
(* database may fail, and the code only logs that failure.  Each RPC call  *)
(* may fail, and is retried.  MaxFaults and MaxCrashes bound both.         *)
(* The admin page reads the checkpoint beside the indexer                  *)
(* (server/src/routes/admin.ts).                                           *)
(***************************************************************************)
EXTENDS Naturals, Sequences, FiniteSets, FiniteSetsExt

CONSTANTS
  Chain,                \* Seq of [ledger, name, auction, tx, contract, data, user]
  ContractIds,          \* the configured contracts, in order
  FirstLedger, MaxLedger,         \* first and last value of the latest ledger
  RETENTION,            \* how many ledgers back the RPC serves events
  LEDGER_SPAN, EVENT_PAGE_SIZE, MAX_PAGES_PER_BATCH, DEFAULT_LOOKBACK_LEDGERS,
  MAX_CONTRACT_IDS_PER_FILTER, MAX_FILTERS_PER_REQUEST,
  RETRIES,              \* retries of queryWithRetry
  MaxFaults, MaxCrashes

Events == DOMAIN Chain
LedgerOf(e) == Chain[e].ledger

ASSUME LedgersAssumption ==
  /\ FirstLedger \in Nat /\ MaxLedger \in Nat /\ FirstLedger <= MaxLedger
  /\ DEFAULT_LOOKBACK_LEDGERS \in Nat /\ DEFAULT_LOOKBACK_LEDGERS < FirstLedger
  /\ RETENTION \in Nat /\ DEFAULT_LOOKBACK_LEDGERS <= RETENTION
ASSUME SizesAssumption ==
  /\ LEDGER_SPAN \in Nat \ {0} /\ EVENT_PAGE_SIZE \in Nat \ {0}
  /\ MAX_PAGES_PER_BATCH \in Nat \ {0} /\ RETRIES \in Nat
  /\ MaxFaults \in Nat /\ MaxCrashes \in Nat
ASSUME ChainAssumption ==
  /\ IsFiniteSet(Events) /\ Events \subseteq Nat \ {0}
  /\ \A e \in Events : LedgerOf(e) \in Nat
  /\ \A d, e \in Events : d < e => LedgerOf(d) <= LedgerOf(e)

VARIABLES
  latest,         \* the chain's latest ledger
  admin,          \* the checkpoint a query of the admin page has read (0: none
                  \* under way), and whether such an answer set memory back
  \* The process: where its loop is, and the locals of indexNextBatch and
  \* fetchEvents.
  pc, latestSeen, startLedger, endLedger,
  cursor, page, complete,         \* of fetchEvents
  todo,           \* fetched events not processed yet
  lastLedgerSeen,
  attempts,       \* failed attempts of the RPC call under way
  \* Its memory: the connection found at start, the cached checkpoint
  \* (0: none).
  useDb, memCheckpoint,
  \* The database's tables.
  checkpoint,     \* checkpoints (0: no row)
  logged,         \* events: one row per event id
  transactions,   \* transactions: the event each row was written for
  auctions,       \* auctions: the row per id: NoRow, "active", "closed"
  dailyMetric,    \* daily_metrics: whether the day's row was counted
  \* Bounds and history.
  faults, crashes,
  affected,       \* events a failed statement was about
  jumped,         \* ledgers the checkpoint was moved over without a fetch
  readFailed,     \* a read of the checkpoint failed
  base            \* where the database's record starts

outside == <<latest, admin>>
batchVars == <<latestSeen, startLedger, endLedger, cursor, page, complete, todo,
               lastLedgerSeen>>
memVars == <<useDb, memCheckpoint>>
dbVars == <<checkpoint, logged, transactions, auctions, dailyMetric>>
history == <<affected, jumped, readFailed, base>>
vars == <<outside, pc, batchVars, attempts, memVars, dbVars, faults, crashes,
          history>>

NoRow == "none"
\* indexNextBatch returns or throws: its locals are gone.
EndBatch ==
  /\ latestSeen' = 0 /\ startLedger' = 0 /\ endLedger' = 0
  /\ cursor' = 0 /\ page' = 0 /\ complete' = FALSE
  /\ todo' = {} /\ lastLedgerSeen' = 0 /\ attempts' = 0

AuctionIds == {Chain[e].auction : e \in Events}
Moves == {"Supply", "Withdraw", "Borrow", "Repay"}

TypeOK ==
  /\ latest \in FirstLedger..MaxLedger
  /\ admin \in [read : 0..(latest + 1), late : BOOLEAN]
  /\ pc \in {"down", "sleep", "poll", "checkpoint", "fetch", "log", "apply", "save"}
  /\ dailyMetric \in {NoRow, "counted", "memory"}
  /\ latestSeen \in 0..latest /\ startLedger \in 0..latestSeen /\ endLedger \in 0..latestSeen
  /\ cursor \in Nat /\ page \in 0..MAX_PAGES_PER_BATCH /\ complete \in BOOLEAN
  /\ todo \subseteq Events /\ lastLedgerSeen \in 0..latestSeen /\ attempts \in 0..RETRIES
  /\ useDb \in BOOLEAN
  /\ memCheckpoint \in 0..(latest + 1) /\ checkpoint \in 0..(latest + 1)
  /\ logged \subseteq Events /\ transactions \subseteq Events
  /\ auctions \in [AuctionIds -> {NoRow, "active", "closed"}]
  /\ faults \in Nat /\ crashes \in Nat
  /\ affected \subseteq Events /\ jumped \subseteq Nat /\ readFailed \in BOOLEAN /\ base \in Nat

Init ==
  /\ latest = FirstLedger /\ admin = [read |-> 0, late |-> FALSE]
  /\ pc = "down"
  /\ latestSeen = 0 /\ startLedger = 0 /\ endLedger = 0
  /\ cursor = 0 /\ page = 0 /\ complete = FALSE
  /\ todo = {} /\ lastLedgerSeen = 0 /\ attempts = 0
  /\ useDb = FALSE /\ memCheckpoint = 0
  /\ checkpoint = 0 /\ logged = {} /\ transactions = {}
  /\ auctions = [a \in AuctionIds |-> NoRow] /\ dailyMetric = NoRow
  /\ faults = 0 /\ crashes = 0
  /\ affected = {} /\ jumped = {} /\ readFailed = FALSE /\ base = 0
-----------------------------------------------------------------------------
(* The database layer.  ok says whether the statement succeeds; a failure  *)
(* costs a fault.  Without a connection there is no statement to fail.     *)

Statement(ok) ==
  \/ ok /\ faults' = faults
  \/ ~ok /\ useDb /\ faults < MaxFaults /\ faults' = faults + 1

\* The value a table takes when a statement that would make it new is run.
Written(ok, old, new) == IF useDb /\ ok THEN new ELSE old

\* Memory first; then the database, whose answer is cached; null (0) when
\* there is no row and also when the query fails.
GetCheckpoint(ok) ==
  IF memCheckpoint # 0 THEN memCheckpoint
  ELSE IF useDb /\ ok THEN checkpoint ELSE 0

UpsertCheckpoint(ok, ledger) ==
  /\ memCheckpoint' = ledger
  /\ checkpoint' = Written(ok, checkpoint, ledger)

\* One row per event id, however often the event is logged.
DbLogEvent(ok, e) == logged' = Written(ok, logged, logged \cup {e})

DbUpsertAuction(ok, a) ==
  auctions' = Written(ok, auctions, [auctions EXCEPT ![a] = "active"])

\* db.query with the UPDATE of an AuctionFilled: only the database's row.
DbCloseAuction(ok, a) ==
  auctions' = Written(ok, auctions,
    [auctions EXCEPT ![a] = IF @ = NoRow THEN NoRow ELSE "closed"])

\* db.query with the INSERT of a transaction: the hash is unique.
DbInsertTransaction(ok, e) ==
  transactions' = Written(ok, transactions,
    IF \E d \in transactions : Chain[d].tx = Chain[e].tx THEN transactions
    ELSE transactions \cup {e})
-----------------------------------------------------------------------------
(* The RPC server. *)

\* The contracts a request asks for: the first that fit its filters.
Watched == {ContractIds[i] : i \in
  {j \in DOMAIN ContractIds : j <= MAX_CONTRACT_IDS_PER_FILTER * MAX_FILTERS_PER_REQUEST}}

OldestLedger == IF latest > RETENTION THEN latest - RETENTION ELSE 0

Within(e, lo, hi) == Chain[e].contract \in Watched /\ lo <= LedgerOf(e) /\ LedgerOf(e) <= hi

\* The n first events of a set.
FirstOf(S, n) == {e \in S : Cardinality({d \in S : d < e}) < n}

\* A page: the first request has a ledger range, a later one only a cursor.
PageEvents == FirstOf(
  IF cursor = 0 THEN {e \in Events : Within(e, startLedger, endLedger)}
  ELSE {e \in Events : e > cursor /\ Within(e, 0, latest)},
  EVENT_PAGE_SIZE)

\* isOutOfRetention: the start of the range is no longer served.
OutOfRetention == cursor = 0 /\ startLedger < OldestLedger
-----------------------------------------------------------------------------
(* The loop. *)

\* The end of the window that starts at a ledger.
WindowEnd(from) == Min({from + LEDGER_SPAN, latestSeen})

\* The server boots: it tries the database once, for its whole life, and
\* starts the loop.
Start ==
  /\ pc = "down"
  /\ \/ useDb' = TRUE /\ faults' = faults
     \/ useDb' = FALSE /\ faults < MaxFaults /\ faults' = faults + 1
  /\ pc' = "poll"
  /\ UNCHANGED <<outside, batchVars, attempts, memCheckpoint, dbVars, crashes, history>>

\* indexNextBatch asks for the latest ledger.
Poll ==
  /\ pc = "poll"
  /\ latestSeen' = latest
  /\ pc' = "checkpoint" /\ attempts' = 0
  /\ UNCHANGED <<outside, startLedger, endLedger, cursor, page, complete, todo,
                 lastLedgerSeen, memVars, dbVars, faults, crashes, history>>

\* It reads the checkpoint and sets the window up, or returns.
ReadCheckpoint ==
  /\ pc = "checkpoint"
  /\ \E ok \in BOOLEAN :
       /\ Statement(ok) /\ (~ok => memCheckpoint = 0)
       /\ LET saved == GetCheckpoint(ok)
              from == IF saved = 0 THEN latestSeen - DEFAULT_LOOKBACK_LEDGERS ELSE saved
          IN
            /\ memCheckpoint' = saved
            /\ base' = IF saved = 0 /\ useDb /\ checkpoint = 0 THEN from ELSE base
            /\ jumped' = IF saved = 0 /\ useDb /\ checkpoint # 0
                         THEN jumped \cup checkpoint..(from - 1) ELSE jumped
            /\ readFailed' = (readFailed \/ ~ok)
            /\ \/ /\ from >= latestSeen
                  /\ pc' = "sleep" /\ EndBatch
               \/ /\ from < latestSeen
                  /\ pc' = "fetch"
                  /\ startLedger' = from
                  /\ endLedger' = WindowEnd(from)
                  /\ cursor' = 0 /\ page' = 0 /\ complete' = FALSE /\ todo' = {}
                  /\ lastLedgerSeen' = from
                  /\ UNCHANGED <<latestSeen, attempts>>
  /\ UNCHANGED <<outside, useDb, checkpoint,
                 logged, transactions, auctions, dailyMetric, crashes, affected>>

\* fetchEvents takes a page; the last one ends the fetch.
FetchPage ==
  /\ pc = "fetch" /\ ~OutOfRetention
  /\ LET pageEvents == PageEvents
         inWindow == {e \in pageEvents : LedgerOf(e) <= endLedger}
         last == Cardinality(pageEvents) < EVENT_PAGE_SIZE \/ inWindow # pageEvents
     IN
       /\ todo' = todo \cup inWindow
       /\ complete' = last
       /\ \/ /\ last \/ page + 1 = MAX_PAGES_PER_BATCH
             /\ pc' = "log" /\ cursor' = 0 /\ page' = 0
          \/ /\ ~last /\ page + 1 < MAX_PAGES_PER_BATCH
             /\ pc' = pc /\ cursor' = Max(pageEvents) /\ page' = page + 1
  /\ attempts' = 0
  /\ UNCHANGED <<outside, latestSeen, startLedger, endLedger, lastLedgerSeen, memVars, dbVars, faults,
                 crashes, history>>

\* The window starts below what the RPC still has: the checkpoint is moved
\* up to the default lookback and the batch ends.
SkipAhead ==
  /\ pc = "fetch" /\ OutOfRetention
  /\ \E ok \in BOOLEAN :
       /\ Statement(ok)
       /\ UpsertCheckpoint(ok, latestSeen - DEFAULT_LOOKBACK_LEDGERS)
  /\ jumped' = jumped \cup startLedger..(latestSeen - DEFAULT_LOOKBACK_LEDGERS - 1)
  /\ pc' = "sleep" /\ EndBatch
  /\ UNCHANGED <<outside, useDb, logged, transactions, auctions, dailyMetric,
                 crashes, affected, readFailed, base>>

\* queryWithRetry: the call fails; it is tried again, unless the error is
\* one a retry does not cure or the retries are used up.
QueryFails ==
  /\ pc \in {"poll", "fetch"} /\ faults < MaxFaults
  /\ faults' = faults + 1
  /\ \/ /\ attempts < RETRIES
        /\ attempts' = attempts + 1
        /\ UNCHANGED <<pc, batchVars>>
     \/ pc' = "sleep" /\ EndBatch
  /\ UNCHANGED <<outside, memVars, dbVars, crashes, history>>

\* The batch is processed in the chain's order.
NextEventNewest == Max(todo)  \* mutant: newest first
NextEvent == Min(todo)

\* processEvent, first await: the event is logged.
LogEvent ==
  /\ pc = "log" /\ todo # {}
  /\ LET e == NextEvent IN
       \E ok \in BOOLEAN :
         /\ Statement(ok) /\ DbLogEvent(ok, e)
         /\ affected' = IF ok THEN affected ELSE affected \cup {e}
  /\ pc' = "apply"
  /\ UNCHANGED <<outside, batchVars, attempts, memVars, checkpoint, transactions,
                 auctions, dailyMetric, crashes, jumped, readFailed, base>>

\* processEvent, the rest: the state update of the event's kind.  An event
\* without data throws, and the batch goes on without it; a move whose data name
\* no user writes nothing.
ApplyEvent ==
  /\ pc = "apply"
  /\ LET e == NextEvent
         kind == Chain[e].name
         throws == ~Chain[e].data /\ kind \in Moves \cup {"AuctionCreated", "AuctionFilled"}
         writes == ~throws /\ (kind \in Moves => Chain[e].user)
         applies(ok) ==
           /\ \/ kind \in Moves /\ writes
                 /\ DbInsertTransaction(ok, e) /\ UNCHANGED auctions
              \/ kind = "AuctionCreated" /\ writes
                 /\ DbUpsertAuction(ok, Chain[e].auction) /\ UNCHANGED transactions
              \/ kind = "AuctionFilled" /\ writes
                 /\ DbCloseAuction(ok, Chain[e].auction) /\ UNCHANGED transactions
              \/ (kind \notin Moves \cup {"AuctionCreated", "AuctionFilled"} \/ ~writes)
                 /\ ok /\ UNCHANGED <<transactions, auctions>>
     IN
       /\ \E ok \in BOOLEAN :
            /\ Statement(ok) /\ applies(ok)
            /\ affected' = IF ok THEN affected ELSE affected \cup {e}
       /\ todo' = todo \ {e}
       /\ lastLedgerSeen' = IF throws THEN lastLedgerSeen
                            ELSE Max({lastLedgerSeen, LedgerOf(e)})
  /\ pc' = "log"
  /\ UNCHANGED <<outside, latestSeen, startLedger, endLedger, cursor, page, complete,
                 attempts, memVars, checkpoint, logged, dailyMetric, crashes, jumped,
                 readFailed, base>>

\* The checkpoint passes the window or, when the page budget cut it short,
\* stays at the last ledger seen.
NextCheckpointPastWindow == endLedger + 1  \* mutant: ignores the cut
NextCheckpointAtStart ==                  \* mutant: scans a cut window again
  IF complete THEN endLedger + 1 ELSE startLedger
NextCheckpoint == IF complete THEN endLedger + 1 ELSE lastLedgerSeen

\* getStats counts rows or, when a query fails, what memory has (or 12 users and
\* 45 transactions).
GetStats(ok) == IF ok THEN "counted" ELSE "memory"

RecordDailyMetric(ok, stats) == dailyMetric' = Written(ok, dailyMetric, stats)

\* syncLiveState, after the last event.  The pool has no get_market_state, so no
\* market is written; the day's row takes whatever getStats returned.
SyncLiveState ==
  /\ pc = "log" /\ todo = {}
  /\ \E failed \in {"none", "getStats", "recordDailyMetric"} :
       /\ Statement(failed = "none")
       /\ RecordDailyMetric(failed # "recordDailyMetric", GetStats(failed # "getStats"))
  /\ pc' = "save"
  /\ UNCHANGED <<outside, batchVars, attempts, memVars, checkpoint, logged, transactions,
                 auctions, crashes, history>>

\* The checkpoint is saved.
SaveCheckpoint ==
  /\ pc = "save"
  /\ \E ok \in BOOLEAN :
       /\ Statement(ok)
       /\ UpsertCheckpoint(ok, NextCheckpoint)
  /\ pc' = "sleep" /\ EndBatch
  /\ UNCHANGED <<outside, useDb, logged, transactions, auctions, dailyMetric,
                 crashes, history>>

\* The pause between two batches.
Sleep ==
  /\ pc = "sleep"
  /\ pc' = "poll"
  /\ UNCHANGED <<outside, batchVars, attempts, memVars, dbVars, faults, crashes, history>>

\* The process ends anywhere; the database stays.
Crash ==
  /\ pc # "down" /\ crashes < MaxCrashes
  /\ crashes' = crashes + 1
  /\ pc' = "down"
  /\ EndBatch
  /\ useDb' = FALSE /\ memCheckpoint' = 0 /\ admin' = [admin EXCEPT !.read = 0]
  /\ UNCHANGED <<latest, dbVars, faults, history>>

LedgerCloses ==
  /\ latest < MaxLedger /\ latest' = latest + 1
  /\ UNCHANGED <<admin, pc, batchVars, attempts, memVars, dbVars, faults, crashes, history>>

\* GET /admin/indexer calls getCheckpoint too.  Its query reads the row ...
AdminReads ==
  /\ pc # "down" /\ useDb /\ memCheckpoint = 0 /\ admin.read = 0
  /\ admin' = [admin EXCEPT !.read = checkpoint]
  /\ UNCHANGED <<latest, pc, batchVars, attempts, memVars, dbVars, faults, crashes, history>>

\* ... and its answer becomes memory's checkpoint, whatever that is by then.
AdminAnswered ==
  /\ admin.read # 0
  /\ memCheckpoint' = admin.read
  /\ admin' = [read |-> 0, late |-> admin.late \/ memCheckpoint > admin.read]
  /\ UNCHANGED <<latest, pc, batchVars, attempts, useDb, dbVars, faults, crashes, history>>
-----------------------------------------------------------------------------
IndexerStep ==
  \/ Poll \/ ReadCheckpoint \/ FetchPage \/ SkipAhead \/ LogEvent \/ ApplyEvent
  \/ SyncLiveState \/ SaveCheckpoint \/ Sleep

Next ==
  Start \/ IndexerStep \/ QueryFails \/ Crash \/ LedgerCloses \/ AdminReads \/ AdminAnswered

\* The event loop runs a pending callback sooner or later, and sleep is a
\* timer: the loop's own steps are fair.  Boots, failures, crashes and the
\* chain are not.
Spec == Init /\ [][Next]_vars /\ WF_vars(IndexerStep)
-----------------------------------------------------------------------------
(* Properties. *)

\* A row of the events table exists for every event of a watched contract
\* between the start of the record and the saved checkpoint, except where a
\* statement failed or the checkpoint was moved without a fetch: neither a
\* crash between two awaits, nor a window cut by the page budget, nor pages
\* that run past the window lose an event (indexer.ts, indexNextBatch and
\* fetchEvents).
NothingMissed ==
  \A e \in Events :
    /\ Chain[e].contract \in Watched
    /\ base <= LedgerOf(e) /\ LedgerOf(e) < checkpoint
    => e \in logged \cup affected \/ LedgerOf(e) \in jumped

\* The logged events of an auction's row.
Indexed(a) == {e \in logged : /\ Chain[e].auction = a /\ Chain[e].data
                              /\ Chain[e].name \in {"AuctionCreated", "AuctionFilled"}}

\* Types hold, and once the saved checkpoint has passed the logged events of a
\* row, the row is active exactly when the last of them is a creation: a replay
\* after a crash reopens a filled auction, but the checkpoint does not pass
\* before the replay has closed it again (the comment "Idempotent State
\* Updates", indexer.ts:251).  A row a failed statement was about is excepted,
\* as are ledgers jumped over, a record whose checkpoint could not be read,
\* which the code takes for one that has none yet, and one whose checkpoint in
\* memory a late answer to the admin page set back: a crash in the replay that
\* follows leaves a filled auction active for good, for the row is past the
\* replay.
RowsFollowTheLog ==
  /\ TypeOK
  /\ \A a \in AuctionIds :
       LET past == Indexed(a) IN
         /\ past # {}
         /\ \A e \in past : base <= LedgerOf(e) /\ LedgerOf(e) < checkpoint
                             /\ LedgerOf(e) \notin jumped
         /\ \A e \in affected : Chain[e].auction # a
         /\ ~readFailed /\ ~admin.late
         => (auctions[a] = "active" <=> Chain[Max(past)].name = "AuctionCreated")

\* When the chain rests, a running indexer comes to rest with a checkpoint at
\* its end, whatever failed or crashed before: no window is retried forever
\* (indexer.ts, runLoop and the checkpoint a cut window leaves).
CatchesUp == (latest = MaxLedger /\ pc # "down") ~> (pc = "down" \/ memCheckpoint >= MaxLedger)
=============================================================================
