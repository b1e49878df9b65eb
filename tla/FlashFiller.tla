----------------------------- MODULE FlashFiller -----------------------------
(***************************************************************************)
(* The keepers' flash loan filler, keepers/src/flashLoanFiller.ts, with    *)
(* the liquidator's triggerAuction, over auctions and positions in the     *)
(* process's memory and in the database (server/src/db/index.ts).          *)
(*                                                                         *)
(* One borrower, with a market it owes to and one it has collateral in;    *)
(* each auction sells one unit.  Nothing keeps a cycle from beginning      *)
(* while an earlier one still awaits the database: Cycles are those under  *)
(* way at a time.  The records of the collateral that memory hands out are *)
(* shared: a cycle changes the one it holds, and memory then keeps a copy. *)
(***************************************************************************)
EXTENDS Naturals, Sequences, FiniteSets

CONSTANTS
  Auctions,
  Cycles,          \* cycles that may be under way together
  MaxCollateral,   \* the borrower's collateral at the start
  MaxTroubles      \* bound on database calls that fail, replays and restarts

ASSUME FillerAssumption == MaxCollateral \in Nat /\ MaxTroubles \in Nat /\ "none" \notin Auctions

VARIABLES
  \* The process: memoryStore and the cycles.
  memAuctions,
  records,         \* collateral records the process made, by what they say is supplied
  memRecord,       \* the one memoryStore.positions has, 0 for none
  todo,            \* of each cycle, active auctions it has yet to reach
  fill,            \* of each cycle, the auction in hand and the call it awaits
  opening,         \* auctions whose first row is being written
  \* The database.
  dbAuctions, dbSupplied, dbBorrowed,
  \* Bounds and history.
  troubles,
  settled, twice,  \* auctions whose collateral was taken, and more than once
  taken,           \* how often collateral was taken
  contested,       \* listed while a cycle had it, or its row not closed or written again
  crossed,         \* two cycles had the position in hand
  spoiled          \* a position's call failed, or the process stopped within a fill

fillerVars == <<memAuctions, records, memRecord, todo, fill, opening, dbAuctions, dbSupplied,
                dbBorrowed, troubles, settled, twice, taken, contested, crossed, spoiled>>

AuctionRows == {"none", "active", "closed"}
Fills == [at : {"idle", "close", "select", "row", "debt", "collateral"},
          auction : Auctions \cup {"none"}, record : Nat, supplied : 0..MaxCollateral]
NoFill == [at |-> "idle", auction |-> "none", record |-> 0, supplied |-> 0]

FillerTypeOK ==
  /\ memAuctions \in [Auctions -> AuctionRows] /\ dbAuctions \in [Auctions -> AuctionRows]
  /\ records \in Seq(0..MaxCollateral) /\ memRecord \in 0..Len(records)
  /\ todo \in [Cycles -> SUBSET Auctions] /\ fill \in [Cycles -> Fills]
  /\ \A c \in Cycles : fill[c].at = "debt" => fill[c].record \in 1..Len(records)
  /\ opening \subseteq Auctions /\ settled \subseteq Auctions /\ twice \subseteq Auctions
  /\ contested \subseteq Auctions
  /\ dbSupplied \in 0..MaxCollateral /\ dbBorrowed \in 0..1
  /\ troubles \in 0..MaxTroubles /\ taken \in Nat
  /\ crossed \in BOOLEAN /\ spoiled \in BOOLEAN

FillerInit ==
  /\ memAuctions = [a \in Auctions |-> "none"] /\ records = <<>> /\ memRecord = 0
  /\ todo = [c \in Cycles |-> {}] /\ fill = [c \in Cycles |-> NoFill] /\ opening = {}
  /\ dbAuctions = [a \in Auctions |-> "none"]
  /\ dbSupplied = MaxCollateral /\ dbBorrowed = 1
  /\ troubles = 0 /\ taken = 0 /\ settled = {} /\ twice = {} /\ contested = {}
  /\ crossed = FALSE /\ spoiled = FALSE

Counted == troubles < MaxTroubles /\ troubles' = troubles + 1
Trouble == Counted /\ spoiled' = TRUE
NoTrouble == UNCHANGED <<troubles, spoiled>>
positionVars == <<records, memRecord, dbSupplied, dbBorrowed, settled, twice, taken, crossed>>
-----------------------------------------------------------------------------
\* triggerAuction: an auction in memory, whose row is being written.
TriggerAuction(a) ==
  /\ dbAuctions[a] = "none" /\ memAuctions[a] = "none" /\ a \notin opening
  /\ memAuctions' = [memAuctions EXCEPT ![a] = "active"]
  /\ opening' = opening \cup {a}
  /\ UNCHANGED <<positionVars, todo, fill, dbAuctions, troubles, contested, spoiled>>

\* The upsert of a new row lands, active whatever the row was, or fails.
OpeningSettles(a) ==
  /\ a \in opening /\ opening' = opening \ {a}
  /\ \/ dbAuctions' = [dbAuctions EXCEPT ![a] = "active"] /\ NoTrouble
     \/ UNCHANGED dbAuctions /\ Counted /\ UNCHANGED spoiled
  /\ contested' = IF dbAuctions[a] = "none" THEN contested ELSE contested \cup {a}
  /\ UNCHANGED <<positionVars, memAuctions, todo, fill>>

\* The indexer's process writes a row: a new auction, or one it replays or that
\* was filled on the chain.
IndexerWrites(a, row) ==
  /\ \/ dbAuctions[a] = "none" /\ row = "active" /\ UNCHANGED <<troubles, contested>>
     \/ dbAuctions[a] # "none" /\ row # "none" /\ Counted /\ contested' = contested \cup {a}
  /\ dbAuctions' = [dbAuctions EXCEPT ![a] = row]
  /\ UNCHANGED <<positionVars, memAuctions, todo, fill, opening, spoiled>>

Active(rows) == {a \in Auctions : rows[a] = "active"}

Has(c, a) == a \in todo[c] \/ fill[c].auction = a

\* The timer fires: a cycle lists the active auctions (getAllAuctions), memory's
\* if the database fails, whether or not earlier cycles are over.
CycleBegins(c) ==
  /\ todo[c] = {} /\ fill[c] = NoFill
  /\ \E list \in SUBSET Auctions :
       /\ \/ list = Active(dbAuctions) /\ NoTrouble
          \/ list = Active(memAuctions) /\ Counted /\ UNCHANGED spoiled
       /\ todo' = [todo EXCEPT ![c] = list]
       /\ contested' = contested \cup {a \in list : \E d \in Cycles : Has(d, a)}
  /\ UNCHANGED <<positionVars, memAuctions, fill, opening, dbAuctions>>

\* auction.active = false and upsertAuction: memory at once, then the row.
CloseAuction(c, a) ==
  /\ fill[c] = NoFill /\ a \in todo[c]
  /\ memAuctions' = [memAuctions EXCEPT ![a] = "closed"]
  /\ todo' = [todo EXCEPT ![c] = @ \ {a}]
  /\ fill' = [fill EXCEPT ![c].at = "close", ![c].auction = a]
  /\ UNCHANGED <<positionVars, opening, dbAuctions, troubles, contested, spoiled>>

PositionInHand(c) == fill[c].at \in {"select", "row", "debt", "collateral"}

\* The row is closed, or the call fails, and getPositions returns the record
\* memory has or asks the table.  With a record, debtPos.borrowed = 0 and
\* upsertPosition.
CloseSettles(c) ==
  /\ fill[c].at = "close"
  /\ \/ /\ dbAuctions' = [dbAuctions EXCEPT ![fill[c].auction] = "closed"]
        /\ NoTrouble /\ UNCHANGED contested
     \/ /\ UNCHANGED <<dbAuctions, spoiled>> /\ Counted
        /\ contested' = contested \cup {fill[c].auction}
  /\ fill' = [fill EXCEPT ![c].at = IF memRecord = 0 THEN "select" ELSE "debt",
                          ![c].record = memRecord]
  /\ crossed' = (crossed \/ \E d \in Cycles \ {c} : PositionInHand(d))
  /\ UNCHANGED <<memAuctions, records, memRecord, todo, opening, dbSupplied, dbBorrowed,
                 settled, twice, taken>>

\* The query of getPositions runs, or fails: then the fill has no position and
\* changes none.
SelectRuns(c) ==
  /\ fill[c].at = "select"
  /\ \/ fill' = [fill EXCEPT ![c].at = "row", ![c].supplied = dbSupplied] /\ NoTrouble
     \/ fill' = [fill EXCEPT ![c] = NoFill] /\ Trouble
  /\ UNCHANGED <<positionVars, memAuctions, todo, opening, dbAuctions, contested>>

\* Its row is back: a new record, which memory keeps whatever it has by now;
\* debtPos.borrowed = 0 and upsertPosition.
RowReturns(c) ==
  /\ fill[c].at = "row"
  /\ records' = Append(records, fill[c].supplied)
  /\ memRecord' = Len(records) + 1
  /\ fill' = [fill EXCEPT ![c].at = "debt", ![c].record = Len(records) + 1, ![c].supplied = 0]
  /\ UNCHANGED <<memAuctions, todo, opening, dbAuctions, dbSupplied, dbBorrowed, troubles,
                 settled, twice, taken, contested, crossed, spoiled>>

\* Math.max(0, supplied - collateral_amount).
LeftCleared(supplied) == 0  \* mutant: cleared, as the debt is
Left(supplied) == IF supplied = 0 THEN 0 ELSE supplied - 1

\* The debt's row is written, or the call fails; then colPos.supplied of the
\* record in hand, of which upsertPosition keeps a copy.
TakeCollateral(c) ==
  /\ fill[c].at = "debt"
  /\ \/ dbBorrowed' = 0 /\ NoTrouble
     \/ UNCHANGED dbBorrowed /\ Trouble
  /\ LET supplied == Left(records[fill[c].record]) IN
       /\ records' = Append([records EXCEPT ![fill[c].record] = supplied], supplied)
       /\ fill' = [fill EXCEPT ![c].at = "collateral", ![c].record = 0,
                               ![c].supplied = supplied]
  /\ memRecord' = Len(records) + 1
  /\ taken' = taken + 1
  /\ settled' = settled \cup {fill[c].auction}
  /\ twice' = twice \cup (settled \cap {fill[c].auction})
  /\ UNCHANGED <<memAuctions, todo, opening, dbAuctions, dbSupplied, contested, crossed>>

\* The collateral's row is written, or the call fails, and the auction is done.
CollateralSettles(c) ==
  /\ fill[c].at = "collateral"
  /\ \/ dbSupplied' = fill[c].supplied /\ NoTrouble
     \/ UNCHANGED dbSupplied /\ Trouble
  /\ fill' = [fill EXCEPT ![c] = NoFill]
  /\ UNCHANGED <<memAuctions, records, memRecord, todo, opening, dbAuctions, dbBorrowed,
                 settled, twice, taken, contested, crossed>>

\* The process starts again: each call under way has reached the database or is
\* lost.
KeeperRestarts ==
  /\ IF \A c \in Cycles : fill[c] = NoFill THEN Counted /\ UNCHANGED spoiled ELSE Trouble
  /\ \E opened \in SUBSET opening, reached \in SUBSET Cycles :
       LET closed == {fill[c].auction : c \in {d \in reached : fill[d].at = "close"}} IN
       /\ \/ dbAuctions' = [a \in Auctions |-> IF a \in closed THEN "closed"
                                               ELSE IF a \in opened THEN "active"
                                               ELSE dbAuctions[a]]
          \/ dbAuctions' = [a \in Auctions |-> IF a \in opened THEN "active"
                                               ELSE IF a \in closed THEN "closed"
                                               ELSE dbAuctions[a]]
       /\ contested' = contested \cup {a \in opened : dbAuctions[a] # "none" \/ a \in closed}
       /\ dbBorrowed' = IF \E c \in reached : fill[c].at = "debt" THEN 0 ELSE dbBorrowed
       /\ dbSupplied' \in {fill[c].supplied : c \in {d \in reached : fill[d].at = "collateral"}}
                          \cup (IF \E c \in reached : fill[c].at = "collateral" THEN {}
                                ELSE {dbSupplied})
  /\ memAuctions' = [a \in Auctions |-> "none"] /\ records' = <<>> /\ memRecord' = 0
  /\ todo' = [c \in Cycles |-> {}] /\ fill' = [c \in Cycles |-> NoFill] /\ opening' = {}
  /\ UNCHANGED <<settled, twice, taken, crossed>>

FillerNext ==
  \/ \E a \in Auctions :
       \/ TriggerAuction(a) \/ OpeningSettles(a)
       \/ \E row \in AuctionRows : IndexerWrites(a, row)
  \/ \E c \in Cycles :
       \/ CycleBegins(c) \/ \E a \in Auctions : CloseAuction(c, a)
       \/ CloseSettles(c) \/ SelectRuns(c) \/ RowReturns(c)
       \/ TakeCollateral(c) \/ CollateralSettles(c)
  \/ KeeperRestarts
-----------------------------------------------------------------------------
Remaining(n) == IF n > MaxCollateral THEN 0 ELSE MaxCollateral - n
Quiet == \A c \in Cycles : fill[c] = NoFill

\* The collateral of an auction is taken once, unless a cycle listed the
\* auction while another still had it, its row could not be closed or was
\* written again: overlapping cycles do settle one twice.  What the row says is
\* supplied never falls by more than was taken; it can fall by less, but
\* between the fills it has lost exactly that, the debt is cleared with the
\* first and the closed auctions are the settled ones, unless a call for the
\* position failed, the process stopped within a fill or two cycles had the
\* position in hand at once (runFlashLoanFiller, an async callback of
\* setInterval without a guard).
FilledOnce ==
  /\ twice \subseteq contested
  /\ dbSupplied >= Remaining(taken)
  /\ Quiet /\ ~spoiled /\ ~crossed =>
       /\ dbSupplied = Remaining(taken)
       /\ dbBorrowed = IF taken = 0 THEN 1 ELSE 0
       /\ \A a \in Auctions \ contested : a \in settled <=> dbAuctions[a] = "closed"
=============================================================================
