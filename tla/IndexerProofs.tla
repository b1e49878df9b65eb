---------------------------- MODULE IndexerProofs ----------------------------
(***************************************************************************)
(* The event indexer, for any chain of events, any sizes of pages and      *)
(* windows, and any number of faults and crashes.                          *)
(*                                                                         *)
(* Before the checkpoint nothing is missed because of what is known in the *)
(* middle of a batch: up to the window's start the record is whole (Kept), *)
(* a page takes the first events of what is left, so that everything       *)
(* fetched or handled is closed downwards, and the checkpoint a batch      *)
(* leaves is never past the last event it handled unless the window was    *)
(* fetched to its end.                                                     *)
(*                                                                         *)
(* The rows of the auctions need the order as well: an event that is still *)
(* to come (Later) is processed after every event of the batch that was    *)
(* processed before, and wherever the loop may go on from is not past an   *)
(* event whose row is still wrong (Pending).  The checkpoint of memory may *)
(* fall behind the saved one in one case, a resumption computed from a     *)
(* ledger that was the latest long ago; the RPC no longer serves the       *)
(* events there, so that no replay comes of it (Restart).                  *)
(***************************************************************************)
EXTENDS Indexer, TallyProofs

\* A batch is under way; it has taken a page at least.
InBatch == pc \in {"fetch", "log", "apply", "save"}
Fetched == pc \in {"log", "apply", "save"} \/ (pc = "fetch" /\ cursor # 0)

WatchedEvents == {e \in Events : Chain[e].contract \in Watched}
Handled == logged \cup affected

\* The record is whole between two ledgers.
Kept(lo, hi) ==
  \A e \in WatchedEvents : lo <= LedgerOf(e) /\ LedgerOf(e) < hi
    => e \in Handled \/ LedgerOf(e) \in jumped

KeptAfter(lo, hi) ==
  \A e \in WatchedEvents : lo <= LedgerOf(e) /\ LedgerOf(e) < hi
    => e \in Handled' \/ LedgerOf(e) \in jumped'

\* Where the loop is: its locals outside a batch and in one.
Loop ==
  /\ pc = "down" => ~useDb /\ memCheckpoint = 0 /\ admin.read = 0
  /\ pc \notin {"down", "sleep", "poll"} => latestSeen \in FirstLedger..latest
  /\ InBatch => /\ startLedger \in 1..latestSeen /\ startLedger < latestSeen
                /\ endLedger \in startLedger..latestSeen
                /\ lastLedgerSeen \in startLedger..endLedger
  /\ pc = "fetch" => lastLedgerSeen = startLedger
  /\ pc = "apply" => todo # {}
  /\ pc = "save" => todo = {}
  /\ cursor # 0 => pc = "fetch" /\ cursor \in Events /\ startLedger <= LedgerOf(cursor)
  /\ complete => pc \in {"log", "apply", "save"}
  /\ admin.read # 0 => useDb
  /\ logged \subseteq WatchedEvents

\* The events of the batch: in its window, and without a gap below any of them.
Batch ==
  /\ \A d \in todo : d \in WatchedEvents /\ startLedger <= LedgerOf(d) /\ LedgerOf(d) <= endLedger
  /\ useDb => \A e \in WatchedEvents : startLedger <= LedgerOf(e) =>
       /\ \A d \in todo : e < d => e \in todo \cup Handled
       /\ LedgerOf(e) < lastLedgerSeen => e \in todo \cup Handled
       /\ complete /\ LedgerOf(e) <= endLedger => e \in todo \cup Handled
       /\ cursor # 0 /\ e <= cursor => e \in todo \cup Handled
  /\ pc = "apply" /\ useDb => NextEvent \in Handled
  /\ ~InBatch => todo = {} /\ lastLedgerSeen = 0

\* Nothing is missed before the checkpoints, nor before the window.
Whole ==
  /\ Kept(base, checkpoint)
  /\ useDb => Kept(base, memCheckpoint) /\ Kept(base, admin.read)
  /\ useDb /\ InBatch => Kept(base, startLedger)
  /\ admin.read # 0 => checkpoint # 0

IndexerInv == TypeOK /\ Loop /\ Batch /\ Whole

\* The event is still to come in this batch, or after it.
Later(e) ==
  \/ e \in todo
  \/ /\ lastLedgerSeen <= LedgerOf(e)
     /\ \A d \in todo : d < e
     /\ pc = "fetch" => cursor < e
     /\ complete => endLedger < LedgerOf(e)

\* After an event to come everything is to come.
InOrder ==
  /\ InBatch => \A d \in todo, e \in WatchedEvents : d < e => Later(e)
  /\ pc = "fetch" => \A d \in todo : d <= cursor

\* Where the loop may go on from, unless a read failed or came late.
Restart ==
  useDb /\ ~readFailed /\ ~admin.late =>
    /\ memCheckpoint # 0 => checkpoint <= memCheckpoint \/ checkpoint < OldestLedger
    /\ admin.read # 0 => admin.read <= checkpoint \/ admin.read < OldestLedger
    /\ admin.read # 0 /\ memCheckpoint = 0 => admin.read = checkpoint
    /\ InBatch => \/ checkpoint <= startLedger
                  \/ ~Fetched /\ checkpoint < OldestLedger
    /\ InBatch => \/ memCheckpoint <= startLedger
                  \/ ~Fetched /\ memCheckpoint < OldestLedger
    /\ Fetched => admin.read <= startLedger

\* The last logged event of a row, while the row does not follow it, is ahead
\* of every place the loop may go on from.
Pending(m) ==
  /\ checkpoint <= LedgerOf(m)
  /\ useDb => /\ memCheckpoint <= LedgerOf(m) /\ admin.read <= LedgerOf(m)
              /\ InBatch => startLedger <= LedgerOf(m) /\ Later(m)

Mirrors(a, m) == auctions[a] = "active" <=> Chain[m].name = "AuctionCreated"

\* The row has no excuse: no failed statement, no failed or late read.
Sound(a) ==
  /\ \A e \in affected : Chain[e].auction # a
  /\ ~readFailed /\ ~admin.late

RowInv(a) ==
  \A m \in Indexed(a) :
    /\ Sound(a) /\ (\A e \in Indexed(a) : e <= m)
    /\ base <= LedgerOf(m) /\ LedgerOf(m) \notin jumped
    => Mirrors(a, m) \/ Pending(m)

RowsInv == IndexerInv /\ InOrder /\ Restart /\ \A a \in AuctionIds : RowInv(a)
-----------------------------------------------------------------------------
(* Events, ledgers and pages. *)

LEMMA ChainFacts ==
  /\ Events \subseteq Nat \ {0} /\ IsFiniteSet(Events) /\ WatchedEvents \subseteq Events
  /\ \A e \in Events : LedgerOf(e) \in Nat
  /\ \A d, e \in Events : d < e => LedgerOf(d) <= LedgerOf(e)
BY ChainAssumption DEF WatchedEvents

LEMMA SmallestOf ==
  ASSUME NEW S \in SUBSET Nat, S # {}
  PROVE  Min(S) \in S /\ \A y \in S : Min(S) <= y
<1>1. \E x \in S : \A y \in S : x <= y BY Smallest
<1>2. QED BY <1>1 DEF Min

LEMMA GreatestOf ==
  ASSUME NEW S \in SUBSET Nat, IsFiniteSet(S), S # {}
  PROVE  Max(S) \in S /\ \A y \in S : y <= Max(S)
<1>1. S \in SUBSET Int OBVIOUS
<1>2. \E x \in S : \A y \in S : x >= y
  <2>1. PICK x \in S : \A y \in S : y <= x BY <1>1, Greatest
  <2>2. x \in Nat /\ \A y \in S : y \in Nat OBVIOUS
  <2>3. \A y \in S : x >= y BY <2>1, <2>2
  <2>4. QED BY <2>3
<1>3. Max(S) \in S /\ \A y \in S : Max(S) >= y BY <1>2 DEF Max
<1>4. QED BY <1>3

LEMMA Pair ==
  ASSUME NEW x \in Nat, NEW y \in Nat
  PROVE  /\ Max({x, y}) \in {x, y} /\ x <= Max({x, y}) /\ y <= Max({x, y})
         /\ Min({x, y}) \in {x, y} /\ Min({x, y}) <= x /\ Min({x, y}) <= y
<1>1. {x, y} = {x} \cup {y} OBVIOUS
<1>2. IsFiniteSet({x} \cup {y}) BY FS_Singleton, FS_AddElement
<1>3. {x, y} \in SUBSET Nat /\ {x, y} # {} /\ IsFiniteSet({x, y}) BY <1>1, <1>2
<1>4. QED BY <1>3, SmallestOf, GreatestOf

\* The first events of a set have no gap, and there are fewer than asked for
\* only if they are all.
LEMMA PageFacts ==
  ASSUME NEW S \in SUBSET Events, NEW n \in Nat \ {0}
  PROVE  LET P == FirstOf(S, n)
         IN /\ P \subseteq S /\ IsFiniteSet(P)
            /\ \A d \in S, e \in P : d < e => d \in P
            /\ Cardinality(P) < n => P = S
            /\ ~(Cardinality(P) < n) => P # {}
<1> DEFINE below(e) == {d \in S : d < e}
           P == FirstOf(S, n)
<1>1. S \subseteq Nat /\ IsFiniteSet(S) BY ChainFacts, FS_Subset
<1>2. P \subseteq S /\ IsFiniteSet(P) /\ \A e \in S : e \in P <=> Cardinality(below(e)) < n
  BY <1>1, FS_Subset DEF FirstOf
<1>3. ASSUME NEW e \in S PROVE IsFiniteSet(below(e)) /\ Cardinality(below(e)) \in Nat
  <2>1. below(e) \subseteq S OBVIOUS
  <2> HIDE DEF below
  <2>2. QED BY <1>1, <2>1, FS_Subset, FS_CardinalityType
<1>4. ASSUME NEW d \in S, NEW e \in P, d < e PROVE d \in P
  <2>1. e \in S /\ d \in Nat /\ e \in Nat BY <1>1, <1>2
  <2>2. below(d) \subseteq below(e)
    <3>1. ASSUME NEW x \in S, x < d PROVE x < e
      <4>1. x \in Nat BY <1>1
      <4>2. QED BY <1>4, <2>1, <3>1, <4>1
    <3>2. QED BY <3>1
  <2>3. Cardinality(below(d)) <= Cardinality(below(e)) BY <1>3, <2>1, <2>2, FS_Subset
  <2>4. Cardinality(below(d)) \in Nat /\ Cardinality(below(e)) \in Nat BY <1>3, <2>1
  <2>5. Cardinality(below(e)) < n BY <1>2, <2>1
  <2>6. Cardinality(below(d)) < n BY <2>3, <2>4, <2>5
  <2>7. QED BY <1>2, <2>6
<1>5. ASSUME Cardinality(P) < n, S \ P # {} PROVE FALSE
  <2>1. S \ P \in SUBSET Nat BY <1>1
  <2>2. PICK x \in S \ P : \A y \in S \ P : x <= y BY <1>5, <2>1, Smallest
  <2>3. below(x) \subseteq P
    <3>1. ASSUME NEW d \in below(x), d \notin P PROVE FALSE
      <4>1. d \in S \ P /\ d < x BY <3>1
      <4>2. x <= d /\ x \in Nat /\ d \in Nat BY <1>1, <2>2, <4>1
      <4>3. QED BY <4>1, <4>2
    <3>2. QED BY <3>1
  <2>4. Cardinality(below(x)) <= Cardinality(P) BY <1>2, <2>3, FS_Subset
  <2>5. Cardinality(below(x)) \in Nat /\ Cardinality(P) \in Nat
    BY <1>2, <1>3, FS_CardinalityType
  <2>6. Cardinality(below(x)) < n BY <1>5, <2>4, <2>5
  <2>7. QED BY <1>2, <2>2, <2>6
<1>6. ASSUME P = {} PROVE Cardinality(P) < n
  <2>1. Cardinality(P) = 0 BY <1>6, FS_EmptySet
  <2>2. QED BY <2>1
<1> HIDE DEF P
<1>7. P \subseteq S /\ IsFiniteSet(P) /\ (\A d \in S, e \in P : d < e => d \in P)
      /\ (Cardinality(P) < n => P = S) /\ (~(Cardinality(P) < n) => P # {})
  BY <1>2, <1>4, <1>5, <1>6
<1>8. QED BY <1>7 DEF P
-----------------------------------------------------------------------------
(* Types, and where the loop is. *)

LEMMA ToCome ==
  ASSUME TypeOK, Loop, pc = "apply" \/ (pc = "log" /\ todo # {})
  PROVE  /\ NextEvent \in todo /\ NextEvent \in Events /\ (\A d \in todo : NextEvent <= d)
         /\ todo \subseteq Events /\ todo \subseteq Nat
<1>1. todo # {} /\ todo \subseteq Events /\ todo \subseteq Nat
  BY ChainFacts DEF Loop, TypeOK
<1>2. QED BY <1>1, SmallestOf DEF NextEvent

\* What the locals are between two batches.
LEMMA EndBatchFacts ==
  ASSUME EndBatch
  PROVE  /\ latestSeen' = 0 /\ startLedger' = 0 /\ endLedger' = 0 /\ cursor' = 0 /\ page' = 0
         /\ complete' = FALSE /\ todo' = {} /\ lastLedgerSeen' = 0 /\ attempts' = 0
BY DEF EndBatch

LEMMA StartTypes == ASSUME TypeOK, Loop, Start PROVE TypeOK' /\ Loop'
<1>1. faults' \in Nat /\ useDb' \in BOOLEAN
  <2>1. faults' \in Nat BY DEF Start, TypeOK
  <2>2. useDb' \in BOOLEAN BY Zenon DEF Start
  <2>3. QED BY <2>1, <2>2
<1>2. TypeOK' BY <1>1 DEF Start, TypeOK, outside, batchVars, dbVars, history
<1>3. Loop'
  BY DEF Start, Loop, InBatch, WatchedEvents, Watched, outside, batchVars, dbVars, history
<1>4. QED BY <1>2, <1>3

LEMMA PollTypes == ASSUME TypeOK, Loop, Poll PROVE TypeOK' /\ Loop'
<1>1. latest \in Nat /\ latestSeen \in 0..latest /\ latest \in FirstLedger..latest
  BY LedgersAssumption DEF TypeOK
<1>2. TypeOK'
  <2>1. /\ startLedger \in 0..latest /\ endLedger \in 0..latest /\ lastLedgerSeen \in 0..latest
        /\ 0 \in 0..RETRIES
    BY <1>1, SizesAssumption DEF TypeOK
  <2>2. QED BY <1>1, <2>1 DEF Poll, TypeOK, outside, memVars, dbVars, history
<1>3. Loop'
  BY <1>1 DEF Poll, Loop, InBatch, WatchedEvents, Watched, outside, memVars, dbVars, history
<1>4. QED BY <1>2, <1>3

LEMMA SleepTypes == ASSUME TypeOK, Loop, Sleep PROVE TypeOK' /\ Loop'
<1>1. TypeOK' BY DEF Sleep, TypeOK, outside, batchVars, memVars, dbVars, history
<1>2. Loop'
  BY DEF Sleep, Loop, InBatch, WatchedEvents, Watched, outside, batchVars, memVars, dbVars, history
<1>3. QED BY <1>1, <1>2

LEMMA CrashTypes == ASSUME TypeOK, Loop, Crash PROVE TypeOK' /\ Loop'
<1>1. /\ admin' \in [read : 0..(latest + 1), late : BOOLEAN] /\ admin'.read = 0
      /\ 0 \in 0..(latest + 1) /\ 0 \in 0..RETRIES /\ 0 \in 0..MAX_PAGES_PER_BATCH
  BY LedgersAssumption, SizesAssumption DEF Crash, TypeOK
<1>2. TypeOK'
  <2>1. crashes' \in Nat /\ 0 \in 0..latest /\ 0 \in 0..0 /\ UNCHANGED latest
    BY LedgersAssumption DEF Crash, TypeOK
  <2>2. /\ latestSeen' \in 0..latest' /\ startLedger' \in 0..latestSeen'
        /\ endLedger' \in 0..latestSeen' /\ lastLedgerSeen' \in 0..latestSeen'
        /\ cursor' \in Nat /\ page' \in 0..MAX_PAGES_PER_BATCH /\ complete' \in BOOLEAN
        /\ todo' \subseteq Events /\ attempts' \in 0..RETRIES
    BY <1>1, <2>1, EndBatchFacts DEF Crash
  <2>3. /\ admin' \in [read : 0..(latest' + 1), late : BOOLEAN] /\ useDb' \in BOOLEAN
        /\ memCheckpoint' \in 0..(latest' + 1) /\ pc' = "down"
    BY <1>1, <2>1 DEF Crash
  <2>4. QED BY <2>1, <2>2, <2>3 DEF Crash, TypeOK, dbVars, history
<1>3. Loop'
  BY <1>1, EndBatchFacts DEF Crash, Loop, InBatch, WatchedEvents, Watched, dbVars, history
<1>4. QED BY <1>2, <1>3

LEMMA LedgerClosesTypes == ASSUME TypeOK, Loop, LedgerCloses PROVE TypeOK' /\ Loop'
<1>1. /\ latest \in Nat /\ latest' = latest + 1 /\ latest' \in FirstLedger..MaxLedger
      /\ 0..(latest + 1) \subseteq 0..(latest' + 1) /\ 0..latest \subseteq 0..latest'
      /\ FirstLedger..latest \subseteq FirstLedger..latest'
  BY LedgersAssumption DEF LedgerCloses, TypeOK
<1>2. admin' \in [read : 0..(latest' + 1), late : BOOLEAN]
  BY <1>1 DEF LedgerCloses, TypeOK
<1>3. /\ latestSeen \in 0..latest' /\ memCheckpoint \in 0..(latest' + 1)
      /\ checkpoint \in 0..(latest' + 1)
  BY <1>1 DEF TypeOK
<1>4. TypeOK'
  BY <1>1, <1>2, <1>3 DEF LedgerCloses, TypeOK, batchVars, memVars, dbVars, history
<1>5. Loop'
  BY <1>1 DEF LedgerCloses, Loop, InBatch, WatchedEvents, Watched, batchVars, memVars, dbVars, history
<1>6. QED BY <1>4, <1>5

LEMMA AdminReadsTypes == ASSUME TypeOK, Loop, AdminReads PROVE TypeOK' /\ Loop'
<1>1. admin' \in [read : 0..(latest + 1), late : BOOLEAN]
  BY DEF AdminReads, TypeOK
<1>2. TypeOK' BY <1>1 DEF AdminReads, TypeOK, batchVars, memVars, dbVars, history
<1>3. Loop'
  BY DEF AdminReads, Loop, InBatch, WatchedEvents, Watched, batchVars, memVars, dbVars, history
<1>4. QED BY <1>2, <1>3

LEMMA AdminAnsweredTypes == ASSUME TypeOK, Loop, AdminAnswered PROVE TypeOK' /\ Loop'
<1>1. /\ admin.read \in 0..(latest + 1)
      /\ (admin.late \/ memCheckpoint > admin.read) \in BOOLEAN /\ 0 \in 0..(latest + 1)
      /\ admin' = [read |-> 0, late |-> admin.late \/ memCheckpoint > admin.read]
  BY LedgersAssumption DEF AdminAnswered, TypeOK
<1>2. admin' \in [read : 0..(latest + 1), late : BOOLEAN] /\ admin'.read = 0 BY <1>1
<1>3. TypeOK' BY <1>1, <1>2 DEF AdminAnswered, TypeOK, batchVars, dbVars, history
<1>4. Loop'
  <2>1. pc # "down" BY DEF AdminAnswered, Loop
  <2>2. QED
    BY <1>2, <2>1 DEF AdminAnswered, Loop, InBatch, WatchedEvents, Watched, batchVars, dbVars, history
<1>5. QED BY <1>3, <1>4

LEMMA QueryFailsTypes == ASSUME TypeOK, Loop, QueryFails PROVE TypeOK' /\ Loop'
<1>1. faults' \in Nat BY DEF QueryFails, TypeOK
<1>2. CASE attempts < RETRIES /\ attempts' = attempts + 1 /\ UNCHANGED <<pc, batchVars>>
  <2>1. attempts' \in 0..RETRIES BY <1>2, SizesAssumption DEF TypeOK
  <2>2. TypeOK'
    BY <1>1, <1>2, <2>1 DEF QueryFails, TypeOK, outside, batchVars, memVars, dbVars, history
  <2>3. Loop'
    BY <1>2 DEF QueryFails, Loop, InBatch, WatchedEvents, Watched, outside, batchVars, memVars,
                dbVars, history
  <2>4. QED BY <2>2, <2>3
<1>3. CASE pc' = "sleep" /\ EndBatch
  <2>1. 0 \in 0..RETRIES /\ 0 \in 0..MAX_PAGES_PER_BATCH /\ 0 \in 0..latest
    BY LedgersAssumption, SizesAssumption DEF TypeOK
  <2>2. TypeOK'
    BY <1>1, <1>3, <2>1, EndBatchFacts DEF QueryFails, TypeOK, outside, memVars, dbVars, history
  <2>3. Loop'
    BY <1>3, EndBatchFacts
       DEF QueryFails, Loop, InBatch, WatchedEvents, Watched, outside, memVars, dbVars, history
  <2>4. QED BY <2>2, <2>3
<1>4. QED BY <1>2, <1>3 DEF QueryFails

\* What reading the checkpoint does: where it goes on from, and why.
ReadsFrom(ok, saved, from) ==
  /\ ~ok => memCheckpoint = 0 /\ useDb
  /\ saved # 0 => from = saved
  /\ saved # 0 => saved = memCheckpoint \/ (useDb /\ memCheckpoint = 0 /\ saved = checkpoint)
  /\ saved = 0 => /\ from = latestSeen - DEFAULT_LOOKBACK_LEDGERS /\ memCheckpoint = 0
                  /\ useDb /\ ok => checkpoint = 0
  /\ memCheckpoint' = saved
  /\ base' = IF saved = 0 /\ useDb /\ checkpoint = 0 THEN from ELSE base
  /\ jumped' = IF saved = 0 /\ useDb /\ checkpoint # 0
               THEN jumped \cup checkpoint..(from - 1) ELSE jumped
  /\ readFailed' = (readFailed \/ ~ok)
  /\ \/ pc' = "sleep" /\ EndBatch
     \/ /\ pc' = "fetch" /\ from < latestSeen
        /\ startLedger' = from /\ endLedger' \in from..latestSeen /\ lastLedgerSeen' = from
        /\ cursor' = 0 /\ page' = 0 /\ complete' = FALSE /\ todo' = {}
        /\ latestSeen' = latestSeen /\ attempts' = attempts

LEMMA ReadFacts ==
  ASSUME TypeOK, Loop, ReadCheckpoint
  PROVE  /\ \E ok \in BOOLEAN, saved \in 0..(latest + 1), from \in 1..(latest + 1) :
              ReadsFrom(ok, saved, from)
         /\ faults' \in Nat /\ pc = "checkpoint"
         /\ UNCHANGED <<latest, admin, useDb, checkpoint, logged, transactions, auctions,
                        dailyMetric, crashes, affected>>
<1>1. PICK ok \in BOOLEAN :
        /\ Statement(ok) /\ (~ok => memCheckpoint = 0)
        /\ LET saved == GetCheckpoint(ok)
               from == IF saved = 0 THEN latestSeen - DEFAULT_LOOKBACK_LEDGERS ELSE saved
           IN
             /\ memCheckpoint' = saved
             /\ base' = IF saved = 0 /\ useDb /\ checkpoint = 0 THEN from ELSE base
             /\ jumped' = IF saved = 0 /\ useDb /\ checkpoint # 0
                          THEN jumped \cup checkpoint..(from - 1) ELSE jumped
             /\ readFailed' = (readFailed \/ ~ok)
             /\ \/ /\ from >= latestSeen
                   /\ pc' = "sleep" /\ EndBatch
                \/ /\ from < latestSeen
                   /\ pc' = "fetch"
                   /\ startLedger' = from
                   /\ endLedger' = WindowEnd(from)
                   /\ cursor' = 0 /\ page' = 0 /\ complete' = FALSE /\ todo' = {}
                   /\ lastLedgerSeen' = from
                   /\ UNCHANGED <<latestSeen, attempts>>
  BY DEF ReadCheckpoint
<1>2. /\ pc = "checkpoint"
      /\ UNCHANGED <<latest, admin, useDb, checkpoint, logged, transactions, auctions,
                     dailyMetric, crashes, affected>>
  BY DEF ReadCheckpoint, outside
<1>3. /\ latestSeen \in FirstLedger..latest /\ latest \in Nat /\ latestSeen \in Nat
      /\ FirstLedger \in Nat /\ DEFAULT_LOOKBACK_LEDGERS \in Nat
      /\ DEFAULT_LOOKBACK_LEDGERS < FirstLedger
  BY <1>2, LedgersAssumption DEF Loop, TypeOK
<1>4. PICK saved \in 0..(latest + 1) :
        /\ saved = GetCheckpoint(ok)
        /\ saved # 0 => saved = memCheckpoint \/ (useDb /\ memCheckpoint = 0 /\ saved = checkpoint)
        /\ saved = 0 => memCheckpoint = 0 /\ (useDb /\ ok => checkpoint = 0)
  <2>1. memCheckpoint \in 0..(latest + 1) /\ checkpoint \in 0..(latest + 1) BY DEF TypeOK
  <2>2. 0 \in 0..(latest + 1) BY <1>3
  <2>3. QED BY <2>1, <2>2 DEF GetCheckpoint
<1>5. PICK from \in 1..(latest + 1) :
        /\ from = IF saved = 0 THEN latestSeen - DEFAULT_LOOKBACK_LEDGERS ELSE saved
        /\ saved # 0 => from = saved
        /\ saved = 0 => from = latestSeen - DEFAULT_LOOKBACK_LEDGERS
  <2>1. CASE saved = 0
    <3>1. latestSeen - DEFAULT_LOOKBACK_LEDGERS \in 1..(latest + 1) BY <1>3
    <3>2. QED BY <2>1, <3>1
  <2>2. CASE saved # 0
    <3>1. saved \in 1..(latest + 1) BY <1>3, <2>2
    <3>2. QED BY <2>2, <3>1
  <2>3. QED BY <2>1, <2>2
<1>6. faults' \in Nat /\ (~ok => useDb) BY <1>1 DEF Statement, TypeOK
<1>7. WindowEnd(from) \in from..latestSeen \/ ~(from < latestSeen)
  <2>1. /\ from \in Nat /\ LEDGER_SPAN \in Nat \ {0} /\ from + LEDGER_SPAN \in Nat
        /\ latestSeen \in Nat
    BY <1>3, SizesAssumption
  <2> DEFINE w == Min({from + LEDGER_SPAN, latestSeen})
  <2>2. w \in {from + LEDGER_SPAN, latestSeen} /\ w <= latestSeen BY <2>1, Pair
  <2> HIDE DEF w
  <2>3. from < latestSeen => w \in from..latestSeen BY <2>1, <2>2
  <2>4. QED BY <2>3 DEF WindowEnd, w
<1>8. ReadsFrom(ok, saved, from)
  <2>1. /\ memCheckpoint' = saved
        /\ base' = IF saved = 0 /\ useDb /\ checkpoint = 0 THEN from ELSE base
        /\ jumped' = IF saved = 0 /\ useDb /\ checkpoint # 0
                     THEN jumped \cup checkpoint..(from - 1) ELSE jumped
        /\ readFailed' = (readFailed \/ ~ok)
        /\ \/ pc' = "sleep" /\ EndBatch
           \/ /\ from < latestSeen
              /\ pc' = "fetch"
              /\ startLedger' = from
              /\ endLedger' = WindowEnd(from)
              /\ cursor' = 0 /\ page' = 0 /\ complete' = FALSE /\ todo' = {}
              /\ lastLedgerSeen' = from
              /\ UNCHANGED <<latestSeen, attempts>>
    BY <1>1, <1>4, <1>5
  <2>2. QED BY <1>1, <1>4, <1>5, <1>6, <1>7, <2>1 DEF ReadsFrom
<1>9. QED BY <1>2, <1>6, <1>8

LEMMA ReadTypes == ASSUME TypeOK, Loop, ReadCheckpoint PROVE TypeOK' /\ Loop'
<1>1. PICK ok \in BOOLEAN, saved \in 0..(latest + 1), from \in 1..(latest + 1) :
        ReadsFrom(ok, saved, from)
  BY ReadFacts
<1>2. /\ faults' \in Nat /\ pc = "checkpoint"
      /\ UNCHANGED <<latest, admin, useDb, checkpoint, logged, transactions, auctions,
                     dailyMetric, crashes, affected>>
  BY ReadFacts
<1>3. /\ latestSeen \in FirstLedger..latest /\ latest \in Nat /\ latestSeen \in 0..latest
      /\ checkpoint \in Nat
  BY <1>2, LedgersAssumption DEF Loop, TypeOK
<1>4. /\ memCheckpoint' \in 0..(latest + 1) /\ base' \in Nat /\ jumped' \subseteq Nat
      /\ readFailed' \in BOOLEAN
  <2>1. base' \in Nat BY <1>1, <1>3 DEF ReadsFrom, TypeOK
  <2>2. checkpoint..(from - 1) \subseteq Nat BY <1>3
  <2>3. jumped' \subseteq Nat BY <1>1, <2>2 DEF ReadsFrom, TypeOK
  <2>4. readFailed' \in BOOLEAN BY <1>1, Zenon DEF ReadsFrom
  <2>5. QED BY <1>1, <2>1, <2>3, <2>4 DEF ReadsFrom
<1>5. 0 \in 0..RETRIES /\ 0 \in 0..MAX_PAGES_PER_BATCH /\ 0 \in 0..latest /\ 0 \in 0..0
  BY <1>3, SizesAssumption
<1>6. /\ latestSeen' \in 0..latest /\ startLedger' \in 0..latestSeen'
      /\ endLedger' \in 0..latestSeen' /\ lastLedgerSeen' \in 0..latestSeen'
      /\ cursor' \in Nat /\ page' \in 0..MAX_PAGES_PER_BATCH /\ complete' \in BOOLEAN
      /\ todo' \subseteq Events /\ attempts' \in 0..RETRIES /\ pc' \in {"sleep", "fetch"}
  <2>1. CASE pc' = "sleep" /\ EndBatch BY <1>5, <2>1, EndBatchFacts
  <2>2. CASE ~(pc' = "sleep" /\ EndBatch)
    <3>1. /\ pc' = "fetch" /\ from < latestSeen
          /\ startLedger' = from /\ endLedger' \in from..latestSeen /\ lastLedgerSeen' = from
          /\ cursor' = 0 /\ page' = 0 /\ complete' = FALSE /\ todo' = {}
          /\ latestSeen' = latestSeen /\ attempts' = attempts
      BY <1>1, <2>2 DEF ReadsFrom
    <3>2. /\ latestSeen' \in 0..latest /\ startLedger' \in 0..latestSeen'
          /\ endLedger' \in 0..latestSeen' /\ lastLedgerSeen' \in 0..latestSeen'
      BY <1>3, <3>1
    <3>3. attempts' \in 0..RETRIES BY <3>1 DEF TypeOK
    <3>4. complete' \in BOOLEAN BY <3>1, Zenon
    <3>5. QED BY <1>5, <3>1, <3>2, <3>3, <3>4
  <2>3. QED BY <2>1, <2>2
<1>7. TypeOK'
  <2>1. /\ latest' \in FirstLedger..MaxLedger /\ admin' \in [read : 0..(latest' + 1), late : BOOLEAN]
        /\ dailyMetric' \in {NoRow, "counted", "memory"} /\ useDb' \in BOOLEAN
        /\ memCheckpoint' \in 0..(latest' + 1) /\ checkpoint' \in 0..(latest' + 1)
        /\ logged' \subseteq Events /\ transactions' \subseteq Events
        /\ auctions' \in [AuctionIds -> {NoRow, "active", "closed"}]
        /\ crashes' \in Nat /\ affected' \subseteq Events
    BY <1>2, <1>4 DEF TypeOK
  <2>2. /\ latestSeen' \in 0..latest' /\ latest' = latest BY <1>2, <1>6
  <2>3. QED BY <1>2, <1>4, <1>6, <2>1, <2>2 DEF TypeOK
<1>8. Loop'
  <2>1. CASE pc' = "sleep" /\ EndBatch
    BY <1>2, <2>1, EndBatchFacts DEF Loop, InBatch, WatchedEvents, Watched
  <2>2. CASE ~(pc' = "sleep" /\ EndBatch)
    <3>1. /\ pc' = "fetch" /\ from < latestSeen
          /\ startLedger' = from /\ endLedger' \in from..latestSeen /\ lastLedgerSeen' = from
          /\ cursor' = 0 /\ page' = 0 /\ complete' = FALSE /\ todo' = {}
          /\ latestSeen' = latestSeen /\ attempts' = attempts
      BY <1>1, <2>2 DEF ReadsFrom
    <3>2. /\ latestSeen' \in FirstLedger..latest' /\ startLedger' \in 1..latestSeen'
          /\ startLedger' < latestSeen' /\ endLedger' \in startLedger'..latestSeen'
          /\ lastLedgerSeen' \in startLedger'..endLedger'
      BY <1>2, <1>3, <3>1
    <3>3. logged' \subseteq WatchedEvents' /\ (admin'.read # 0 => useDb')
      BY <1>2 DEF Loop, WatchedEvents, Watched
    <3>4. QED BY <3>1, <3>2, <3>3 DEF Loop, InBatch
  <2>3. QED BY <2>1, <2>2
<1>9. QED BY <1>7, <1>8

\* What a page brings: the next watched events without a gap, and all of the
\* window's that are left when it is the last.
Fetches(P, last) ==
  /\ \A d \in P : cursor < d /\ startLedger <= LedgerOf(d)
  /\ \A e \in WatchedEvents, d \in P :
       cursor < e /\ e < d /\ startLedger <= LedgerOf(e) => e \in P
  /\ last => \A e \in WatchedEvents :
       cursor < e /\ startLedger <= LedgerOf(e) /\ LedgerOf(e) <= endLedger => e \in P
  /\ ~last => \A d \in P : LedgerOf(d) <= endLedger
  /\ todo' = todo \cup {e \in P : LedgerOf(e) <= endLedger}
  /\ complete' = last
  /\ \/ pc' = "log" /\ cursor' = 0 /\ page' = 0
     \/ /\ ~last /\ pc' = "fetch" /\ page' \in 0..MAX_PAGES_PER_BATCH
        /\ cursor' \in P /\ \A d \in P : d <= cursor'

LEMMA FetchFacts ==
  ASSUME TypeOK, Loop, FetchPage
  PROVE  /\ \E P \in SUBSET WatchedEvents, last \in BOOLEAN : Fetches(P, last)
         /\ pc = "fetch" /\ (cursor = 0 => OldestLedger <= startLedger) /\ attempts' = 0
         /\ UNCHANGED <<latest, admin, latestSeen, startLedger, endLedger, lastLedgerSeen,
                        useDb, memCheckpoint, checkpoint, logged, transactions, auctions,
                        dailyMetric, faults, crashes, affected, jumped, readFailed, base>>
<1> DEFINE B == IF cursor = 0 THEN {e \in Events : Within(e, startLedger, endLedger)}
                ELSE {e \in Events : e > cursor /\ Within(e, 0, latest)}
           P == FirstOf(B, EVENT_PAGE_SIZE)
           inWindow == {e \in P : LedgerOf(e) <= endLedger}
           last == Cardinality(P) < EVENT_PAGE_SIZE \/ inWindow # P
<1>1. /\ pc = "fetch" /\ ~OutOfRetention /\ attempts' = 0
      /\ todo' = todo \cup inWindow /\ complete' = last
      /\ \/ /\ last \/ page + 1 = MAX_PAGES_PER_BATCH
            /\ pc' = "log" /\ cursor' = 0 /\ page' = 0
         \/ /\ ~last /\ page + 1 < MAX_PAGES_PER_BATCH
            /\ pc' = pc /\ cursor' = Max(P) /\ page' = page + 1
      /\ UNCHANGED <<latest, admin, latestSeen, startLedger, endLedger, lastLedgerSeen,
                     useDb, memCheckpoint, checkpoint, logged, transactions, auctions,
                     dailyMetric, faults, crashes, affected, jumped, readFailed, base>>
  BY DEF FetchPage, PageEvents, outside, memVars, dbVars, history
<1>2. /\ startLedger \in Nat /\ endLedger \in Nat /\ latest \in Nat /\ endLedger <= latest
      /\ cursor \in Nat /\ RETENTION \in Nat
      /\ cursor # 0 => cursor \in Events /\ startLedger <= LedgerOf(cursor)
  BY <1>1, LedgersAssumption DEF Loop, TypeOK, InBatch
<1>3. /\ B \in SUBSET Events /\ B \subseteq WatchedEvents
      /\ \A e \in WatchedEvents : e \in B <=>
           IF cursor = 0 THEN startLedger <= LedgerOf(e) /\ LedgerOf(e) <= endLedger
           ELSE e > cursor /\ 0 <= LedgerOf(e) /\ LedgerOf(e) <= latest
  BY DEF Within, WatchedEvents
<1> HIDE DEF B
<1>4. /\ P \subseteq B /\ IsFiniteSet(P)
      /\ \A d \in B, e \in P : d < e => d \in P
      /\ Cardinality(P) < EVENT_PAGE_SIZE => P = B
      /\ ~(Cardinality(P) < EVENT_PAGE_SIZE) => P # {}
  BY <1>3, SizesAssumption, PageFacts
<1> HIDE DEF P
<1>5. P \in SUBSET WatchedEvents /\ P \subseteq Nat /\ last \in BOOLEAN
  BY <1>3, <1>4, ChainFacts
<1>6. ASSUME NEW d \in P PROVE cursor < d /\ startLedger <= LedgerOf(d)
  <2>1. d \in B /\ d \in WatchedEvents /\ d \in Nat \ {0} /\ LedgerOf(d) \in Nat /\ d \in Events
    BY <1>3, <1>4, ChainFacts
  <2>2. CASE cursor = 0 BY <1>3, <2>1, <2>2
  <2>3. CASE cursor # 0
    <3>1. cursor < d BY <1>2, <1>3, <2>1, <2>3
    <3>2. LedgerOf(cursor) <= LedgerOf(d) /\ LedgerOf(cursor) \in Nat
      BY <1>2, <2>1, <2>3, <3>1, ChainFacts
    <3>3. QED BY <1>2, <2>1, <2>3, <3>1, <3>2
  <2>4. QED BY <2>2, <2>3
<1>7. ASSUME NEW e \in WatchedEvents, NEW d \in P, cursor < e, e < d, startLedger <= LedgerOf(e)
      PROVE  e \in P
  <2>1. /\ d \in B /\ d \in WatchedEvents /\ d \in Events /\ e \in Events
        /\ LedgerOf(d) \in Nat /\ LedgerOf(e) \in Nat /\ e \in Nat
    BY <1>3, <1>4, ChainFacts
  <2>2. LedgerOf(e) <= LedgerOf(d) BY <1>7, <2>1, ChainFacts
  <2>3. e \in B
    <3>1. CASE cursor = 0
      <4>1. LedgerOf(d) <= endLedger BY <1>3, <2>1, <3>1
      <4>2. LedgerOf(e) <= endLedger BY <1>2, <2>1, <2>2, <4>1
      <4>3. QED BY <1>3, <1>7, <3>1, <4>2
    <3>2. CASE cursor # 0
      <4>1. LedgerOf(d) <= latest BY <1>3, <2>1, <3>2
      <4>2. LedgerOf(e) <= latest /\ 0 <= LedgerOf(e) /\ e > cursor
        BY <1>2, <1>7, <2>1, <2>2, <4>1
      <4>3. QED BY <1>3, <3>2, <4>2
    <3>3. QED BY <3>1, <3>2
  <2>4. QED BY <1>4, <1>7, <2>3
<1>8. ASSUME last, NEW e \in WatchedEvents, cursor < e, startLedger <= LedgerOf(e),
             LedgerOf(e) <= endLedger
      PROVE  e \in P
  <2>1. e \in Events /\ e \in Nat /\ LedgerOf(e) \in Nat BY ChainFacts
  <2>2. CASE P = B
    <3>1. LedgerOf(e) <= latest /\ 0 <= LedgerOf(e) /\ e > cursor BY <1>2, <1>8, <2>1
    <3>2. QED BY <1>3, <1>8, <2>2, <3>1
  <2>3. CASE P # B
    <3>1. PICK d \in P : ~(LedgerOf(d) <= endLedger) BY <1>4, <1>8, <2>3
    <3>2. d \in Events /\ LedgerOf(d) \in Nat /\ d \in Nat BY <1>5, ChainFacts
    <3>3. ~(LedgerOf(d) <= LedgerOf(e)) BY <1>2, <1>8, <2>1, <3>1, <3>2
    <3>4. ~(d < e) BY <2>1, <3>2, <3>3, ChainFacts
    <3>5. d = e \/ e < d BY <2>1, <3>2, <3>4
    <3>6. QED BY <1>7, <1>8, <3>5
  <2>4. QED BY <2>2, <2>3
<1>9. ~last => P # {} /\ \A d \in P : LedgerOf(d) <= endLedger BY <1>4
<1>10. \/ pc' = "log" /\ cursor' = 0 /\ page' = 0
       \/ /\ ~last /\ pc' = "fetch" /\ page' \in 0..MAX_PAGES_PER_BATCH
          /\ cursor' \in P /\ \A d \in P : d <= cursor'
  <2>1. CASE pc' = "log" /\ cursor' = 0 /\ page' = 0 BY <2>1
  <2>2. CASE ~last /\ page + 1 < MAX_PAGES_PER_BATCH
             /\ pc' = pc /\ cursor' = Max(P) /\ page' = page + 1
    <3>1. P # {} /\ P \in SUBSET Nat /\ IsFiniteSet(P) BY <1>4, <1>5, <1>9, <2>2
    <3>2. Max(P) \in P /\ \A d \in P : d <= Max(P) BY <3>1, GreatestOf
    <3>3. page' \in 0..MAX_PAGES_PER_BATCH BY <2>2, SizesAssumption DEF TypeOK
    <3>4. QED BY <1>1, <2>2, <3>2, <3>3
  <2>3. QED BY <1>1, <2>1, <2>2
<1>11. Fetches(P, last)
  <2> HIDE DEF last
  <2>1. todo' = todo \cup {e \in P : LedgerOf(e) <= endLedger} BY <1>1
  <2>2. complete' = last BY <1>1
  <2>3. ~last => \A d \in P : LedgerOf(d) <= endLedger BY <1>9
  <2>4. QED BY <1>6, <1>7, <1>8, <1>10, <2>1, <2>2, <2>3 DEF Fetches
<1>12. cursor = 0 => OldestLedger <= startLedger
  <2>1. OldestLedger \in Nat BY <1>2 DEF OldestLedger
  <2>2. QED BY <1>1, <1>2, <2>1 DEF OutOfRetention
<1>13. QED BY <1>1, <1>5, <1>11, <1>12

LEMMA FetchTypes == ASSUME TypeOK, Loop, FetchPage PROVE TypeOK' /\ Loop'
<1>1. PICK P \in SUBSET WatchedEvents, last \in BOOLEAN : Fetches(P, last) BY FetchFacts
<1>2. /\ pc = "fetch" /\ attempts' = 0
      /\ UNCHANGED <<latest, admin, latestSeen, startLedger, endLedger, lastLedgerSeen,
                     useDb, memCheckpoint, checkpoint, logged, transactions, auctions,
                     dailyMetric, faults, crashes, affected, jumped, readFailed, base>>
  BY FetchFacts
<1>3. /\ todo' \subseteq Events /\ complete' \in BOOLEAN /\ cursor' \in Nat
      /\ page' \in 0..MAX_PAGES_PER_BATCH /\ attempts' \in 0..RETRIES /\ pc' \in {"log", "fetch"}
      /\ cursor' # 0 => pc' = "fetch" /\ cursor' \in Events /\ startLedger <= LedgerOf(cursor')
      /\ complete' => pc' = "log"
  <2>1. P \subseteq Events /\ P \subseteq Nat BY ChainFacts
  <2>2. todo' \subseteq Events BY <1>1, <2>1 DEF Fetches, TypeOK
  <2>3. 0 \in 0..RETRIES /\ 0 \in 0..MAX_PAGES_PER_BATCH BY SizesAssumption
  <2>4. complete' = last /\ complete' \in BOOLEAN BY <1>1, Zenon DEF Fetches
  <2>5. CASE pc' = "log" /\ cursor' = 0 /\ page' = 0 BY <1>2, <2>2, <2>3, <2>4, <2>5
  <2>6. CASE ~last /\ pc' = "fetch" /\ page' \in 0..MAX_PAGES_PER_BATCH /\ cursor' \in P
    BY <1>1, <1>2, <2>1, <2>2, <2>3, <2>4, <2>6 DEF Fetches
  <2>7. QED BY <1>1, <2>5, <2>6 DEF Fetches
<1>4. TypeOK' BY <1>2, <1>3 DEF TypeOK
<1>5. Loop'
  <2>1. logged' \subseteq WatchedEvents' /\ (admin'.read # 0 => useDb')
    BY <1>2 DEF Loop, WatchedEvents, Watched
  <2>2. /\ latestSeen \in FirstLedger..latest
        /\ startLedger \in 1..latestSeen /\ startLedger < latestSeen
        /\ endLedger \in startLedger..latestSeen /\ lastLedgerSeen = startLedger
        /\ lastLedgerSeen \in startLedger..endLedger
    BY <1>2 DEF Loop, InBatch
  <2>3. QED BY <1>2, <1>3, <2>1, <2>2 DEF Loop, InBatch
<1>6. QED BY <1>4, <1>5

\* The batch ends, with a new checkpoint in memory and maybe in the table.
LEMMA EndTypes ==
  ASSUME TypeOK, Loop, NEW ok \in BOOLEAN, NEW ledger \in 1..(latest + 1),
         Statement(ok), UpsertCheckpoint(ok, ledger), EndBatch, pc' = "sleep", pc # "down",
         jumped' \in SUBSET Nat,
         UNCHANGED <<outside, useDb, logged, transactions, auctions, dailyMetric,
                     crashes, affected, readFailed, base>>
  PROVE  TypeOK' /\ Loop'
<1>1. faults' \in Nat BY DEF Statement, TypeOK
<1>2. /\ memCheckpoint' = ledger /\ checkpoint' \in {checkpoint, ledger}
      /\ UNCHANGED <<latest, admin, useDb, logged, transactions, auctions, dailyMetric,
                     crashes, affected, readFailed, base>>
  BY DEF UpsertCheckpoint, Written, outside
<1>3. /\ memCheckpoint' \in 0..(latest' + 1) /\ checkpoint' \in 0..(latest' + 1)
  BY <1>2 DEF TypeOK
<1>4. 0 \in 0..RETRIES /\ 0 \in 0..MAX_PAGES_PER_BATCH /\ 0 \in 0..latest /\ 0 \in 0..0
  BY LedgersAssumption, SizesAssumption DEF TypeOK
<1>5. TypeOK' BY <1>1, <1>2, <1>3, <1>4, EndBatchFacts DEF TypeOK
<1>6. Loop' BY <1>2, EndBatchFacts DEF Loop, InBatch, WatchedEvents, Watched
<1>7. QED BY <1>5, <1>6

\* The ledger a batch resumes at when its window is not served any more.
Resume == latestSeen - DEFAULT_LOOKBACK_LEDGERS

LEMMA SkipFacts ==
  ASSUME TypeOK, Loop, SkipAhead
  PROVE  /\ \E ok \in BOOLEAN : Statement(ok) /\ UpsertCheckpoint(ok, Resume)
         /\ Resume \in 1..latest /\ startLedger < OldestLedger /\ cursor = 0 /\ pc = "fetch"
         /\ jumped' = jumped \cup startLedger..(Resume - 1) /\ jumped' \in SUBSET Nat
         /\ pc' = "sleep" /\ EndBatch
         /\ UNCHANGED <<outside, useDb, logged, transactions, auctions, dailyMetric,
                        crashes, affected, readFailed, base>>
<1>1. /\ \E ok \in BOOLEAN : Statement(ok) /\ UpsertCheckpoint(ok, Resume)
      /\ pc = "fetch" /\ startLedger < OldestLedger /\ cursor = 0
      /\ jumped' = jumped \cup startLedger..(Resume - 1)
      /\ pc' = "sleep" /\ EndBatch
      /\ UNCHANGED <<outside, useDb, logged, transactions, auctions, dailyMetric,
                     crashes, affected, readFailed, base>>
  BY DEF SkipAhead, Resume, OutOfRetention
<1>2. Resume \in 1..latest /\ startLedger \in Nat
  BY <1>1, LedgersAssumption DEF Resume, Loop, TypeOK
<1>3. startLedger..(Resume - 1) \subseteq Nat BY <1>2
<1>4. jumped' \in SUBSET Nat BY <1>1, <1>3 DEF TypeOK
<1>5. QED BY <1>1, <1>2, <1>4

LEMMA SkipTypes == ASSUME TypeOK, Loop, SkipAhead PROVE TypeOK' /\ Loop'
<1>1. PICK ok \in BOOLEAN : Statement(ok) /\ UpsertCheckpoint(ok, Resume) BY SkipFacts
<1>2. Resume \in 1..(latest + 1)
  <2>1. Resume \in 1..latest /\ latest \in Nat BY SkipFacts, LedgersAssumption DEF TypeOK
  <2>2. QED BY <2>1
<1>3. pc # "down" BY SkipFacts
<1>4. QED BY <1>1, <1>2, <1>3, SkipFacts, EndTypes

LEMMA SaveFacts ==
  ASSUME TypeOK, Loop, SaveCheckpoint
  PROVE  /\ \E ok \in BOOLEAN : Statement(ok) /\ UpsertCheckpoint(ok, NextCheckpoint)
         /\ NextCheckpoint \in 1..(latest + 1) /\ startLedger <= NextCheckpoint
         /\ pc = "save" /\ pc' = "sleep" /\ EndBatch /\ UNCHANGED jumped
         /\ UNCHANGED <<outside, useDb, logged, transactions, auctions, dailyMetric,
                        crashes, affected, readFailed, base>>
<1>1. /\ \E ok \in BOOLEAN : Statement(ok) /\ UpsertCheckpoint(ok, NextCheckpoint)
      /\ pc = "save" /\ pc' = "sleep" /\ EndBatch /\ UNCHANGED jumped
      /\ UNCHANGED <<outside, useDb, logged, transactions, auctions, dailyMetric,
                     crashes, affected, readFailed, base>>
  BY DEF SaveCheckpoint, history
<1>2. /\ latestSeen \in FirstLedger..latest /\ startLedger \in 1..latestSeen
      /\ endLedger \in startLedger..latestSeen /\ lastLedgerSeen \in startLedger..endLedger
      /\ FirstLedger \in Nat /\ latest \in Nat
  BY <1>1, LedgersAssumption DEF Loop, InBatch, TypeOK
<1>3. /\ endLedger + 1 \in 1..(latest + 1) /\ startLedger <= endLedger + 1
      /\ lastLedgerSeen \in 1..(latest + 1) /\ startLedger <= lastLedgerSeen
  BY <1>2
<1>4. NextCheckpoint \in 1..(latest + 1) /\ startLedger <= NextCheckpoint
  BY <1>3 DEF NextCheckpoint
<1>5. QED BY <1>1, <1>4

LEMMA SaveTypes == ASSUME TypeOK, Loop, SaveCheckpoint PROVE TypeOK' /\ Loop'
<1>1. PICK ok \in BOOLEAN : Statement(ok) /\ UpsertCheckpoint(ok, NextCheckpoint) BY SaveFacts
<1>2. pc # "down" /\ jumped' \in SUBSET Nat BY SaveFacts DEF TypeOK
<1>3. QED BY <1>1, <1>2, SaveFacts, EndTypes

LEMMA LogFacts ==
  ASSUME TypeOK, Loop, LogEvent
  PROVE  /\ \E ok \in BOOLEAN :
              /\ Statement(ok)
              /\ logged' = IF useDb /\ ok THEN logged \cup {NextEvent} ELSE logged
              /\ affected' = IF ok THEN affected ELSE affected \cup {NextEvent}
         /\ pc = "log" /\ pc' = "apply" /\ todo # {} /\ faults' \in Nat
         /\ UNCHANGED <<latest, admin, latestSeen, startLedger, endLedger, cursor, page,
                        complete, todo, lastLedgerSeen, attempts, useDb, memCheckpoint,
                        checkpoint, transactions, auctions, dailyMetric, crashes, jumped,
                        readFailed, base>>
BY DEF LogEvent, DbLogEvent, Written, Statement, TypeOK, outside, batchVars, memVars

LEMMA LogTypes == ASSUME TypeOK, Loop, Batch, LogEvent PROVE TypeOK' /\ Loop'
<1>1. PICK ok \in BOOLEAN :
        /\ logged' = IF useDb /\ ok THEN logged \cup {NextEvent} ELSE logged
        /\ affected' = IF ok THEN affected ELSE affected \cup {NextEvent}
  BY LogFacts
<1>2. /\ pc = "log" /\ pc' = "apply" /\ todo # {} /\ faults' \in Nat
      /\ UNCHANGED <<latest, admin, latestSeen, startLedger, endLedger, cursor, page,
                     complete, todo, lastLedgerSeen, attempts, useDb, memCheckpoint,
                     checkpoint, transactions, auctions, dailyMetric, crashes, jumped,
                     readFailed, base>>
  BY LogFacts
<1>3. NextEvent \in WatchedEvents /\ NextEvent \in Events BY <1>2, ToCome DEF Batch
<1>4. logged' \subseteq WatchedEvents /\ logged' \subseteq Events /\ affected' \subseteq Events
  BY <1>1, <1>3 DEF TypeOK, Loop
<1>5. TypeOK' BY <1>2, <1>4 DEF TypeOK
<1>6. Loop'
  <2>1. logged' \subseteq WatchedEvents' BY <1>4 DEF WatchedEvents, Watched
  <2>2. QED BY <1>2, <2>1 DEF Loop, InBatch
<1>7. QED BY <1>5, <1>6

\* What applying an event does: to the rows of its own auction only.
Applies(e, ok) ==
  /\ affected' = IF ok THEN affected ELSE affected \cup {e}
  /\ todo' = todo \ {e}
  /\ lastLedgerSeen' \in {lastLedgerSeen, LedgerOf(e)} /\ lastLedgerSeen <= lastLedgerSeen'
  /\ auctions' \in [AuctionIds -> {NoRow, "active", "closed"}]
  /\ \A a \in AuctionIds \ {Chain[e].auction} : auctions'[a] = auctions[a]
  /\ ok /\ useDb /\ e \in Indexed(Chain[e].auction) => Mirrors(Chain[e].auction, e)'
  /\ e \notin Indexed(Chain[e].auction) /\ e \in logged => UNCHANGED auctions
  /\ ~useDb => UNCHANGED auctions /\ ok

LEMMA ApplyFacts ==
  ASSUME TypeOK, Loop, Batch, ApplyEvent
  PROVE  /\ \E ok \in BOOLEAN, e \in todo : e = NextEvent /\ Applies(e, ok)
         /\ pc = "apply" /\ pc' = "log" /\ faults' \in Nat
         /\ transactions' \subseteq Events
         /\ UNCHANGED <<latest, admin, latestSeen, startLedger, endLedger, cursor, page,
                        complete, attempts, useDb, memCheckpoint, checkpoint, logged,
                        dailyMetric, crashes, jumped, readFailed, base>>
<1>0. PICK e \in todo : e = NextEvent BY ToCome DEF ApplyEvent
<1> DEFINE a == Chain[e].auction
           kind == Chain[e].name
           throws == ~Chain[e].data /\ kind \in Moves \cup {"AuctionCreated", "AuctionFilled"}
           writes == ~throws /\ (kind \in Moves => Chain[e].user)
<1>1. PICK ok \in BOOLEAN :
        /\ Statement(ok)
        /\ \/ kind \in Moves /\ writes
              /\ DbInsertTransaction(ok, e) /\ UNCHANGED auctions
           \/ kind = "AuctionCreated" /\ writes
              /\ DbUpsertAuction(ok, a) /\ UNCHANGED transactions
           \/ kind = "AuctionFilled" /\ writes
              /\ DbCloseAuction(ok, a) /\ UNCHANGED transactions
           \/ (kind \notin Moves \cup {"AuctionCreated", "AuctionFilled"} \/ ~writes)
              /\ ok /\ UNCHANGED <<transactions, auctions>>
        /\ affected' = IF ok THEN affected ELSE affected \cup {e}
  BY <1>0 DEF ApplyEvent
<1>2. /\ pc = "apply" /\ pc' = "log" /\ todo' = todo \ {e}
      /\ lastLedgerSeen' = IF throws THEN lastLedgerSeen
                           ELSE Max({lastLedgerSeen, LedgerOf(e)})
      /\ UNCHANGED <<latest, admin, latestSeen, startLedger, endLedger, cursor, page,
                     complete, attempts, useDb, memCheckpoint, checkpoint, logged,
                     dailyMetric, crashes, jumped, readFailed, base>>
  BY <1>0 DEF ApplyEvent, outside, memVars
<1>3. e \in Events /\ LedgerOf(e) \in Nat /\ lastLedgerSeen \in Nat /\ a \in AuctionIds
  <2>1. e \in Events /\ LedgerOf(e) \in Nat BY ChainFacts DEF TypeOK
  <2>2. lastLedgerSeen \in Nat BY DEF TypeOK
  <2>3. QED BY <2>1, <2>2 DEF AuctionIds
<1>4. lastLedgerSeen' \in {lastLedgerSeen, LedgerOf(e)} /\ lastLedgerSeen <= lastLedgerSeen'
  <2>1. CASE throws BY <1>2, <1>3, <2>1
  <2>2. CASE ~throws BY <1>2, <1>3, <2>2, Pair
  <2>3. QED BY <2>1, <2>2
<1>5. faults' \in Nat /\ (~useDb => ok) BY <1>1 DEF Statement, TypeOK
<1>6. transactions' \subseteq Events
  BY <1>1, <1>3 DEF DbInsertTransaction, Written, TypeOK
<1> DEFINE rows == {NoRow, "active", "closed"}
<1>7. auctions \in [AuctionIds -> rows] /\ auctions[a] \in rows BY <1>3 DEF TypeOK
<1>8. NoRow # "active" BY DEF NoRow
<1> DEFINE good ==
        /\ auctions' \in [AuctionIds -> rows]
        /\ \A b \in AuctionIds \ {a} : auctions'[b] = auctions[b]
        /\ ok /\ useDb /\ e \in Indexed(a) => Mirrors(a, e)'
        /\ e \notin Indexed(a) /\ e \in logged => UNCHANGED auctions
        /\ ~useDb => UNCHANGED auctions
<1>9. ASSUME kind = "AuctionCreated" /\ ~throws /\ DbUpsertAuction(ok, a) PROVE good
  <2>1. auctions' = IF useDb /\ ok THEN [auctions EXCEPT ![a] = "active"] ELSE auctions
    BY <1>9 DEF DbUpsertAuction, Written
  <2>2. /\ auctions' \in [AuctionIds -> rows]
        /\ \A b \in AuctionIds \ {a} : auctions'[b] = auctions[b]
        /\ useDb /\ ok => auctions'[a] = "active"
        /\ ~useDb => UNCHANGED auctions
    BY <1>3, <1>7, <2>1
  <2>3. Chain[e].data BY <1>9
  <2>4. e \in logged => e \in Indexed(a) BY <1>9, <2>3 DEF Indexed
  <2>5. ok /\ useDb => Mirrors(a, e)' BY <1>9, <2>2 DEF Mirrors
  <2>6. good BY <2>2, <2>4, <2>5, Zenon
  <2>7. QED BY <2>6
<1>10. ASSUME kind = "AuctionFilled" /\ ~throws /\ DbCloseAuction(ok, a) PROVE good
  <2> DEFINE row == IF auctions[a] = NoRow THEN NoRow ELSE "closed"
  <2>1. auctions' = IF useDb /\ ok THEN [auctions EXCEPT ![a] = row] ELSE auctions
    BY <1>10 DEF DbCloseAuction, Written
  <2>2. row \in rows /\ row # "active" BY <1>8
  <2> HIDE DEF row
  <2>3. /\ auctions' \in [AuctionIds -> rows]
        /\ \A b \in AuctionIds \ {a} : auctions'[b] = auctions[b]
        /\ useDb /\ ok => auctions'[a] # "active"
        /\ ~useDb => UNCHANGED auctions
    BY <1>3, <1>7, <2>1, <2>2
  <2>4. Chain[e].data BY <1>10
  <2>5. e \in logged => e \in Indexed(a) BY <1>10, <2>4 DEF Indexed
  <2>6. ok /\ useDb => Mirrors(a, e)' BY <1>10, <2>3 DEF Mirrors
  <2>7. good BY <2>3, <2>5, <2>6, Zenon
  <2>8. QED BY <2>7
<1>11. ASSUME kind \in Moves \/ kind \notin Moves \cup {"AuctionCreated", "AuctionFilled"} \/ ~writes,
              UNCHANGED auctions
       PROVE  good
  <2>1. e \notin Indexed(a) BY <1>11 DEF Indexed, Moves
  <2>2. good BY <1>7, <1>11, <2>1
  <2>3. QED BY <2>2
<1>12. good
  <2>1. writes => ~throws
    OBVIOUS
  <2> HIDE DEF good, kind, throws, writes, a
  <2>2. QED BY <1>1, <1>9, <1>10, <1>11, <2>1
<1>13. Applies(e, ok)
  <2>1. affected' = IF ok THEN affected ELSE affected \cup {e} BY <1>1
  <2>2. todo' = todo \ {e} BY <1>2
  <2>3. ~useDb => UNCHANGED auctions /\ ok BY <1>5, <1>12
  <2>4. QED BY <1>4, <1>12, <2>1, <2>2, <2>3, Zenon DEF Applies
<1>14. QED BY <1>0, <1>2, <1>5, <1>6, <1>13

LEMMA ApplyTypes == ASSUME TypeOK, Loop, Batch, ApplyEvent PROVE TypeOK' /\ Loop'
<1>1. PICK ok \in BOOLEAN, e \in todo : e = NextEvent /\ Applies(e, ok) BY ApplyFacts
<1>2. /\ pc = "apply" /\ pc' = "log" /\ faults' \in Nat
      /\ transactions' \subseteq Events
      /\ UNCHANGED <<latest, admin, latestSeen, startLedger, endLedger, cursor, page,
                     complete, attempts, useDb, memCheckpoint, checkpoint, logged,
                     dailyMetric, crashes, jumped, readFailed, base>>
  BY ApplyFacts
<1>3. /\ latestSeen \in FirstLedger..latest /\ startLedger \in 1..latestSeen
      /\ endLedger \in startLedger..latestSeen /\ lastLedgerSeen \in startLedger..endLedger
      /\ startLedger < latestSeen /\ FirstLedger \in Nat /\ latest \in Nat
  BY <1>2, LedgersAssumption DEF Loop, InBatch, TypeOK
<1>4. /\ e \in Events /\ LedgerOf(e) \in Nat
      /\ startLedger <= LedgerOf(e) /\ LedgerOf(e) <= endLedger
  <2>1. e \in Events BY DEF TypeOK
  <2>2. QED BY <2>1, ChainFacts DEF Batch
<1>5. /\ lastLedgerSeen' \in startLedger..endLedger /\ lastLedgerSeen' \in 0..latestSeen
      /\ affected' \subseteq Events /\ todo' \subseteq Events
      /\ auctions' \in [AuctionIds -> {NoRow, "active", "closed"}]
  BY <1>1, <1>3, <1>4 DEF Applies, TypeOK
<1>6. TypeOK' BY <1>2, <1>5 DEF TypeOK
<1>7. Loop'
  <2>1. logged' \subseteq WatchedEvents' BY <1>2 DEF Loop, WatchedEvents, Watched
  <2>2. QED BY <1>2, <1>3, <1>5, <2>1 DEF Loop, InBatch
<1>8. QED BY <1>6, <1>7

LEMMA SyncTypes == ASSUME TypeOK, Loop, SyncLiveState PROVE TypeOK' /\ Loop'
<1>1. /\ pc = "log" /\ pc' = "save" /\ todo = {} /\ faults' \in Nat
      /\ dailyMetric' \in {NoRow, "counted", "memory"}
      /\ UNCHANGED <<latest, admin, latestSeen, startLedger, endLedger, cursor, page,
                     complete, todo, lastLedgerSeen, attempts, useDb, memCheckpoint, checkpoint,
                     logged, transactions, auctions, crashes, affected, jumped, readFailed, base>>
  BY DEF SyncLiveState, Statement, RecordDailyMetric, GetStats, Written, TypeOK, outside,
         batchVars, memVars, history
<1>2. TypeOK' BY <1>1 DEF TypeOK
<1>3. Loop'
  <2>1. logged' \subseteq WatchedEvents' BY <1>1 DEF Loop, WatchedEvents, Watched
  <2>2. QED BY <1>1, <2>1 DEF Loop, InBatch
<1>4. QED BY <1>2, <1>3
-----------------------------------------------------------------------------
(* A batch has no gaps. *)

LEMMA BatchEnds ==
  ASSUME TypeOK, Loop', EndBatch, pc' \in {"down", "sleep"}
  PROVE  Batch'
<1>1. todo' = {} /\ lastLedgerSeen' = 0 /\ complete' = FALSE /\ cursor' = 0
  BY EndBatchFacts
<1>2. ASSUME NEW e \in WatchedEvents PROVE ~(LedgerOf(e) < 0) BY ChainFacts
<1>3. WatchedEvents' = WatchedEvents BY DEF WatchedEvents, Watched
<1>4. \A e \in WatchedEvents' : ~(LedgerOf(e) < lastLedgerSeen')
  BY <1>1, <1>2, <1>3
<1>5. QED BY <1>1, <1>4 DEF Batch, InBatch

LEMMA BatchIdle ==
  ASSUME TypeOK, Loop, Batch, ~InBatch, pc' \in {"poll", "checkpoint"},
         UNCHANGED <<cursor, complete, todo, lastLedgerSeen>>
  PROVE  Batch'
<1>1. todo' = {} /\ lastLedgerSeen' = 0 /\ ~complete' /\ cursor' = 0
  BY DEF Batch, Loop, InBatch
<1>2. ASSUME NEW e \in WatchedEvents PROVE ~(LedgerOf(e) < 0) BY ChainFacts
<1>3. WatchedEvents' = WatchedEvents BY DEF WatchedEvents, Watched
<1>4. \A e \in WatchedEvents' : ~(LedgerOf(e) < lastLedgerSeen')
  BY <1>1, <1>2, <1>3
<1>5. QED BY <1>1, <1>4 DEF Batch, InBatch

LEMMA BatchStays ==
  ASSUME Batch, InBatch' = InBatch, pc' = "apply" => pc = "apply",
         UNCHANGED <<startLedger, endLedger, cursor, complete, todo, lastLedgerSeen, useDb>>,
         Handled \subseteq Handled'
  PROVE  Batch'
<1>1. WatchedEvents' = WatchedEvents BY DEF WatchedEvents, Watched
<1>2. NextEvent' = NextEvent BY DEF NextEvent
<1>3. \A d \in todo : d \in WatchedEvents /\ startLedger <= LedgerOf(d) /\ LedgerOf(d) <= endLedger
  BY DEF Batch
<1>4. useDb => \A e \in WatchedEvents : startLedger <= LedgerOf(e) =>
        /\ \A d \in todo : e < d => e \in todo \cup Handled'
        /\ LedgerOf(e) < lastLedgerSeen => e \in todo \cup Handled'
        /\ complete /\ LedgerOf(e) <= endLedger => e \in todo \cup Handled'
        /\ cursor # 0 /\ e <= cursor => e \in todo \cup Handled'
  BY DEF Batch
<1>5. /\ pc' = "apply" /\ useDb => NextEvent \in Handled'
      /\ ~InBatch' => todo = {} /\ lastLedgerSeen = 0
  BY DEF Batch
<1>6. QED BY <1>1, <1>2, <1>3, <1>4, <1>5 DEF Batch

LEMMA ReadBatch == ASSUME TypeOK, Loop, Batch, ReadCheckpoint, Loop' PROVE Batch'
<1>1. PICK ok \in BOOLEAN, saved \in 0..(latest + 1), from \in 1..(latest + 1) :
        ReadsFrom(ok, saved, from)
  BY ReadFacts
<1>2. CASE pc' = "sleep" /\ EndBatch BY <1>2, BatchEnds
<1>3. CASE ~(pc' = "sleep" /\ EndBatch)
  <2>1. /\ pc' = "fetch" /\ startLedger' = from /\ lastLedgerSeen' = from
        /\ cursor' = 0 /\ complete' = FALSE /\ todo' = {}
    BY <1>1, <1>3 DEF ReadsFrom
  <2>2. ASSUME NEW e \in WatchedEvents PROVE ~(from <= LedgerOf(e) /\ LedgerOf(e) < from)
    <3>1. LedgerOf(e) \in Nat /\ from \in Int BY ChainFacts
    <3>2. QED BY <3>1
  <2>3. WatchedEvents' = WatchedEvents BY DEF WatchedEvents, Watched
  <2>4. \A e \in WatchedEvents' : ~(startLedger' <= LedgerOf(e) /\ LedgerOf(e) < lastLedgerSeen')
    BY <2>1, <2>2, <2>3
  <2>5. QED BY <2>1, <2>4 DEF Batch, InBatch
<1>4. QED BY <1>2, <1>3

LEMMA FetchBatch == ASSUME TypeOK, Loop, Batch, FetchPage PROVE Batch'
<1>1. PICK P \in SUBSET WatchedEvents, last \in BOOLEAN : Fetches(P, last) BY FetchFacts
<1>2. /\ pc = "fetch" /\ pc' \in {"log", "fetch"}
      /\ UNCHANGED <<startLedger, endLedger, lastLedgerSeen, useDb, logged, affected>>
  BY <1>1, FetchFacts DEF Fetches
<1>3. /\ todo' = todo \cup {e \in P : LedgerOf(e) <= endLedger} /\ complete' = last
      /\ Handled' = Handled /\ WatchedEvents' = WatchedEvents
  BY <1>1, <1>2 DEF Fetches, Handled, WatchedEvents, Watched
<1>4. \A d \in todo' : d \in WatchedEvents /\ startLedger <= LedgerOf(d) /\ LedgerOf(d) <= endLedger
  BY <1>1, <1>3 DEF Fetches, Batch
<1>5. ASSUME useDb, NEW e \in WatchedEvents, startLedger <= LedgerOf(e), ~(cursor < e)
      PROVE  e \in todo' \cup Handled'
  <2>1. e \in Nat \ {0} /\ cursor \in Nat BY ChainFacts DEF TypeOK
  <2>2. cursor # 0 /\ e <= cursor BY <1>5, <2>1
  <2>3. e \in todo \cup Handled BY <1>5, <2>2 DEF Batch
  <2>4. QED BY <1>3, <2>3
<1>6. ASSUME useDb, NEW e \in WatchedEvents, startLedger <= LedgerOf(e), NEW d \in todo', e < d
      PROVE  e \in todo' \cup Handled'
  <2>1. CASE d \in todo
    <3>1. e \in todo \cup Handled BY <1>6, <2>1 DEF Batch
    <3>2. QED BY <1>3, <3>1
  <2>2. CASE d \notin todo /\ cursor < e
    <3>1. d \in P /\ LedgerOf(d) <= endLedger BY <1>3, <2>2
    <3>2. e \in P BY <1>1, <1>6, <2>2, <3>1 DEF Fetches
    <3>3. LedgerOf(e) <= LedgerOf(d) /\ LedgerOf(e) \in Nat /\ LedgerOf(d) \in Nat
      BY <1>6, <3>1, <3>2, ChainFacts
    <3>4. LedgerOf(e) <= endLedger BY <3>1, <3>3 DEF TypeOK
    <3>5. QED BY <1>3, <3>2, <3>4
  <2>3. QED BY <1>5, <1>6, <2>1, <2>2
<1>7. ASSUME useDb, NEW e \in WatchedEvents, startLedger <= LedgerOf(e),
             complete', LedgerOf(e) <= endLedger
      PROVE  e \in todo' \cup Handled'
  <2>1. CASE cursor < e
    <3>1. e \in P BY <1>1, <1>3, <1>7, <2>1 DEF Fetches
    <3>2. QED BY <1>3, <1>7, <3>1
  <2>2. QED BY <1>5, <1>7, <2>1
<1>8. ASSUME useDb, NEW e \in WatchedEvents, startLedger <= LedgerOf(e),
             cursor' # 0, e <= cursor'
      PROVE  e \in todo' \cup Handled'
  <2>1. cursor' \in P /\ \A d \in P : LedgerOf(d) <= endLedger BY <1>1, <1>8 DEF Fetches
  <2>2. CASE cursor < e
    <3>1. cursor' \in Nat /\ e \in Nat BY <2>1, ChainFacts
    <3>2. e = cursor' \/ e < cursor' BY <1>8, <3>1
    <3>3. e \in P BY <1>1, <1>8, <2>1, <2>2, <3>2 DEF Fetches
    <3>4. QED BY <1>3, <2>1, <3>3
  <2>3. QED BY <1>5, <1>8, <2>2
<1>9. ASSUME useDb, NEW e \in WatchedEvents, startLedger <= LedgerOf(e),
             LedgerOf(e) < lastLedgerSeen
      PROVE  e \in todo' \cup Handled'
  <2>1. e \in todo \cup Handled BY <1>9 DEF Batch
  <2>2. QED BY <1>3, <2>1
<1>10. InBatch' /\ pc' # "apply" BY <1>2 DEF InBatch
<1>11. QED BY <1>2, <1>3, <1>4, <1>6, <1>7, <1>8, <1>9, <1>10 DEF Batch

LEMMA LogBatch == ASSUME TypeOK, Loop, Batch, LogEvent PROVE Batch'
<1>1. PICK ok \in BOOLEAN :
        /\ Statement(ok)
        /\ logged' = IF useDb /\ ok THEN logged \cup {NextEvent} ELSE logged
        /\ affected' = IF ok THEN affected ELSE affected \cup {NextEvent}
  BY LogFacts
<1>2. /\ pc = "log" /\ pc' = "apply"
      /\ UNCHANGED <<startLedger, endLedger, cursor, complete, todo, lastLedgerSeen, useDb>>
  BY LogFacts
<1>3. Handled \subseteq Handled' /\ (useDb => NextEvent \in Handled') BY <1>1 DEF Handled
<1>4. NextEvent' = NextEvent /\ WatchedEvents' = WatchedEvents
  BY <1>2 DEF NextEvent, WatchedEvents, Watched
<1>5. \A d \in todo : d \in WatchedEvents /\ startLedger <= LedgerOf(d) /\ LedgerOf(d) <= endLedger
  BY DEF Batch
<1>6. useDb => \A e \in WatchedEvents : startLedger <= LedgerOf(e) =>
        /\ \A d \in todo : e < d => e \in todo \cup Handled'
        /\ LedgerOf(e) < lastLedgerSeen => e \in todo \cup Handled'
        /\ complete /\ LedgerOf(e) <= endLedger => e \in todo \cup Handled'
        /\ cursor # 0 /\ e <= cursor => e \in todo \cup Handled'
  BY <1>3 DEF Batch
<1>7. QED BY <1>2, <1>3, <1>4, <1>5, <1>6 DEF Batch, InBatch

LEMMA ApplyBatch == ASSUME TypeOK, Loop, Batch, ApplyEvent PROVE Batch'
<1>1. PICK ok \in BOOLEAN, e \in todo : e = NextEvent /\ Applies(e, ok) BY ApplyFacts
<1>2. /\ pc = "apply" /\ pc' = "log"
      /\ UNCHANGED <<startLedger, endLedger, cursor, complete, useDb, logged>>
  BY ApplyFacts
<1>3. /\ todo' = todo \ {e} /\ Handled \subseteq Handled' /\ WatchedEvents' = WatchedEvents
      /\ lastLedgerSeen' \in {lastLedgerSeen, LedgerOf(e)}
  BY <1>1, <1>2 DEF Applies, Handled, WatchedEvents, Watched
<1>4. \A d \in todo' : d \in WatchedEvents /\ startLedger <= LedgerOf(d) /\ LedgerOf(d) <= endLedger
  BY <1>3 DEF Batch
<1>5. useDb => e \in Handled BY <1>1, <1>2 DEF Batch
<1>6. useDb => todo \cup Handled \subseteq todo' \cup Handled' BY <1>3, <1>5
<1>7. ASSUME useDb, NEW x \in WatchedEvents, startLedger <= LedgerOf(x),
             LedgerOf(x) < lastLedgerSeen'
      PROVE  x \in todo' \cup Handled'
  <2>1. CASE lastLedgerSeen' = lastLedgerSeen
    <3>1. x \in todo \cup Handled BY <1>7, <2>1 DEF Batch
    <3>2. QED BY <1>6, <1>7, <3>1
  <2>2. CASE lastLedgerSeen' = LedgerOf(e)
    <3>1. e \in Events /\ x \in Events /\ e \in Nat /\ x \in Nat BY ChainFacts DEF TypeOK
    <3>2. LedgerOf(x) \in Nat /\ LedgerOf(e) \in Nat BY <3>1, ChainFacts
    <3>3. ~(LedgerOf(e) <= LedgerOf(x)) BY <1>7, <2>2, <3>2
    <3>4. ~(e < x) /\ e # x BY <3>1, <3>2, <3>3, ChainFacts
    <3>5. x < e BY <3>1, <3>4
    <3>6. x \in todo \cup Handled BY <1>7, <3>5 DEF Batch
    <3>7. QED BY <1>6, <1>7, <3>6
  <2>3. QED BY <1>3, <2>1, <2>2
<1>8. ASSUME useDb, NEW x \in WatchedEvents, startLedger <= LedgerOf(x)
      PROVE  /\ \A d \in todo' : x < d => x \in todo' \cup Handled'
             /\ complete /\ LedgerOf(x) <= endLedger => x \in todo' \cup Handled'
             /\ cursor # 0 /\ x <= cursor => x \in todo' \cup Handled'
  <2>1. /\ \A d \in todo : x < d => x \in todo \cup Handled
        /\ complete /\ LedgerOf(x) <= endLedger => x \in todo \cup Handled
        /\ cursor # 0 /\ x <= cursor => x \in todo \cup Handled
    BY <1>8 DEF Batch
  <2>2. QED BY <1>3, <1>6, <1>8, <2>1
<1>9. InBatch' /\ pc' # "apply" BY <1>2 DEF InBatch
<1>10. QED BY <1>2, <1>3, <1>4, <1>7, <1>8, <1>9 DEF Batch
-----------------------------------------------------------------------------
(* Nothing is missed. *)

LEMMA KeptGrows ==
  ASSUME NEW lo, NEW hi, Kept(lo, hi), Handled \subseteq Handled', jumped \subseteq jumped'
  PROVE  KeptAfter(lo, hi)
BY DEF Kept, KeptAfter

\* Nothing lies before the first ledger.
LEMMA KeptToZero == ASSUME NEW lo PROVE Kept(lo, 0) /\ KeptAfter(lo, 0)
<1>1. ASSUME NEW e \in WatchedEvents PROVE ~(LedgerOf(e) < 0) BY ChainFacts
<1>2. QED BY <1>1 DEF Kept, KeptAfter

LEMMA KeptFromEnd == ASSUME NEW hi \in Nat PROVE KeptAfter(hi, hi)
<1>1. ASSUME NEW e \in WatchedEvents PROVE ~(hi <= LedgerOf(e) /\ LedgerOf(e) < hi)
  BY ChainFacts
<1>2. QED BY <1>1 DEF KeptAfter

LEMMA KeptJoined ==
  ASSUME NEW lo, NEW mid \in Nat, NEW hi, KeptAfter(lo, mid), KeptAfter(mid, hi)
  PROVE  KeptAfter(lo, hi)
<1>1. ASSUME NEW e \in WatchedEvents PROVE LedgerOf(e) < mid \/ mid <= LedgerOf(e)
  BY ChainFacts
<1>2. QED BY <1>1 DEF KeptAfter

LEMMA WholeAfter ==
  ASSUME KeptAfter(base', checkpoint'),
         useDb' => KeptAfter(base', memCheckpoint') /\ KeptAfter(base', admin'.read),
         useDb' /\ InBatch' => KeptAfter(base', startLedger'),
         admin'.read # 0 => checkpoint' # 0
  PROVE  Whole'
<1>1. WatchedEvents' = WatchedEvents BY DEF WatchedEvents, Watched
<1>2. QED BY <1>1 DEF Whole, Kept, KeptAfter

LEMMA WholeStays ==
  ASSUME Whole, UNCHANGED <<base, checkpoint, memCheckpoint, useDb>>, admin'.read = admin.read,
         InBatch' => InBatch /\ startLedger' = startLedger,
         Handled \subseteq Handled', jumped \subseteq jumped'
  PROVE  Whole'
<1>1. KeptAfter(base, checkpoint) BY KeptGrows DEF Whole
<1>2. useDb => KeptAfter(base, memCheckpoint) /\ KeptAfter(base, admin.read)
  BY KeptGrows DEF Whole
<1>3. useDb /\ InBatch => KeptAfter(base, startLedger) BY KeptGrows DEF Whole
<1>4. admin'.read # 0 => checkpoint' # 0 BY DEF Whole
<1>5. QED BY <1>1, <1>2, <1>3, <1>4, WholeAfter

LEMMA StartWhole == ASSUME TypeOK, Loop, Whole, Start PROVE Whole'
<1>1. /\ memCheckpoint' = 0 /\ admin'.read = 0 /\ pc' = "poll"
      /\ UNCHANGED <<base, checkpoint, logged, affected, jumped>>
  BY DEF Start, Loop, outside, dbVars, history
<1>2. KeptAfter(base, checkpoint) BY <1>1, KeptGrows DEF Whole, Handled
<1>3. ~InBatch' BY <1>1 DEF InBatch
<1>4. QED BY <1>1, <1>2, <1>3, KeptToZero, WholeAfter

LEMMA CrashWhole == ASSUME TypeOK, Loop, Whole, Crash PROVE Whole'
<1>1. /\ admin'.read = 0 /\ ~useDb' /\ UNCHANGED <<base, checkpoint, logged, affected, jumped>>
  BY DEF Crash, TypeOK, dbVars, history
<1>2. KeptAfter(base, checkpoint) BY <1>1, KeptGrows DEF Whole, Handled
<1>3. QED BY <1>1, <1>2, WholeAfter

LEMMA AdminReadsWhole == ASSUME TypeOK, Loop, Whole, AdminReads PROVE Whole'
<1>1. /\ admin'.read = checkpoint
      /\ UNCHANGED <<base, checkpoint, memCheckpoint, useDb, pc, startLedger, logged, affected,
                     jumped>>
  BY DEF AdminReads, TypeOK, batchVars, memVars, dbVars, history
<1>2. Handled' = Handled /\ InBatch' = InBatch BY <1>1 DEF Handled, InBatch
<1>3. KeptAfter(base, checkpoint) BY <1>1, <1>2, KeptGrows DEF Whole
<1>4. useDb => KeptAfter(base, memCheckpoint) BY <1>1, <1>2, KeptGrows DEF Whole
<1>5. useDb /\ InBatch => KeptAfter(base, startLedger) BY <1>1, <1>2, KeptGrows DEF Whole
<1>6. QED BY <1>1, <1>2, <1>3, <1>4, <1>5, WholeAfter

LEMMA AdminAnsweredWhole == ASSUME TypeOK, Loop, Whole, AdminAnswered PROVE Whole'
<1>1. /\ memCheckpoint' = admin.read /\ admin'.read = 0
      /\ UNCHANGED <<base, checkpoint, useDb, pc, startLedger, logged, affected, jumped>>
  BY DEF AdminAnswered, batchVars, dbVars, history
<1>2. Handled' = Handled /\ InBatch' = InBatch BY <1>1 DEF Handled, InBatch
<1>3. KeptAfter(base, checkpoint) BY <1>1, <1>2, KeptGrows DEF Whole
<1>4. useDb => KeptAfter(base, admin.read) BY <1>1, <1>2, KeptGrows DEF Whole
<1>5. useDb /\ InBatch => KeptAfter(base, startLedger) BY <1>1, <1>2, KeptGrows DEF Whole
<1>6. QED BY <1>1, <1>2, <1>3, <1>4, <1>5, KeptToZero, WholeAfter

\* The batch starts where the record is whole: at a checkpoint, at the start
\* of the record or, when the checkpoint could not be read, after a jump.
LEMMA ReadWhole == ASSUME TypeOK, Loop, Whole, ReadCheckpoint PROVE Whole'
<1>1. PICK ok \in BOOLEAN, saved \in 0..(latest + 1), from \in 1..(latest + 1) :
        ReadsFrom(ok, saved, from)
  BY ReadFacts
<1>2. UNCHANGED <<admin, useDb, checkpoint, logged, affected>> BY ReadFacts
<1>3. /\ memCheckpoint' = saved
      /\ base' = IF saved = 0 /\ useDb /\ checkpoint = 0 THEN from ELSE base
      /\ jumped' = IF saved = 0 /\ useDb /\ checkpoint # 0
                   THEN jumped \cup checkpoint..(from - 1) ELSE jumped
      /\ saved # 0 => from = saved
      /\ saved # 0 => saved = memCheckpoint \/ saved = checkpoint
  BY <1>1 DEF ReadsFrom
<1>4. InBatch' => startLedger' = from BY <1>1, EndBatchFacts DEF ReadsFrom, InBatch
<1>5. Handled \subseteq Handled' /\ jumped \subseteq jumped'
  <2>1. jumped \subseteq jumped' BY <1>3
  <2>2. QED BY <1>2, <2>1 DEF Handled
<1>6. from \in Nat /\ checkpoint \in Nat BY LedgersAssumption DEF TypeOK
<1>7. CASE saved = 0 /\ useDb /\ checkpoint = 0
  <2>1. base' = from /\ checkpoint' = 0 /\ memCheckpoint' = 0 /\ admin'.read = 0
    BY <1>2, <1>3, <1>7 DEF Whole
  <2>2. KeptAfter(base', from) BY <1>6, <2>1, KeptFromEnd
  <2>3. QED BY <1>4, <2>1, <2>2, KeptToZero, WholeAfter
<1>8. CASE saved = 0 /\ useDb /\ checkpoint # 0
  <2>1. base' = base /\ memCheckpoint' = 0 BY <1>3, <1>8
  <2>2. KeptAfter(base, checkpoint) /\ KeptAfter(base, admin.read)
    BY <1>5, <1>8, KeptGrows DEF Whole
  <2>3. KeptAfter(checkpoint, from)
    <3>1. checkpoint..(from - 1) \subseteq jumped' BY <1>3, <1>8
    <3>2. ASSUME NEW e \in WatchedEvents, checkpoint <= LedgerOf(e), LedgerOf(e) < from
          PROVE  LedgerOf(e) \in checkpoint..(from - 1)
      <4>1. LedgerOf(e) \in Nat BY ChainFacts
      <4>2. QED BY <1>6, <3>2, <4>1
    <3>3. QED BY <3>1, <3>2 DEF KeptAfter
  <2>4. KeptAfter(base, from) BY <1>6, <2>2, <2>3, KeptJoined
  <2>5. admin'.read # 0 => checkpoint' # 0 BY <1>2 DEF Whole
  <2>6. QED BY <1>2, <1>4, <2>1, <2>2, <2>4, <2>5, KeptToZero, WholeAfter
<1>9. CASE saved # 0 \/ ~useDb
  <2>1. base' = base BY <1>3, <1>9
  <2>2. KeptAfter(base, checkpoint) BY <1>5, KeptGrows DEF Whole
  <2>3. useDb => KeptAfter(base, memCheckpoint) /\ KeptAfter(base, admin.read)
    BY <1>5, KeptGrows DEF Whole
  <2>4. useDb => from = saved /\ KeptAfter(base, saved) BY <1>3, <1>9, <2>2, <2>3
  <2>5. admin'.read # 0 => checkpoint' # 0 BY <1>2 DEF Whole
  <2>6. QED BY <1>2, <1>3, <1>4, <2>1, <2>2, <2>3, <2>4, <2>5, WholeAfter
<1>10. QED BY <1>7, <1>8, <1>9

\* The batch ends with a checkpoint up to which the record is whole.
LEMMA EndWhole ==
  ASSUME TypeOK, Loop, Whole, NEW ok \in BOOLEAN, NEW ledger \in 1..(latest + 1),
         UpsertCheckpoint(ok, ledger), pc' = "sleep",
         UNCHANGED <<outside, useDb, logged, affected, base>>, jumped \subseteq jumped',
         useDb => KeptAfter(base, ledger)
  PROVE  Whole'
<1>1. /\ memCheckpoint' = ledger /\ admin' = admin
      /\ checkpoint' = IF useDb /\ ok THEN ledger ELSE checkpoint
  BY DEF UpsertCheckpoint, Written, outside
<1>2. Handled' = Handled /\ ~InBatch' BY DEF Handled, InBatch
<1>3. KeptAfter(base, checkpoint) BY <1>2, KeptGrows DEF Whole
<1>4. useDb => KeptAfter(base, admin.read) BY <1>2, KeptGrows DEF Whole
<1>5. KeptAfter(base', checkpoint') BY <1>1, <1>3
<1>6. ledger # 0 BY LedgersAssumption DEF TypeOK
<1>7. admin'.read # 0 => checkpoint' # 0 BY <1>1, <1>6 DEF Whole
<1>8. QED BY <1>1, <1>2, <1>4, <1>5, <1>7, WholeAfter

LEMMA SkipWhole == ASSUME TypeOK, Loop, Whole, SkipAhead PROVE Whole'
<1>1. PICK ok \in BOOLEAN : UpsertCheckpoint(ok, Resume) BY SkipFacts
<1>2. /\ Resume \in 1..latest /\ pc = "fetch" /\ pc' = "sleep"
      /\ jumped' = jumped \cup startLedger..(Resume - 1)
      /\ UNCHANGED <<outside, useDb, logged, affected, base>>
  BY SkipFacts
<1>3. Resume \in 1..(latest + 1) /\ Resume \in Nat /\ startLedger \in Nat
  BY <1>2, LedgersAssumption DEF TypeOK
<1>4. jumped \subseteq jumped' /\ Handled' = Handled BY <1>2 DEF Handled
<1>5. useDb => KeptAfter(base, startLedger) BY <1>2, <1>4, KeptGrows DEF Whole, InBatch
<1>6. KeptAfter(startLedger, Resume)
  <2>1. ASSUME NEW e \in WatchedEvents, startLedger <= LedgerOf(e), LedgerOf(e) < Resume
        PROVE  LedgerOf(e) \in startLedger..(Resume - 1)
    <3>1. LedgerOf(e) \in Nat BY ChainFacts
    <3>2. QED BY <1>3, <2>1, <3>1
  <2>2. QED BY <1>2, <2>1 DEF KeptAfter
<1>7. useDb => KeptAfter(base, Resume) BY <1>3, <1>5, <1>6, KeptJoined
<1>8. QED BY <1>1, <1>2, <1>3, <1>4, <1>7, EndWhole

LEMMA SaveWhole == ASSUME TypeOK, Loop, Batch, Whole, SaveCheckpoint PROVE Whole'
<1>1. PICK ok \in BOOLEAN : UpsertCheckpoint(ok, NextCheckpoint) BY SaveFacts
<1>2. /\ NextCheckpoint \in 1..(latest + 1) /\ pc = "save" /\ pc' = "sleep"
      /\ UNCHANGED <<outside, useDb, logged, affected, base, jumped>>
  BY SaveFacts
<1>3. Handled' = Handled /\ todo = {} /\ startLedger \in Nat /\ endLedger \in Nat
  BY <1>2 DEF Handled, Loop, TypeOK
<1>4. useDb => KeptAfter(base, startLedger) BY <1>2, <1>3, KeptGrows DEF Whole, InBatch
<1>5. ASSUME useDb PROVE KeptAfter(startLedger, NextCheckpoint)
  <2>1. ASSUME NEW e \in WatchedEvents, startLedger <= LedgerOf(e), LedgerOf(e) < NextCheckpoint
        PROVE  e \in Handled
    <3>1. LedgerOf(e) \in Nat BY ChainFacts
    <3>2. CASE complete
      <4>1. LedgerOf(e) <= endLedger BY <1>3, <2>1, <3>1, <3>2 DEF NextCheckpoint
      <4>2. QED BY <1>3, <1>5, <2>1, <3>2, <4>1 DEF Batch
    <3>3. CASE ~complete
      <4>1. LedgerOf(e) < lastLedgerSeen BY <2>1, <3>3 DEF NextCheckpoint
      <4>2. QED BY <1>3, <1>5, <2>1, <4>1 DEF Batch
    <3>4. QED BY <3>2, <3>3
  <2>2. QED BY <1>3, <2>1 DEF KeptAfter
<1>6. useDb => KeptAfter(base, NextCheckpoint) BY <1>3, <1>4, <1>5, KeptJoined
<1>7. QED BY <1>1, <1>2, <1>6, EndWhole
-----------------------------------------------------------------------------
(* The invariant, and what it says of the checkpoint. *)

LEMMA InitInv == Init => IndexerInv
<1> SUFFICES ASSUME Init PROVE IndexerInv OBVIOUS
<1>1. /\ 0 \in 0..RETRIES /\ 0 \in 0..MAX_PAGES_PER_BATCH /\ 0 \in 0..0
      /\ FirstLedger \in FirstLedger..MaxLedger /\ 0 \in 0..FirstLedger
      /\ 0 \in 0..(FirstLedger + 1)
  BY LedgersAssumption, SizesAssumption
<1>2. TypeOK BY <1>1, Zenon DEF Init, TypeOK
<1>3. Loop BY DEF Init, Loop, InBatch
<1>4. \A e \in WatchedEvents : ~(LedgerOf(e) < 0)
  <2>1. ASSUME NEW e \in WatchedEvents PROVE ~(LedgerOf(e) < 0) BY ChainFacts
  <2>2. QED BY <2>1
<1>5. Batch BY <1>4 DEF Init, Batch, InBatch
<1>6. Whole BY KeptToZero DEF Init, Whole, InBatch
<1>7. QED BY <1>2, <1>3, <1>5, <1>6 DEF IndexerInv

LEMMA StutterInv == ASSUME IndexerInv, UNCHANGED vars PROVE IndexerInv'
<1>1. /\ UNCHANGED <<latest, admin, pc, latestSeen, startLedger, endLedger, cursor, page, complete,
                     todo, lastLedgerSeen, attempts, useDb, memCheckpoint>>
      /\ UNCHANGED <<checkpoint, logged, transactions, auctions, dailyMetric, faults, crashes,
                     affected, jumped, readFailed, base>>
  BY DEF vars, outside, batchVars, memVars, dbVars, history
<1>2. TypeOK' BY <1>1 DEF IndexerInv, TypeOK
<1>3. WatchedEvents' = WatchedEvents BY DEF WatchedEvents, Watched
<1>4. Loop' BY <1>1, <1>3 DEF IndexerInv, Loop, InBatch
<1>5. Handled' = Handled /\ InBatch' = InBatch BY <1>1 DEF Handled, InBatch
<1>6. Batch' BY <1>1, <1>5, BatchStays DEF IndexerInv
<1>7. Whole' BY <1>1, <1>5, WholeStays DEF IndexerInv
<1>8. QED BY <1>2, <1>4, <1>6, <1>7 DEF IndexerInv

LEMMA StepInv == ASSUME IndexerInv, Next PROVE IndexerInv'
<1>1. TypeOK /\ Loop /\ Batch /\ Whole BY DEF IndexerInv
<1>2. CASE Start
  <2>1. /\ pc = "down" /\ pc' = "poll" /\ UNCHANGED <<cursor, complete, todo, lastLedgerSeen>>
    BY <1>2 DEF Start, batchVars
  <2>2. Batch' BY <1>1, <2>1, BatchIdle DEF InBatch
  <2>3. QED BY <1>1, <1>2, <2>2, StartTypes, StartWhole DEF IndexerInv
<1>3. CASE Poll
  <2>1. /\ pc = "poll" /\ pc' = "checkpoint"
        /\ UNCHANGED <<cursor, complete, todo, lastLedgerSeen, startLedger, admin, base, checkpoint,
                       memCheckpoint, useDb, logged, affected, jumped>>
    BY <1>3 DEF Poll, outside, memVars, dbVars, history
  <2>2. Batch' BY <1>1, <2>1, BatchIdle DEF InBatch
  <2>3. Whole' BY <1>1, <2>1, WholeStays DEF InBatch, Handled
  <2>4. QED BY <1>1, <1>3, <2>2, <2>3, PollTypes DEF IndexerInv
<1>4. CASE ReadCheckpoint
  <2>1. TypeOK' /\ Loop' BY <1>1, <1>4, ReadTypes
  <2>2. QED BY <1>1, <1>4, <2>1, ReadBatch, ReadWhole DEF IndexerInv
<1>5. CASE FetchPage
  <2>1. /\ pc = "fetch"
        /\ UNCHANGED <<startLedger, admin, base, checkpoint, memCheckpoint, useDb, logged, affected,
                       jumped>>
    BY <1>1, <1>5, FetchFacts
  <2>2. Whole' BY <1>1, <2>1, WholeStays DEF InBatch, Handled
  <2>3. QED BY <1>1, <1>5, <2>2, FetchTypes, FetchBatch DEF IndexerInv
<1>6. CASE SkipAhead
  <2>1. TypeOK' /\ Loop' BY <1>1, <1>6, SkipTypes
  <2>2. pc' = "sleep" /\ EndBatch BY <1>1, <1>6, SkipFacts
  <2>3. Batch' BY <1>1, <2>1, <2>2, BatchEnds
  <2>4. QED BY <1>1, <1>6, <2>1, <2>3, SkipWhole DEF IndexerInv
<1>7. CASE LogEvent
  <2>1. PICK ok \in BOOLEAN :
          /\ logged' = IF useDb /\ ok THEN logged \cup {NextEvent} ELSE logged
          /\ affected' = IF ok THEN affected ELSE affected \cup {NextEvent}
    BY <1>1, <1>7, LogFacts
  <2>2. /\ pc = "log"
        /\ UNCHANGED <<startLedger, admin, base, checkpoint, memCheckpoint, useDb, jumped>>
    BY <1>1, <1>7, LogFacts
  <2>3. Handled \subseteq Handled' BY <2>1 DEF Handled
  <2>4. Whole' BY <1>1, <2>2, <2>3, WholeStays DEF InBatch
  <2>5. QED BY <1>1, <1>7, <2>4, LogTypes, LogBatch DEF IndexerInv
<1>8. CASE ApplyEvent
  <2>1. PICK ok \in BOOLEAN, e \in todo : Applies(e, ok) BY <1>1, <1>8, ApplyFacts
  <2>2. /\ pc = "apply"
        /\ UNCHANGED <<startLedger, admin, base, checkpoint, memCheckpoint, useDb, logged, jumped>>
    BY <1>1, <1>8, ApplyFacts
  <2>3. Handled \subseteq Handled' BY <2>1, <2>2 DEF Handled, Applies
  <2>4. Whole' BY <1>1, <2>2, <2>3, WholeStays DEF InBatch
  <2>5. QED BY <1>1, <1>8, <2>4, ApplyTypes, ApplyBatch DEF IndexerInv
<1>9. CASE SyncLiveState
  <2>1. /\ pc = "log" /\ pc' = "save"
        /\ UNCHANGED <<startLedger, endLedger, cursor, complete, todo, lastLedgerSeen, admin, base,
                       checkpoint, memCheckpoint, useDb, logged, affected, jumped>>
    BY <1>9 DEF SyncLiveState, outside, batchVars, memVars, history
  <2>2. Handled' = Handled /\ InBatch' = InBatch BY <2>1 DEF Handled, InBatch
  <2>3. Batch' BY <1>1, <2>1, <2>2, BatchStays
  <2>4. Whole' BY <1>1, <2>1, <2>2, WholeStays
  <2>5. QED BY <1>1, <1>9, <2>3, <2>4, SyncTypes DEF IndexerInv
<1>10. CASE SaveCheckpoint
  <2>1. TypeOK' /\ Loop' BY <1>1, <1>10, SaveTypes
  <2>2. pc' = "sleep" /\ EndBatch BY <1>1, <1>10, SaveFacts
  <2>3. Batch' BY <1>1, <2>1, <2>2, BatchEnds
  <2>4. QED BY <1>1, <1>10, <2>1, <2>3, SaveWhole DEF IndexerInv
<1>11. CASE Sleep
  <2>1. /\ pc = "sleep" /\ pc' = "poll"
        /\ UNCHANGED <<cursor, complete, todo, lastLedgerSeen, startLedger, admin, base, checkpoint,
                       memCheckpoint, useDb, logged, affected, jumped>>
    BY <1>11 DEF Sleep, outside, batchVars, memVars, dbVars, history
  <2>2. Batch' BY <1>1, <2>1, BatchIdle DEF InBatch
  <2>3. Whole' BY <1>1, <2>1, WholeStays DEF InBatch, Handled
  <2>4. QED BY <1>1, <1>11, <2>2, <2>3, SleepTypes DEF IndexerInv
<1>12. CASE QueryFails
  <2>1. /\ TypeOK' /\ Loop'
        /\ (pc' = "sleep" /\ EndBatch) \/ UNCHANGED <<pc, batchVars>>
        /\ pc # "apply"
        /\ UNCHANGED <<admin, base, checkpoint, memCheckpoint, useDb, logged, affected, jumped>>
    BY <1>1, <1>12, QueryFailsTypes DEF QueryFails, outside, memVars, dbVars, history
  <2>2. Handled' = Handled BY <2>1 DEF Handled
  <2>3. CASE pc' = "sleep" /\ EndBatch
    <3>1. Batch' BY <1>1, <2>1, <2>3, BatchEnds
    <3>2. Whole' BY <1>1, <2>1, <2>2, <2>3, WholeStays DEF InBatch
    <3>3. QED BY <2>1, <3>1, <3>2 DEF IndexerInv
  <2>4. CASE UNCHANGED <<pc, batchVars>>
    <3>1. /\ InBatch' = InBatch /\ pc' = pc
          /\ UNCHANGED <<startLedger, endLedger, cursor, complete, todo, lastLedgerSeen>>
      BY <2>4 DEF InBatch, batchVars
    <3>2. Batch' BY <1>1, <2>1, <2>2, <3>1, BatchStays
    <3>3. Whole' BY <1>1, <2>1, <2>2, <3>1, WholeStays
    <3>4. QED BY <2>1, <3>2, <3>3 DEF IndexerInv
  <2>5. QED BY <2>1, <2>3, <2>4
<1>13. CASE Crash
  <2>1. TypeOK' /\ Loop' BY <1>1, <1>13, CrashTypes
  <2>2. pc' = "down" /\ EndBatch BY <1>13 DEF Crash
  <2>3. Batch' BY <1>1, <2>1, <2>2, BatchEnds
  <2>4. QED BY <1>1, <1>13, <2>1, <2>3, CrashWhole DEF IndexerInv
<1>14. CASE LedgerCloses \/ AdminReads \/ AdminAnswered
  <2>1. UNCHANGED <<pc, startLedger, endLedger, cursor, complete, todo, lastLedgerSeen, base,
                    checkpoint, useDb, logged, affected, jumped>>
    BY <1>14
       DEF LedgerCloses, AdminReads, AdminAnswered, batchVars, memVars, dbVars, history
  <2>2. Handled' = Handled /\ InBatch' = InBatch BY <2>1 DEF Handled, InBatch
  <2>3. Batch' BY <1>1, <2>1, <2>2, BatchStays
  <2>4. TypeOK' /\ Loop'
    BY <1>1, <1>14, LedgerClosesTypes, AdminReadsTypes, AdminAnsweredTypes
  <2>5. Whole'
    <3>1. CASE LedgerCloses
      <4>1. UNCHANGED <<admin, memCheckpoint>> BY <3>1 DEF LedgerCloses, memVars
      <4>2. QED BY <1>1, <2>1, <2>2, <4>1, WholeStays
    <3>2. QED BY <1>1, <1>14, <3>1, AdminReadsWhole, AdminAnsweredWhole
  <2>6. QED BY <2>3, <2>4, <2>5 DEF IndexerInv
<1>15. QED
  BY <1>2, <1>3, <1>4, <1>5, <1>6, <1>7, <1>8, <1>9, <1>10, <1>11, <1>12, <1>13, <1>14
     DEF Next, IndexerStep

\* The loop's invariant: wherever it is, and wherever it crashed, the record
\* is whole up to the checkpoints and what a batch has taken has no gap.
THEOREM IndexerInvariant == Spec => []IndexerInv
<1>1. IndexerInv /\ [Next]_vars => IndexerInv' BY StepInv, StutterInv
<1>2. QED BY <1>1, InitInv, PTL DEF Spec

\* Every variable of the indexer keeps its type.
THEOREM IndexerTypes == Spec => []TypeOK
<1>1. IndexerInv => TypeOK BY DEF IndexerInv
<1>2. QED BY <1>1, IndexerInvariant, PTL

\* No event of a watched contract before the saved checkpoint is without its
\* row, unless a statement failed or the checkpoint was moved without a fetch:
\* no crash, cut window or page that ran past the window loses one
\* (indexer.ts, indexNextBatch and fetchEvents).
THEOREM NothingIsEverMissed == Spec => []NothingMissed
<1>1. ASSUME IndexerInv PROVE NothingMissed
  <2>1. Kept(base, checkpoint) BY <1>1 DEF IndexerInv, Whole
  <2>2. QED BY <2>1 DEF Kept, Handled, WatchedEvents, NothingMissed
<1>2. QED BY <1>1, IndexerInvariant, PTL
-----------------------------------------------------------------------------
(* What is to come stays to come, in order. *)

LEMMA LaterStays ==
  ASSUME NEW e, Later(e), pc' = "fetch" => pc = "fetch",
         UNCHANGED <<todo, lastLedgerSeen, cursor, complete, endLedger>>
  PROVE  Later(e)'
BY DEF Later

\* What the last page has not reached is still to come after this page.
LEMMA FetchLater ==
  ASSUME TypeOK, Loop, InOrder, FetchPage,
         NEW e \in WatchedEvents, cursor < e, startLedger <= LedgerOf(e)
  PROVE  Later(e)'
<1>1. PICK P \in SUBSET WatchedEvents, last \in BOOLEAN : Fetches(P, last) BY FetchFacts
<1>2. /\ pc = "fetch" /\ todo' = todo \cup {x \in P : LedgerOf(x) <= endLedger}
      /\ complete' = last /\ UNCHANGED <<lastLedgerSeen, endLedger, startLedger>>
  BY <1>1, FetchFacts DEF Fetches
<1>3. /\ lastLedgerSeen = startLedger /\ todo \subseteq Nat /\ cursor \in Nat /\ e \in Nat
      /\ e \in Events /\ LedgerOf(e) \in Nat /\ endLedger \in Nat /\ P \subseteq Nat
      /\ P \subseteq Events
  BY <1>2, ChainFacts DEF Loop, TypeOK
<1>4. CASE e \in todo' BY <1>4 DEF Later
<1>5. CASE e \notin todo'
  <2>1. e \in P => endLedger < LedgerOf(e) BY <1>2, <1>3, <1>5
  <2>2. ASSUME NEW d \in P, LedgerOf(d) <= endLedger PROVE d < e
    <3>1. d \in Nat /\ d \in Events /\ LedgerOf(d) \in Nat BY <1>3, ChainFacts
    <3>2. ~(e < d) /\ e # d
      <4>1. e # d BY <1>2, <1>5, <2>2
      <4>2. ASSUME e < d PROVE FALSE
        <5>1. e \in P BY <1>1, <4>2 DEF Fetches
        <5>2. LedgerOf(e) <= LedgerOf(d) BY <1>3, <3>1, <4>2, ChainFacts
        <5>3. QED BY <1>3, <2>1, <2>2, <3>1, <5>1, <5>2
      <4>3. QED BY <4>1, <4>2
    <3>3. QED BY <1>3, <3>1, <3>2
  <2>3. ASSUME NEW d \in todo PROVE d < e
    <3>1. d <= cursor /\ d \in Nat BY <1>2, <1>3 DEF InOrder
    <3>2. QED BY <1>3, <3>1
  <2>4. \A d \in todo' : d < e BY <1>2, <2>2, <2>3
  <2>5. complete' => endLedger < LedgerOf(e)
    <3>1. ASSUME last, LedgerOf(e) <= endLedger PROVE FALSE
      <4>1. e \in P BY <1>1, <3>1 DEF Fetches
      <4>2. QED BY <1>2, <1>5, <3>1, <4>1
    <3>2. QED BY <1>2, <1>3, <3>1
  <2>6. pc' = "fetch" => cursor' < e
    <3>1. ASSUME pc' = "fetch" PROVE cursor' < e
      <4>1. cursor' \in P /\ \A d \in P : LedgerOf(d) <= endLedger
        BY <1>1, <3>1 DEF Fetches
      <4>2. QED BY <2>2, <4>1
    <3>2. QED BY <3>1
  <2>7. QED BY <1>2, <1>3, <2>4, <2>5, <2>6 DEF Later
<1>6. QED BY <1>4, <1>5

LEMMA FetchKeepsLater ==
  ASSUME TypeOK, Loop, InOrder, FetchPage, NEW e \in WatchedEvents, Later(e)
  PROVE  Later(e)'
<1>1. PICK P \in SUBSET WatchedEvents, last \in BOOLEAN : Fetches(P, last) BY FetchFacts
<1>2. pc = "fetch" /\ todo \subseteq todo' /\ lastLedgerSeen = startLedger
  BY <1>1, FetchFacts DEF Fetches, Loop
<1>3. CASE e \in todo BY <1>2, <1>3 DEF Later
<1>4. CASE e \notin todo
  <2>1. cursor < e /\ startLedger <= LedgerOf(e) BY <1>2, <1>4 DEF Later
  <2>2. QED BY <2>1, FetchLater
<1>5. QED BY <1>3, <1>4

LEMMA FetchInOrder == ASSUME TypeOK, Loop, InOrder, FetchPage PROVE InOrder'
<1>1. PICK P \in SUBSET WatchedEvents, last \in BOOLEAN : Fetches(P, last) BY FetchFacts
<1>2. /\ pc = "fetch" /\ todo' = todo \cup {x \in P : LedgerOf(x) <= endLedger}
      /\ WatchedEvents' = WatchedEvents
  BY <1>1, FetchFacts DEF Fetches, WatchedEvents, Watched
<1>3. todo \subseteq Nat /\ cursor \in Nat /\ P \subseteq Nat /\ P \subseteq Events
  BY ChainFacts DEF TypeOK
<1>4. ASSUME NEW d \in todo', NEW e \in WatchedEvents, d < e PROVE Later(e)'
  <2>1. CASE d \in todo
    <3>1. Later(e) BY <1>2, <1>4, <2>1 DEF InOrder, InBatch
    <3>2. QED BY <3>1, FetchKeepsLater
  <2>2. CASE d \in P
    <3>1. cursor < d /\ startLedger <= LedgerOf(d) BY <1>1, <2>2 DEF Fetches
    <3>2. /\ d \in Nat /\ e \in Nat /\ LedgerOf(d) \in Nat /\ LedgerOf(e) \in Nat
          /\ LedgerOf(d) <= LedgerOf(e) /\ startLedger \in Nat
      BY <1>3, <1>4, <2>2, ChainFacts DEF TypeOK
    <3>3. cursor < e /\ startLedger <= LedgerOf(e) BY <1>3, <1>4, <3>1, <3>2
    <3>4. QED BY <3>3, FetchLater
  <2>3. QED BY <1>2, <1>4, <2>1, <2>2
<1>5. pc' = "fetch" => \A d \in todo' : d <= cursor'
  <2>1. ASSUME pc' = "fetch", NEW d \in todo' PROVE d <= cursor'
    <3>1. cursor' \in P /\ \A x \in P : x <= cursor' BY <1>1, <2>1 DEF Fetches
    <3>2. CASE d \in P BY <3>1, <3>2
    <3>3. CASE d \in todo
      <4>1. d <= cursor /\ d \in Nat BY <1>2, <1>3, <3>3 DEF InOrder
      <4>2. cursor < cursor' /\ cursor' \in Nat BY <1>1, <1>3, <3>1 DEF Fetches
      <4>3. QED BY <1>3, <4>1, <4>2
    <3>4. QED BY <1>2, <2>1, <3>2, <3>3
  <2>2. QED BY <2>1
<1>6. QED BY <1>2, <1>4, <1>5 DEF InOrder

\* Applying the smallest event puts no other event behind.
LEMMA ApplyKeepsLater ==
  ASSUME TypeOK, Loop, Batch, NEW ok, NEW x \in todo, Applies(x, ok), pc' = "log",
         UNCHANGED <<complete, endLedger>>,
         NEW e \in WatchedEvents, Later(e), e # x
  PROVE  Later(e)'
<1>1. todo' = todo \ {x} /\ lastLedgerSeen' \in {lastLedgerSeen, LedgerOf(x)}
  BY DEF Applies
<1>2. CASE e \in todo BY <1>1, <1>2 DEF Later
<1>3. CASE e \notin todo
  <2>1. /\ lastLedgerSeen <= LedgerOf(e) /\ (\A d \in todo : d < e)
        /\ complete => endLedger < LedgerOf(e)
    BY <1>3 DEF Later
  <2>2. x \in Events /\ e \in Events /\ x < e BY <2>1, ChainFacts DEF TypeOK
  <2>3. LedgerOf(x) <= LedgerOf(e) BY <2>2, ChainFacts
  <2>4. QED BY <1>1, <2>1, <2>3 DEF Later
<1>4. QED BY <1>2, <1>3

LEMMA ApplyInOrder == ASSUME TypeOK, Loop, Batch, InOrder, ApplyEvent PROVE InOrder'
<1>1. PICK ok \in BOOLEAN, x \in todo : x = NextEvent /\ Applies(x, ok) BY ApplyFacts
<1>2. /\ pc = "apply" /\ pc' = "log" /\ UNCHANGED <<complete, endLedger>>
      /\ todo' = todo \ {x} /\ WatchedEvents' = WatchedEvents
  BY <1>1, ApplyFacts DEF Applies, WatchedEvents, Watched
<1>3. ASSUME NEW d \in todo', NEW e \in WatchedEvents, d < e PROVE Later(e)'
  <2>1. d \in todo /\ x <= d /\ d \in Nat /\ e \in Nat /\ x \in Nat
    BY <1>1, <1>2, ToCome, ChainFacts
  <2>2. e # x BY <1>3, <2>1
  <2>3. Later(e) BY <1>2, <1>3, <2>1 DEF InOrder, InBatch
  <2>4. QED BY <1>1, <1>2, <2>2, <2>3, ApplyKeepsLater
<1>4. QED BY <1>2, <1>3 DEF InOrder

LEMMA InOrderStays ==
  ASSUME InOrder, InBatch' => InBatch, pc' = "fetch" => pc = "fetch",
         UNCHANGED <<todo, lastLedgerSeen, cursor, complete, endLedger>>
  PROVE  InOrder'
<1>1. WatchedEvents' = WatchedEvents BY DEF WatchedEvents, Watched
<1>2. ASSUME InBatch, NEW d \in todo, NEW e \in WatchedEvents, d < e PROVE Later(e)'
  <2>1. Later(e) BY <1>2 DEF InOrder
  <2>2. QED BY <2>1, LaterStays
<1>3. pc' = "fetch" => \A d \in todo : d <= cursor BY DEF InOrder
<1>4. QED BY <1>1, <1>2, <1>3 DEF InOrder

LEMMA InOrderEmpty == ASSUME todo' = {} PROVE InOrder'
BY DEF InOrder

LEMMA StepInOrder == ASSUME IndexerInv, InOrder, [Next]_vars PROVE InOrder'
<1>1. TypeOK /\ Loop /\ Batch /\ Whole BY DEF IndexerInv
<1>2. CASE UNCHANGED vars BY <1>2, InOrderStays DEF vars, batchVars, InBatch
<1>3. CASE Start \/ Poll \/ Sleep
  BY <1>3, InOrderStays DEF Start, Poll, Sleep, batchVars, InBatch
<1>4. CASE ReadCheckpoint
  <2>1. PICK ok \in BOOLEAN, saved \in 0..(latest + 1), from \in 1..(latest + 1) :
          ReadsFrom(ok, saved, from)
    BY <1>1, <1>4, ReadFacts
  <2>2. todo' = {} BY <2>1, EndBatchFacts DEF ReadsFrom
  <2>3. QED BY <2>2, InOrderEmpty
<1>5. CASE FetchPage BY <1>1, <1>5, FetchInOrder
<1>6. CASE SkipAhead \/ SaveCheckpoint \/ Crash
  <2>1. EndBatch BY <1>6 DEF SkipAhead, SaveCheckpoint, Crash
  <2>2. QED BY <2>1, EndBatchFacts, InOrderEmpty
<1>7. CASE LogEvent BY <1>7, InOrderStays DEF LogEvent, batchVars, InBatch
<1>8. CASE ApplyEvent BY <1>1, <1>8, ApplyInOrder
<1>9. CASE SyncLiveState BY <1>9, InOrderStays DEF SyncLiveState, batchVars, InBatch
<1>10. CASE QueryFails
  <2>1. CASE EndBatch BY <2>1, EndBatchFacts, InOrderEmpty
  <2>2. CASE UNCHANGED <<pc, batchVars>> BY <2>2, InOrderStays DEF batchVars, InBatch
  <2>3. QED BY <1>10, <2>1, <2>2 DEF QueryFails
<1>11. CASE LedgerCloses \/ AdminReads \/ AdminAnswered
  BY <1>11, InOrderStays DEF LedgerCloses, AdminReads, AdminAnswered, batchVars, InBatch
<1>12. QED
  BY <1>2, <1>3, <1>4, <1>5, <1>6, <1>7, <1>8, <1>9, <1>10, <1>11 DEF Next, IndexerStep
-----------------------------------------------------------------------------
(* Where the loop may go on from. *)

LEMMA Ledgers ==
  ASSUME TypeOK
  PROVE  /\ OldestLedger \in Nat /\ latest \in Nat /\ checkpoint \in Nat /\ memCheckpoint \in Nat
         /\ admin.read \in Nat /\ startLedger \in Nat /\ endLedger \in Nat
         /\ lastLedgerSeen \in Nat
<1>1. latest \in Nat /\ RETENTION \in Nat BY LedgersAssumption DEF TypeOK
<1>2. QED BY <1>1 DEF OldestLedger, TypeOK

LEMMA OldestGrows ==
  ASSUME TypeOK, [Next]_vars
  PROVE  OldestLedger' \in Nat /\ OldestLedger <= OldestLedger'
<1>1. latest \in Nat /\ RETENTION \in Nat BY LedgersAssumption DEF TypeOK
<1>2. latest' = latest + 1 \/ latest' = latest
  BY DEF Next, IndexerStep, Start, Poll, ReadCheckpoint, FetchPage, SkipAhead, LogEvent,
         ApplyEvent, SyncLiveState, SaveCheckpoint, Sleep, QueryFails, Crash, LedgerCloses,
         AdminReads, AdminAnswered, vars, outside
<1>3. QED BY <1>1, <1>2 DEF OldestLedger

\* Restart is about a loop without a failed or late read.
Trusted == useDb /\ ~readFailed /\ ~admin.late

LEMMA RestartStays ==
  ASSUME TypeOK, [Next]_vars, Restart, Trusted' => Trusted,
         admin'.read = admin.read, UNCHANGED <<memCheckpoint, checkpoint>>,
         InBatch' => InBatch /\ startLedger' = startLedger,
         InBatch' => Fetched' = Fetched, Fetched' => Fetched
  PROVE  Restart'
<1>1. Fetched' => InBatch' BY DEF Fetched, InBatch
<1>2. /\ OldestLedger \in Nat /\ OldestLedger' \in Nat /\ OldestLedger <= OldestLedger'
      /\ checkpoint \in Nat /\ memCheckpoint \in Nat /\ admin.read \in Nat
  BY Ledgers, OldestGrows
<1>3. /\ checkpoint < OldestLedger => checkpoint < OldestLedger'
      /\ memCheckpoint < OldestLedger => memCheckpoint < OldestLedger'
      /\ admin.read < OldestLedger => admin.read < OldestLedger'
  BY <1>2
<1>4. QED BY <1>1, <1>3 DEF Restart, Trusted

LEMMA FetchRestart ==
  ASSUME TypeOK, Loop, Restart, FetchPage PROVE Restart'
<1>1. PICK P \in SUBSET WatchedEvents, last \in BOOLEAN : Fetches(P, last) BY FetchFacts
<1>2. /\ pc = "fetch" /\ (cursor = 0 => OldestLedger <= startLedger)
      /\ UNCHANGED <<latest, admin, startLedger, useDb, memCheckpoint, checkpoint, readFailed>>
  BY FetchFacts
<1>3. /\ OldestLedger \in Nat /\ checkpoint \in Nat /\ memCheckpoint \in Nat /\ admin.read \in Nat
      /\ startLedger \in Nat
  BY Ledgers
<1>4. InBatch /\ InBatch' BY <1>1, <1>2 DEF InBatch, Fetches
<1>5. ASSUME Trusted
      PROVE  checkpoint <= startLedger /\ memCheckpoint <= startLedger /\ admin.read <= startLedger
  <2>1. CASE cursor # 0
    <3>1. Fetched BY <1>2, <2>1 DEF Fetched
    <3>2. QED BY <1>4, <1>5, <3>1 DEF Restart, Trusted
  <2>2. CASE cursor = 0
    <3>1. OldestLedger <= startLedger BY <1>2, <2>2
    <3>2. /\ checkpoint <= startLedger \/ checkpoint < OldestLedger
          /\ memCheckpoint <= startLedger \/ memCheckpoint < OldestLedger
          /\ admin.read # 0 => admin.read <= checkpoint \/ admin.read < OldestLedger
      BY <1>4, <1>5 DEF Restart, Trusted
    <3>3. QED BY <1>3, <3>1, <3>2
  <2>3. QED BY <2>1, <2>2
<1>6. OldestLedger' = OldestLedger BY <1>2 DEF OldestLedger
<1>7. QED BY <1>2, <1>4, <1>5, <1>6 DEF Restart, Trusted

LEMMA ReadRestart ==
  ASSUME TypeOK, Loop, Restart, ReadCheckpoint PROVE Restart'
<1>1. PICK ok \in BOOLEAN, saved \in 0..(latest + 1), from \in 1..(latest + 1) :
        ReadsFrom(ok, saved, from)
  BY ReadFacts
<1>2. UNCHANGED <<latest, admin, useDb, checkpoint>> BY ReadFacts
<1>3. /\ saved # 0 => saved = memCheckpoint \/ (memCheckpoint = 0 /\ saved = checkpoint)
      /\ saved # 0 => from = saved
      /\ saved = 0 => memCheckpoint = 0 /\ (useDb /\ ok => checkpoint = 0)
      /\ memCheckpoint' = saved /\ readFailed' = (readFailed \/ ~ok)
      /\ pc' \in {"sleep", "fetch"} /\ cursor' = 0
      /\ InBatch' => startLedger' = from
  BY <1>1, EndBatchFacts DEF ReadsFrom, InBatch
<1>4. /\ OldestLedger \in Nat /\ checkpoint \in Nat /\ memCheckpoint \in Nat
      /\ from \in Nat /\ saved \in Nat /\ OldestLedger' = OldestLedger
  <2>1. OldestLedger \in Nat /\ checkpoint \in Nat /\ memCheckpoint \in Nat
    BY Ledgers
  <2>2. QED BY <1>2, <2>1 DEF OldestLedger
<1>5. ~Fetched' BY <1>3 DEF Fetched
<1>6. ASSUME Trusted'
      PROVE  /\ saved # 0 => checkpoint <= saved \/ checkpoint < OldestLedger
             /\ checkpoint <= from \/ checkpoint < OldestLedger
             /\ saved <= from
             /\ admin.read # 0 => admin.read <= checkpoint \/ admin.read < OldestLedger
             /\ admin.read # 0 /\ saved = 0 => admin.read = checkpoint
  <2>1. ok /\ Trusted BY <1>2, <1>3, <1>6 DEF Trusted
  <2>2. /\ memCheckpoint # 0 => checkpoint <= memCheckpoint \/ checkpoint < OldestLedger
        /\ admin.read # 0 => admin.read <= checkpoint \/ admin.read < OldestLedger
        /\ admin.read # 0 /\ memCheckpoint = 0 => admin.read = checkpoint
    BY <2>1 DEF Restart, Trusted
  <2>3. CASE saved = 0
    <3>1. memCheckpoint = 0 /\ checkpoint = 0 BY <1>3, <2>1, <2>3 DEF Trusted
    <3>2. QED BY <1>4, <2>2, <2>3, <3>1
  <2>4. CASE saved # 0
    <3>1. checkpoint <= saved \/ checkpoint < OldestLedger BY <1>3, <1>4, <2>2, <2>4
    <3>2. QED BY <1>3, <1>4, <2>2, <2>4, <3>1
  <2>5. QED BY <2>3, <2>4
<1>7. QED BY <1>2, <1>3, <1>4, <1>5, <1>6 DEF Restart, Trusted

\* The batch ends with a checkpoint that is not behind the saved one, or the
\* saved one is not served any more; and an answer on its way is behind it.
LEMMA EndRestart ==
  ASSUME NEW ok \in BOOLEAN, NEW ledger \in Nat \ {0}, UpsertCheckpoint(ok, ledger), pc' = "sleep",
         EndBatch, UNCHANGED <<latest, admin, useDb, readFailed>>,
         Trusted => /\ checkpoint <= ledger \/ checkpoint < OldestLedger
                    /\ admin.read # 0 => /\ admin.read <= ledger \/ admin.read < OldestLedger
                                         /\ admin.read <= checkpoint \/ admin.read < OldestLedger
  PROVE  Restart'
<1>1. memCheckpoint' = ledger /\ checkpoint' \in {checkpoint, ledger}
  BY DEF UpsertCheckpoint, Written
<1>2. ~InBatch' /\ ~Fetched' /\ OldestLedger' = OldestLedger
  BY EndBatchFacts DEF InBatch, Fetched, OldestLedger
<1>3. ledger # 0 /\ ledger <= ledger OBVIOUS
<1>4. QED BY <1>1, <1>2, <1>3 DEF Restart, Trusted

LEMMA SkipRestart == ASSUME TypeOK, Loop, Restart, SkipAhead PROVE Restart'
<1>1. PICK ok \in BOOLEAN : UpsertCheckpoint(ok, Resume) BY SkipFacts
<1>2. /\ Resume \in 1..latest /\ startLedger < OldestLedger /\ pc = "fetch" /\ cursor = 0
      /\ pc' = "sleep" /\ EndBatch /\ UNCHANGED <<latest, admin, useDb, readFailed>>
  BY SkipFacts DEF outside
<1>3. /\ OldestLedger \in Nat /\ checkpoint \in Nat /\ admin.read \in Nat /\ startLedger \in Nat
  BY Ledgers
<1>4. ASSUME Trusted
      PROVE  /\ checkpoint < OldestLedger
             /\ admin.read # 0 => admin.read < OldestLedger
  <2>1. checkpoint <= startLedger \/ checkpoint < OldestLedger
    BY <1>2, <1>4 DEF Restart, Trusted, InBatch
  <2>2. checkpoint < OldestLedger BY <1>2, <1>3, <2>1
  <2>3. admin.read # 0 => admin.read <= checkpoint \/ admin.read < OldestLedger
    BY <1>4 DEF Restart, Trusted
  <2>4. QED BY <1>3, <2>2, <2>3
<1>5. Resume \in Nat \ {0} BY <1>2, LedgersAssumption DEF TypeOK
<1>6. QED BY <1>1, <1>2, <1>4, <1>5, EndRestart

LEMMA SaveRestart == ASSUME TypeOK, Loop, Restart, SaveCheckpoint PROVE Restart'
<1>1. PICK ok \in BOOLEAN : UpsertCheckpoint(ok, NextCheckpoint) BY SaveFacts
<1>2. /\ NextCheckpoint \in 1..(latest + 1) /\ startLedger <= NextCheckpoint
      /\ pc = "save" /\ pc' = "sleep" /\ EndBatch
      /\ UNCHANGED <<latest, admin, useDb, readFailed>>
  BY SaveFacts DEF outside
<1>3. /\ checkpoint \in Nat /\ admin.read \in Nat /\ startLedger \in Nat
  BY Ledgers
<1>4. NextCheckpoint \in Nat \ {0} BY <1>2, LedgersAssumption DEF TypeOK
<1>5. ASSUME Trusted
      PROVE  /\ checkpoint <= NextCheckpoint /\ admin.read <= NextCheckpoint
             /\ admin.read # 0 => admin.read <= checkpoint \/ admin.read < OldestLedger
  <2>1. /\ checkpoint <= startLedger /\ admin.read <= startLedger
        /\ admin.read # 0 => admin.read <= checkpoint \/ admin.read < OldestLedger
    BY <1>2, <1>5 DEF Restart, Trusted, InBatch, Fetched
  <2>2. QED BY <1>2, <1>3, <1>4, <2>1
<1>6. QED BY <1>1, <1>2, <1>4, <1>5, EndRestart

LEMMA AdminReadsRestart ==
  ASSUME TypeOK, Loop, Restart, AdminReads PROVE Restart'
<1>1. /\ memCheckpoint = 0 /\ admin'.read = checkpoint /\ admin'.late = admin.late
      /\ UNCHANGED <<latest, pc, cursor, startLedger, useDb, memCheckpoint, checkpoint, readFailed>>
  BY DEF AdminReads, TypeOK, batchVars, memVars, dbVars, history
<1>2. InBatch' = InBatch /\ Fetched' = Fetched /\ OldestLedger' = OldestLedger
  BY <1>1 DEF InBatch, Fetched, OldestLedger
<1>3. Trusted => (Fetched => checkpoint <= startLedger)
  BY DEF Restart, Trusted, InBatch, Fetched
<1>4. checkpoint <= checkpoint BY DEF TypeOK
<1>5. QED BY <1>1, <1>2, <1>3, <1>4 DEF Restart, Trusted

\* A late answer that sets memory back is marked; any other is at the place
\* the loop would have gone on from, or past it.
LEMMA AdminAnsweredRestart ==
  ASSUME TypeOK, Loop, Restart, AdminAnswered PROVE Restart'
<1>1. /\ admin.read # 0 /\ memCheckpoint' = admin.read /\ admin'.read = 0
      /\ admin'.late = (admin.late \/ memCheckpoint > admin.read)
      /\ UNCHANGED <<latest, pc, cursor, startLedger, useDb, checkpoint, readFailed>>
  BY DEF AdminAnswered, batchVars, dbVars, history
<1>2. InBatch' = InBatch /\ Fetched' = Fetched /\ OldestLedger' = OldestLedger
  BY <1>1 DEF InBatch, Fetched, OldestLedger
<1>3. /\ OldestLedger \in Nat /\ checkpoint \in Nat /\ memCheckpoint \in Nat /\ admin.read \in Nat
      /\ startLedger \in Nat
  BY Ledgers
<1>4. ASSUME Trusted'
      PROVE  /\ checkpoint <= admin.read \/ checkpoint < OldestLedger
             /\ InBatch => \/ admin.read <= startLedger
                           \/ ~Fetched /\ admin.read < OldestLedger
  <2>1. Trusted /\ ~(memCheckpoint > admin.read) BY <1>1, <1>4 DEF Trusted
  <2>2. memCheckpoint <= admin.read BY <1>3, <2>1
  <2>3. /\ memCheckpoint # 0 => checkpoint <= memCheckpoint \/ checkpoint < OldestLedger
        /\ admin.read <= checkpoint \/ admin.read < OldestLedger
        /\ memCheckpoint = 0 => admin.read = checkpoint
        /\ InBatch => \/ checkpoint <= startLedger
                      \/ ~Fetched /\ checkpoint < OldestLedger
        /\ Fetched => admin.read <= startLedger
    BY <1>1, <2>1 DEF Restart, Trusted
  <2>4. checkpoint <= admin.read \/ checkpoint < OldestLedger BY <1>3, <2>2, <2>3
  <2>5. CASE Fetched BY <2>3, <2>4, <2>5
  <2>6. CASE ~Fetched
    <3>1. InBatch => admin.read <= startLedger \/ admin.read < OldestLedger
      BY <1>3, <2>3
    <3>2. QED BY <2>4, <2>6, <3>1
  <2>7. QED BY <2>5, <2>6
<1>5. Fetched' => admin'.read <= startLedger' BY <1>1, <1>3
<1>6. QED BY <1>1, <1>2, <1>4, <1>5 DEF Restart, Trusted

LEMMA StepRestart == ASSUME IndexerInv, Restart, [Next]_vars PROVE Restart'
<1>1. TypeOK /\ Loop BY DEF IndexerInv
<1>2. CASE UNCHANGED vars
  <2>1. /\ UNCHANGED <<admin, pc, cursor, startLedger, useDb, memCheckpoint, checkpoint, readFailed>>
    BY <1>2 DEF vars, outside, batchVars, memVars, dbVars, history
  <2>2. QED BY <1>1, <2>1, RestartStays DEF InBatch, Fetched, Trusted
<1>3. CASE Start
  <2>1. /\ memCheckpoint' = 0 /\ admin'.read = 0 /\ pc' = "poll" /\ cursor' = 0
    BY <1>1, <1>3 DEF Start, Loop, outside, batchVars
  <2>2. ~InBatch' /\ ~Fetched' BY <2>1 DEF InBatch, Fetched
  <2>3. QED BY <2>1, <2>2 DEF Restart
<1>4. CASE Crash BY <1>4 DEF Crash, Restart
<1>5. CASE Poll \/ Sleep \/ LedgerCloses
  <2>1. /\ UNCHANGED <<admin, cursor, startLedger, useDb, memCheckpoint, checkpoint, readFailed>>
        /\ pc' = pc \/ (pc' \in {"checkpoint", "poll"} /\ pc \in {"poll", "sleep"})
    BY <1>5 DEF Poll, Sleep, LedgerCloses, outside, batchVars, memVars, dbVars, history
  <2>2. /\ InBatch' => InBatch /\ startLedger' = startLedger
        /\ InBatch' => Fetched' = Fetched
        /\ Fetched' => Fetched
    BY <2>1 DEF InBatch, Fetched
  <2>3. QED BY <1>1, <2>1, <2>2, RestartStays DEF Trusted
<1>6. CASE ReadCheckpoint BY <1>1, <1>6, ReadRestart
<1>7. CASE FetchPage BY <1>1, <1>7, FetchRestart
<1>8. CASE SkipAhead BY <1>1, <1>8, SkipRestart
<1>9. CASE SaveCheckpoint BY <1>1, <1>9, SaveRestart
<1>10. CASE LogEvent \/ ApplyEvent \/ SyncLiveState
  <2>1. /\ UNCHANGED <<admin, startLedger, useDb, memCheckpoint, checkpoint, readFailed>>
        /\ pc \in {"log", "apply"} /\ pc' \in {"log", "apply", "save"}
    BY <1>10 DEF LogEvent, ApplyEvent, SyncLiveState, outside, batchVars, memVars, dbVars, history
  <2>2. InBatch /\ InBatch' /\ Fetched /\ Fetched' BY <2>1 DEF InBatch, Fetched
  <2>3. QED BY <1>1, <2>1, <2>2, RestartStays DEF Trusted
<1>11. CASE QueryFails
  <2>1. /\ UNCHANGED <<admin, useDb, memCheckpoint, checkpoint, readFailed>>
        /\ (pc' = "sleep" /\ EndBatch) \/ UNCHANGED <<pc, startLedger, cursor>>
    BY <1>11 DEF QueryFails, outside, batchVars, memVars, dbVars, history
  <2>2. /\ InBatch' => InBatch /\ startLedger' = startLedger
        /\ InBatch' => Fetched' = Fetched
        /\ Fetched' => Fetched
    BY <2>1, EndBatchFacts DEF InBatch, Fetched
  <2>3. QED BY <1>1, <2>1, <2>2, RestartStays DEF Trusted
<1>12. CASE AdminReads BY <1>1, <1>12, AdminReadsRestart
<1>13. CASE AdminAnswered BY <1>1, <1>13, AdminAnsweredRestart
<1>14. QED
  BY <1>2, <1>3, <1>4, <1>5, <1>6, <1>7, <1>8, <1>9, <1>10, <1>11, <1>12, <1>13
     DEF Next, IndexerStep
-----------------------------------------------------------------------------
(* The auctions' rows. *)

\* A step that leaves a row and its events alone keeps the row's invariant
\* when what was to come is still to come.
LEMMA RowStays ==
  ASSUME NEW a \in AuctionIds, RowInv(a), UNCHANGED <<logged, base>>, auctions'[a] = auctions[a],
         affected \subseteq affected', jumped \subseteq jumped',
         readFailed => readFailed', admin.late => admin'.late,
         \A m \in Indexed(a) :
           Pending(m) /\ Sound(a)' /\ base <= LedgerOf(m) /\ LedgerOf(m) \notin jumped'
           => Pending(m)'
  PROVE  RowInv(a)'
<1>1. Indexed(a)' = Indexed(a) BY DEF Indexed
<1>2. ASSUME NEW m \in Indexed(a), Sound(a)', \A e \in Indexed(a) : e <= m,
             base <= LedgerOf(m), LedgerOf(m) \notin jumped'
      PROVE  Mirrors(a, m)' \/ Pending(m)'
  <2>1. Sound(a) /\ LedgerOf(m) \notin jumped BY <1>2 DEF Sound
  <2>2. Mirrors(a, m) \/ Pending(m) BY <1>2, <2>1 DEF RowInv
  <2>3. CASE Mirrors(a, m) BY <2>3 DEF Mirrors
  <2>4. CASE Pending(m) BY <1>2, <2>4
  <2>5. QED BY <2>2, <2>3, <2>4
<1>3. QED BY <1>1, <1>2 DEF RowInv

LEMMA PendingStays ==
  ASSUME NEW m, Pending(m), UNCHANGED <<checkpoint, useDb, memCheckpoint>>,
         admin'.read = admin.read,
         InBatch' => InBatch /\ startLedger' = startLedger /\ (Later(m) => Later(m)')
  PROVE  Pending(m)'
BY DEF Pending

\* Between two reads of the checkpoint, with the loop's place as it is.
LEMMA QuietRow ==
  ASSUME NEW a \in AuctionIds, RowInv(a),
         UNCHANGED <<logged, base, auctions, affected, jumped, readFailed, admin, checkpoint,
                     useDb, memCheckpoint>>,
         InBatch' => /\ InBatch /\ (pc' = "fetch" => pc = "fetch")
                     /\ UNCHANGED <<startLedger, todo, lastLedgerSeen, cursor, complete, endLedger>>
  PROVE  RowInv(a)'
<1>1. ASSUME NEW m \in Indexed(a), Pending(m) PROVE Pending(m)'
  <2>1. InBatch' => (Later(m) => Later(m)') BY LaterStays
  <2>2. QED BY <1>1, <2>1, PendingStays
<1>2. QED BY <1>1, RowStays

LEMMA StartRow == ASSUME TypeOK, Loop, NEW a \in AuctionIds, RowInv(a), Start PROVE RowInv(a)'
<1>1. /\ memCheckpoint' = 0 /\ admin'.read = 0 /\ pc' = "poll"
      /\ UNCHANGED <<logged, base, auctions, affected, jumped, readFailed, admin, checkpoint>>
  BY DEF Start, Loop, outside, dbVars, history
<1>2. ~InBatch' BY <1>1 DEF InBatch
<1>3. ASSUME NEW m \in Indexed(a), Pending(m) PROVE Pending(m)'
  <2>1. LedgerOf(m) \in Nat BY ChainFacts DEF Indexed, TypeOK
  <2>2. 0 <= LedgerOf(m) BY <2>1
  <2>3. QED BY <1>1, <1>2, <1>3, <2>2 DEF Pending
<1>4. QED BY <1>1, <1>3, RowStays

LEMMA CrashRow == ASSUME TypeOK, NEW a \in AuctionIds, RowInv(a), Crash PROVE RowInv(a)'
<1>1. /\ ~useDb' /\ admin'.late = admin.late
      /\ UNCHANGED <<logged, base, auctions, affected, jumped, readFailed, checkpoint>>
  BY DEF Crash, TypeOK, dbVars, history
<1>2. ASSUME NEW m \in Indexed(a), Pending(m) PROVE Pending(m)' BY <1>1, <1>2 DEF Pending
<1>3. QED BY <1>1, <1>2, RowStays

LEMMA AdminRow ==
  ASSUME TypeOK, Loop, NEW a \in AuctionIds, RowInv(a), AdminReads \/ AdminAnswered
  PROVE  RowInv(a)'
<1>1. /\ memCheckpoint' \in {memCheckpoint, admin.read} /\ admin'.read \in {0, checkpoint}
      /\ admin'.late = (admin.late \/ (admin.late' /\ AdminAnswered))
      /\ admin.read # 0 => useDb
      /\ UNCHANGED <<logged, base, auctions, affected, jumped, readFailed, checkpoint, useDb, pc,
                     startLedger, todo, lastLedgerSeen, cursor, complete, endLedger>>
  BY DEF AdminReads, AdminAnswered, Loop, TypeOK, batchVars, memVars, dbVars, history
<1>2. ASSUME NEW m \in Indexed(a), Pending(m) PROVE Pending(m)'
  <2>1. LedgerOf(m) \in Nat BY ChainFacts DEF Indexed, TypeOK
  <2>2. 0 <= LedgerOf(m) BY <2>1
  <2>3. InBatch' = InBatch /\ (Later(m) => Later(m)') BY <1>1, LaterStays DEF InBatch
  <2>4. /\ checkpoint <= LedgerOf(m)
        /\ useDb => /\ memCheckpoint <= LedgerOf(m) /\ admin.read <= LedgerOf(m)
                    /\ InBatch => startLedger <= LedgerOf(m) /\ Later(m)
    BY <1>2 DEF Pending
  <2>5. useDb => memCheckpoint' <= LedgerOf(m) /\ admin'.read <= LedgerOf(m)
    BY <1>1, <2>2, <2>4
  <2>6. QED BY <1>1, <2>3, <2>4, <2>5 DEF Pending
<1>3. admin.late => admin'.late BY DEF AdminReads, AdminAnswered, TypeOK
<1>4. QED BY <1>1, <1>2, <1>3, RowStays

LEMMA FetchRow ==
  ASSUME TypeOK, Loop, InOrder, NEW a \in AuctionIds, RowInv(a), FetchPage
  PROVE  RowInv(a)'
<1>1. /\ pc = "fetch"
      /\ UNCHANGED <<logged, base, auctions, affected, jumped, readFailed, admin, checkpoint,
                     useDb, memCheckpoint, startLedger>>
  BY FetchFacts
<1>2. ASSUME NEW m \in Indexed(a), Pending(m) PROVE Pending(m)'
  <2>1. m \in WatchedEvents BY DEF Indexed, Loop
  <2>2. Later(m) => Later(m)' BY <2>1, FetchKeepsLater
  <2>3. InBatch BY <1>1 DEF InBatch
  <2>4. QED BY <1>1, <1>2, <2>2, <2>3, PendingStays
<1>3. QED BY <1>1, <1>2, RowStays

\* Where a batch starts, everything from there on is to come.
LEMMA ReadRow ==
  ASSUME TypeOK, Loop, Whole, NEW a \in AuctionIds, RowInv(a), ReadCheckpoint
  PROVE  RowInv(a)'
<1>1. PICK ok \in BOOLEAN, saved \in 0..(latest + 1), from \in 1..(latest + 1) :
        ReadsFrom(ok, saved, from)
  BY ReadFacts
<1>2. UNCHANGED <<admin, useDb, checkpoint, logged, auctions, affected>> BY ReadFacts
<1>3. /\ saved # 0 => saved = memCheckpoint \/ saved = checkpoint
      /\ saved # 0 => from = saved
      /\ saved = 0 => (useDb /\ ok => checkpoint = 0)
      /\ memCheckpoint' = saved /\ readFailed' = (readFailed \/ ~ok)
      /\ base' = IF saved = 0 /\ useDb /\ checkpoint = 0 THEN from ELSE base
      /\ jumped \subseteq jumped'
  BY <1>1 DEF ReadsFrom
<1>4. ASSUME NEW m \in Indexed(a), from <= LedgerOf(m), InBatch'
      PROVE  startLedger' <= LedgerOf(m) /\ Later(m)'
  <2>1. m \in Nat \ {0} BY ChainFacts DEF Indexed, TypeOK
  <2>2. /\ startLedger' = from /\ lastLedgerSeen' = from /\ cursor' = 0 /\ complete' = FALSE
        /\ todo' = {}
    BY <1>1, <1>4 DEF ReadsFrom, InBatch
  <2>3. 0 < m BY <2>1
  <2>4. QED BY <1>4, <2>2, <2>3 DEF Later
<1>5. ASSUME NEW m \in Indexed(a) PROVE LedgerOf(m) \in Nat /\ 0 <= LedgerOf(m)
  <2>1. LedgerOf(m) \in Nat BY ChainFacts DEF Indexed, TypeOK
  <2>2. QED BY <2>1
<1>6. CASE saved = 0 /\ useDb /\ checkpoint = 0
  <2>1. base' = from /\ memCheckpoint' = 0 /\ checkpoint' = 0 /\ admin'.read = 0
    BY <1>2, <1>3, <1>6 DEF Whole
  <2>2. ASSUME NEW m \in Indexed(a), base' <= LedgerOf(m) PROVE Pending(m)'
    <3>1. InBatch' => startLedger' <= LedgerOf(m) /\ Later(m)' BY <1>4, <2>1, <2>2
    <3>2. QED BY <1>5, <2>1, <3>1 DEF Pending
  <2>3. Indexed(a)' = Indexed(a) BY <1>2 DEF Indexed
  <2>4. QED BY <2>2, <2>3 DEF RowInv
<1>7. CASE ~(saved = 0 /\ useDb /\ checkpoint = 0)
  <2>1. base' = base BY <1>3, <1>7
  <2>2. ASSUME NEW m \in Indexed(a), Pending(m), Sound(a)' PROVE Pending(m)'
    <3>1. ok BY <1>3, <2>2 DEF Sound
    <3>2. useDb => saved # 0 BY <1>3, <1>7, <3>1
    <3>3. /\ checkpoint <= LedgerOf(m)
          /\ useDb => memCheckpoint <= LedgerOf(m) /\ admin.read <= LedgerOf(m)
      BY <2>2 DEF Pending
    <3>4. useDb => saved <= LedgerOf(m) /\ from <= LedgerOf(m) BY <1>3, <3>2, <3>3
    <3>5. useDb /\ InBatch' => startLedger' <= LedgerOf(m) /\ Later(m)' BY <1>4, <3>4
    <3>6. QED BY <1>2, <1>3, <3>3, <3>4, <3>5 DEF Pending
  <2>3. readFailed => readFailed' BY <1>3
  <2>4. QED BY <1>2, <1>3, <2>1, <2>2, <2>3, RowStays
<1>8. QED BY <1>6, <1>7

\* The batch ends with a checkpoint that is not past a pending event.
LEMMA EndRow ==
  ASSUME NEW ok \in BOOLEAN, NEW ledger, UpsertCheckpoint(ok, ledger), pc' = "sleep",
         UNCHANGED <<admin, useDb, logged, auctions, affected, readFailed, base>>,
         jumped \subseteq jumped', NEW a \in AuctionIds, RowInv(a),
         \A m \in Indexed(a) : useDb /\ Pending(m) /\ LedgerOf(m) \notin jumped'
                               => ledger <= LedgerOf(m)
  PROVE  RowInv(a)'
<1>1. /\ memCheckpoint' = ledger /\ checkpoint' = IF useDb /\ ok THEN ledger ELSE checkpoint
  BY DEF UpsertCheckpoint, Written
<1>2. ~InBatch' BY DEF InBatch
<1>3. ASSUME NEW m \in Indexed(a), Pending(m), LedgerOf(m) \notin jumped' PROVE Pending(m)'
  BY <1>1, <1>2, <1>3 DEF Pending
<1>4. QED BY <1>3, RowStays

LEMMA SkipRow ==
  ASSUME TypeOK, Loop, NEW a \in AuctionIds, RowInv(a), SkipAhead PROVE RowInv(a)'
<1>1. PICK ok \in BOOLEAN : UpsertCheckpoint(ok, Resume) BY SkipFacts
<1>2. /\ Resume \in 1..latest /\ pc = "fetch" /\ pc' = "sleep"
      /\ jumped' = jumped \cup startLedger..(Resume - 1)
      /\ UNCHANGED <<admin, useDb, logged, auctions, affected, readFailed, base>>
  BY SkipFacts DEF outside
<1>3. ASSUME useDb, NEW m \in Indexed(a), Pending(m), LedgerOf(m) \notin jumped'
      PROVE  Resume <= LedgerOf(m)
  <2>1. LedgerOf(m) \in Nat BY ChainFacts DEF Indexed, TypeOK
  <2>2. startLedger <= LedgerOf(m) BY <1>2, <1>3 DEF Pending, InBatch
  <2>3. LedgerOf(m) \notin startLedger..(Resume - 1) BY <1>2, <1>3
  <2>4. Resume \in Int /\ startLedger \in Nat BY <1>2, Ledgers
  <2>5. QED BY <2>1, <2>2, <2>3, <2>4
<1>4. jumped \subseteq jumped' BY <1>2
<1>5. QED BY <1>1, <1>2, <1>3, <1>4, EndRow

LEMMA SaveRow ==
  ASSUME TypeOK, Loop, NEW a \in AuctionIds, RowInv(a), SaveCheckpoint PROVE RowInv(a)'
<1>1. PICK ok \in BOOLEAN : UpsertCheckpoint(ok, NextCheckpoint) BY SaveFacts
<1>2. /\ pc = "save" /\ pc' = "sleep"
      /\ UNCHANGED <<admin, useDb, logged, auctions, affected, readFailed, base, jumped>>
  BY SaveFacts DEF outside
<1>3. ASSUME useDb, NEW m \in Indexed(a), Pending(m) PROVE NextCheckpoint <= LedgerOf(m)
  <2>1. LedgerOf(m) \in Nat /\ endLedger \in Nat BY ChainFacts, Ledgers DEF Indexed, TypeOK
  <2>2. Later(m) /\ todo = {} BY <1>2, <1>3 DEF Pending, InBatch, Loop
  <2>3. lastLedgerSeen <= LedgerOf(m) /\ (complete => endLedger < LedgerOf(m))
    BY <2>2 DEF Later
  <2>4. complete => endLedger + 1 <= LedgerOf(m) BY <2>1, <2>3
  <2>5. QED BY <2>3, <2>4 DEF NextCheckpoint
<1>4. QED BY <1>1, <1>2, <1>3, EndRow

\* A newly logged event of a row is to come, from wherever the loop goes on.
LEMMA LogRow ==
  ASSUME TypeOK, Loop, Batch, Restart, NEW a \in AuctionIds, RowInv(a), LogEvent
  PROVE  RowInv(a)'
<1>1. PICK ok \in BOOLEAN :
        /\ Statement(ok)
        /\ logged' = IF useDb /\ ok THEN logged \cup {NextEvent} ELSE logged
        /\ affected' = IF ok THEN affected ELSE affected \cup {NextEvent}
  BY LogFacts
<1>2. /\ pc = "log" /\ pc' = "apply" /\ todo # {}
      /\ UNCHANGED <<startLedger, endLedger, cursor, complete, todo, lastLedgerSeen, useDb, base,
                     auctions, jumped, readFailed, admin, checkpoint, memCheckpoint>>
  BY LogFacts
<1>3. PICK x \in todo : x = NextEvent BY <1>2, ToCome
<1>4. InBatch /\ InBatch' /\ Fetched BY <1>2 DEF InBatch, Fetched
<1>5. /\ x \in Events /\ LedgerOf(x) \in Nat /\ startLedger <= LedgerOf(x)
      /\ startLedger \in Nat /\ checkpoint \in Nat /\ memCheckpoint \in Nat /\ admin.read \in Nat
  <2>1. x \in Events BY DEF TypeOK
  <2>2. QED BY <2>1, ChainFacts, Ledgers DEF Batch
<1>6. ASSUME NEW m \in Indexed(a), Pending(m) PROVE Pending(m)'
  <2>1. Later(m) => Later(m)' BY <1>2, LaterStays
  <2>2. QED BY <1>2, <1>4, <1>6, <2>1, PendingStays
<1>7. ASSUME NEW m \in Indexed(a)', Sound(a)', \A e \in Indexed(a)' : e <= m,
             base <= LedgerOf(m), LedgerOf(m) \notin jumped
      PROVE  Mirrors(a, m)' \/ Pending(m)'
  <2>1. Sound(a) BY <1>1, <1>2, <1>7 DEF Sound
  <2>2. Indexed(a) \subseteq Indexed(a)' BY <1>1 DEF Indexed
  <2>3. CASE m \in Indexed(a)
    <3>1. Mirrors(a, m) \/ Pending(m) BY <1>7, <2>1, <2>2, <2>3 DEF RowInv
    <3>2. Mirrors(a, m) => Mirrors(a, m)' BY <1>2 DEF Mirrors
    <3>3. QED BY <1>6, <2>3, <3>1, <3>2
  <2>4. CASE m \notin Indexed(a)
    <3>1. m = x /\ useDb BY <1>1, <1>3, <1>7, <2>4 DEF Indexed
    <3>2. /\ checkpoint <= startLedger /\ memCheckpoint <= startLedger
          /\ admin.read <= startLedger
      BY <1>4, <2>1, <3>1 DEF Restart, Sound
    <3>3. /\ checkpoint <= LedgerOf(x) /\ memCheckpoint <= LedgerOf(x)
          /\ admin.read <= LedgerOf(x)
      BY <1>5, <3>2
    <3>4. Later(x)' BY <1>2 DEF Later
    <3>5. Pending(x)' BY <1>2, <1>5, <3>3, <3>4 DEF Pending
    <3>6. QED BY <3>1, <3>5
  <2>5. QED BY <2>3, <2>4
<1>8. QED BY <1>2, <1>7 DEF RowInv

\* Applying a row's last event makes it follow; applying an earlier one, in a
\* replay, leaves the last one to come.
LEMMA ApplyRow ==
  ASSUME TypeOK, Loop, Batch, InOrder, Restart, NEW a \in AuctionIds, RowInv(a), ApplyEvent
  PROVE  RowInv(a)'
<1>1. PICK ok \in BOOLEAN, x \in todo : x = NextEvent /\ Applies(x, ok) BY ApplyFacts
<1>2. /\ pc = "apply" /\ pc' = "log"
      /\ UNCHANGED <<startLedger, endLedger, complete, useDb, base, logged, jumped, readFailed, admin,
                     checkpoint, memCheckpoint>>
  BY ApplyFacts
<1>3. InBatch /\ InBatch' /\ Fetched BY <1>2 DEF InBatch, Fetched
<1>4. Indexed(a)' = Indexed(a) /\ Indexed(a) \subseteq WatchedEvents
  BY <1>2 DEF Indexed, Loop
<1>5. affected \subseteq affected' BY <1>1 DEF Applies
<1>6. ASSUME NEW m \in Indexed(a), Pending(m), m # x \/ ~useDb PROVE Pending(m)'
  <2>1. CASE ~useDb BY <1>2, <1>6, <2>1 DEF Pending
  <2>2. CASE m # x
    <3>1. m \in WatchedEvents BY <1>4
    <3>2. Later(m) => Later(m)' BY <1>1, <1>2, <2>2, <3>1, ApplyKeepsLater
    <3>3. QED BY <1>2, <1>3, <1>6, <3>2, PendingStays
  <2>3. QED BY <1>6, <2>1, <2>2
<1>7. CASE Chain[x].auction # a
  <2>1. auctions'[a] = auctions[a] BY <1>1, <1>7 DEF Applies
  <2>2. \A m \in Indexed(a) : m # x BY <1>7 DEF Indexed
  <2>3. QED BY <1>2, <1>5, <1>6, <2>1, <2>2, RowStays
<1>8. CASE ~useDb
  <2>1. auctions' = auctions BY <1>1, <1>8 DEF Applies
  <2>2. QED BY <1>2, <1>5, <1>6, <1>8, <2>1, RowStays
<1>9. CASE Chain[x].auction = a /\ useDb /\ x \notin Indexed(a)
  <2>1. x \in logged \/ x \in affected BY <1>1, <1>2, <1>9 DEF Batch, Handled
  <2>2. CASE x \in logged
    <3>1. auctions' = auctions BY <1>1, <1>9, <2>2 DEF Applies
    <3>2. QED BY <1>2, <1>5, <1>6, <1>9, <3>1, RowStays
  <2>3. CASE x \in affected
    <3>1. ~Sound(a)' BY <1>5, <1>9, <2>3 DEF Sound
    <3>2. QED BY <3>1 DEF RowInv
  <2>4. QED BY <2>1, <2>2, <2>3
<1>10. CASE Chain[x].auction = a /\ useDb /\ x \in Indexed(a)
  <2>1. CASE ~ok
    <3>1. x \in affected' BY <1>1, <2>1 DEF Applies
    <3>2. ~Sound(a)' BY <1>10, <3>1 DEF Sound
    <3>3. QED BY <3>2 DEF RowInv
  <2>2. CASE ok
    <3>1. Mirrors(a, x)' BY <1>1, <1>10, <2>2 DEF Applies
    <3>2. ASSUME NEW m \in Indexed(a), Sound(a)', \A e \in Indexed(a) : e <= m, m # x
          PROVE  Pending(m)'
      <4>1. /\ x \in Events /\ m \in Events /\ m \in WatchedEvents /\ x \in Nat /\ m \in Nat
            /\ x <= m
        BY <1>4, <1>10, <3>2, ChainFacts DEF TypeOK
      <4>2. x < m BY <3>2, <4>1
      <4>3. Later(m) BY <1>3, <4>1, <4>2 DEF InOrder
      <4>4. Later(m)' BY <1>1, <1>2, <3>2, <4>1, <4>3, ApplyKeepsLater
      <4>5. /\ startLedger <= LedgerOf(x) /\ LedgerOf(x) <= LedgerOf(m)
            /\ LedgerOf(x) \in Nat /\ LedgerOf(m) \in Nat
        BY <4>1, <4>2, ChainFacts DEF Batch
      <4>6. ~readFailed /\ ~admin.late BY <1>2, <3>2 DEF Sound
      <4>7. checkpoint <= startLedger /\ memCheckpoint <= startLedger /\ admin.read <= startLedger
        BY <1>3, <1>10, <4>6 DEF Restart
      <4>8. /\ checkpoint <= LedgerOf(m) /\ memCheckpoint <= LedgerOf(m)
            /\ admin.read <= LedgerOf(m) /\ startLedger <= LedgerOf(m)
        BY <4>5, <4>7, Ledgers
      <4>9. QED BY <1>2, <4>4, <4>8 DEF Pending
    <3>3. QED BY <1>4, <3>1, <3>2 DEF RowInv
  <2>3. QED BY <2>1, <2>2
<1>11. QED BY <1>7, <1>8, <1>9, <1>10

LEMMA StepRow ==
  ASSUME IndexerInv, InOrder, Restart, [Next]_vars, NEW a \in AuctionIds, RowInv(a)
  PROVE  RowInv(a)'
<1>1. TypeOK /\ Loop /\ Batch /\ Whole BY DEF IndexerInv
<1>2. CASE UNCHANGED vars
  <2>1. UNCHANGED <<logged, base, auctions, affected, jumped, readFailed, admin, checkpoint, pc,
                    useDb, memCheckpoint, startLedger, todo, lastLedgerSeen, cursor, complete,
                    endLedger>>
    BY <1>2 DEF vars, outside, batchVars, memVars, dbVars, history
  <2>2. QED BY <2>1, QuietRow DEF InBatch
<1>3. CASE Poll \/ Sleep \/ LedgerCloses \/ QueryFails \/ SyncLiveState
  <2>1. UNCHANGED <<logged, base, auctions, affected, jumped, readFailed, admin, checkpoint, useDb,
                    memCheckpoint>>
    BY <1>3 DEF Poll, Sleep, LedgerCloses, QueryFails, SyncLiveState, outside, batchVars, memVars,
                dbVars, history
  <2>2. InBatch' => /\ InBatch /\ (pc' = "fetch" => pc = "fetch")
                    /\ UNCHANGED <<startLedger, todo, lastLedgerSeen, cursor, complete, endLedger>>
    BY <1>3 DEF Poll, Sleep, LedgerCloses, QueryFails, SyncLiveState, batchVars, InBatch
  <2>3. QED BY <2>1, <2>2, QuietRow
<1>4. CASE Start BY <1>1, <1>4, StartRow
<1>5. CASE Crash BY <1>1, <1>5, CrashRow
<1>6. CASE AdminReads \/ AdminAnswered BY <1>1, <1>6, AdminRow
<1>7. CASE ReadCheckpoint BY <1>1, <1>7, ReadRow
<1>8. CASE FetchPage BY <1>1, <1>8, FetchRow
<1>9. CASE SkipAhead BY <1>1, <1>9, SkipRow
<1>10. CASE LogEvent BY <1>1, <1>10, LogRow
<1>11. CASE ApplyEvent BY <1>1, <1>11, ApplyRow
<1>12. CASE SaveCheckpoint BY <1>1, <1>12, SaveRow
<1>13. QED
  BY <1>2, <1>3, <1>4, <1>5, <1>6, <1>7, <1>8, <1>9, <1>10, <1>11, <1>12 DEF Next, IndexerStep

\* The invariant with the rows: a row that does not follow its last event has
\* that event still to come.
THEOREM RowsInvariant == Spec => []RowsInv
<1>1. Init => RowsInv
  <2> SUFFICES ASSUME Init PROVE RowsInv OBVIOUS
  <2>1. IndexerInv BY InitInv
  <2>2. InOrder /\ Restart BY DEF Init, InOrder, Restart, InBatch
  <2>3. \A a \in AuctionIds : RowInv(a) BY DEF Init, RowInv, Indexed
  <2>4. QED BY <2>1, <2>2, <2>3 DEF RowsInv
<1>2. RowsInv /\ [Next]_vars => RowsInv'
  <2> SUFFICES ASSUME RowsInv, [Next]_vars PROVE RowsInv' OBVIOUS
  <2>1. IndexerInv /\ InOrder /\ Restart BY DEF RowsInv
  <2>2. IndexerInv' BY <2>1, StepInv, StutterInv
  <2>3. InOrder' /\ Restart' BY <2>1, StepInOrder, StepRestart
  <2>4. ASSUME NEW a \in AuctionIds PROVE RowInv(a)'
    <3>1. RowInv(a) BY DEF RowsInv
    <3>2. QED BY <2>1, <3>1, StepRow
  <2>5. QED BY <2>2, <2>3, <2>4 DEF RowsInv, AuctionIds
<1>3. QED BY <1>1, <1>2, PTL DEF Spec

\* Once the saved checkpoint has passed the logged events of an auction, its
\* row is active exactly when the last of them is a creation, whatever crashes
\* and replays came between (the comment "Idempotent State Updates",
\* indexer.ts:251), but for the failures the property excepts.
THEOREM RowsAlwaysFollow == Spec => []RowsFollowTheLog
<1>1. ASSUME RowsInv PROVE RowsFollowTheLog
  <2>1. TypeOK BY <1>1 DEF RowsInv, IndexerInv
  <2>2. ASSUME NEW a \in AuctionIds, Indexed(a) # {},
               \A e \in Indexed(a) : base <= LedgerOf(e) /\ LedgerOf(e) < checkpoint
                                     /\ LedgerOf(e) \notin jumped,
               \A e \in affected : Chain[e].auction # a,
               ~readFailed, ~admin.late
        PROVE  auctions[a] = "active" <=> Chain[Max(Indexed(a))].name = "AuctionCreated"
    <3>1. Indexed(a) \in SUBSET Nat /\ IsFiniteSet(Indexed(a))
      <4>1. Indexed(a) \subseteq Events BY <2>1 DEF Indexed, TypeOK
      <4>2. QED BY <4>1, ChainFacts, FS_Subset
    <3>2. PICK m \in Indexed(a) : m = Max(Indexed(a)) /\ \A e \in Indexed(a) : e <= m
      BY <2>2, <3>1, GreatestOf
    <3>3. Sound(a) BY <2>2 DEF Sound
    <3>4. Mirrors(a, m) \/ Pending(m) BY <1>1, <2>2, <3>2, <3>3 DEF RowsInv, RowInv
    <3>5. ~Pending(m)
      <4>1. LedgerOf(m) < checkpoint BY <2>2, <3>2
      <4>2. LedgerOf(m) \in Nat /\ checkpoint \in Nat
        BY <2>1, ChainFacts, Ledgers DEF Indexed, TypeOK
      <4>3. ~(checkpoint <= LedgerOf(m)) BY <4>1, <4>2
      <4>4. QED BY <4>3 DEF Pending
    <3>6. QED BY <3>2, <3>4, <3>5 DEF Mirrors
  <2>3. QED BY <2>1, <2>2 DEF RowsFollowTheLog
<1>2. QED BY <1>1, RowsInvariant, PTL
=============================================================================
