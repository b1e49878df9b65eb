------------------------------ MODULE Proposals ------------------------------
(***************************************************************************)
(* The governance proposals of the server: routes/proposals.ts over the    *)
(* two copies server/src/db/index.ts keeps of them, a map in the process's *)
(* memory and a table.                                                     *)
(*                                                                         *)
(* A proposal is found in memory first and in the table only when memory   *)
(* has none; the list of all of them comes from the table, if there is one.*)
(* A change is made in memory at once and sent to the table, where changes *)
(* sent on different connections may land in any order, or fail unnoticed. *)
(* Other requests run whenever one waits for the database.                 *)
(***************************************************************************)
EXTENDS Naturals, FiniteSets, FiniteSetsExt, Tally

CONSTANTS
  Titles,          \* of the proposals that are posted
  Seeds,           \* the numbers the memory starts with (1 to 3 in the code)
  MaxId,           \* bound on the numbers of proposals
  MaxVotes,        \* bound on the votes that are counted
  MaxLoads,        \* bound on the loads under way
  MaxFailures,     \* bound on database calls that fail
  MaxRestarts      \* bound on restarts of the server

ASSUME SeedsAssumption == Seeds \subseteq 1..MaxId /\ MaxId \in Nat
ASSUME TitlesAssumption == "seed" \notin Titles /\ "none" \notin Titles
ASSUME LimitsAssumption ==
  MaxVotes \in Nat /\ MaxLoads \in Nat /\ MaxFailures \in Nat /\ MaxRestarts \in Nat

VARIABLES
  \* The server.
  useDb,           \* decided once, before the process takes requests
  mem,             \* memoryStore.proposals
  loads,           \* getProposal with the table's row on its way
  posts,           \* POST / with the list on its way
  \* The database.
  table,           \* the rows of proposals
  writes,          \* upserts sent and not settled
  \* Bounds and history.
  failures, restarts,
  cast,            \* the votes counted for each number
  created,         \* the number each title was created with, or 0
  raced,           \* numbers taken twice, or whose memory was overtaken or lost
  unsaved,         \* numbers with an upsert that failed or was overtaken
  together,        \* pairs of titles: one was posted before the other had a row
  blind,           \* titles posted over the list of a memory that began later
  lost             \* titles without a row whose upsert failed or was lost

proposalVars ==
  <<useDb, mem, loads, posts, table, writes, failures, restarts, cast, created, raced,
    unsaved, together, blind, lost>>

Ids == 1..MaxId
Rows == [title : Titles \cup {"seed", "none"}, votes : Nat]
Row(t) == [title |-> t, votes |-> 0]
NoRow == Row("none")
Present(rows) == {id \in Ids : rows[id] # NoRow}

ProposalsTypeOK ==
  /\ useDb \in BOOLEAN
  /\ mem \in [Ids -> Rows] /\ table \in [Ids -> Rows]
  /\ \A id \in Ids : mem[id].title = "none" => mem[id] = NoRow
  /\ loads \subseteq [slot : 1..MaxLoads, id : Ids, vote : BOOLEAN, row : Rows]
  /\ posts \subseteq [title : Titles, last : 0..MaxId]
  /\ writes \subseteq [id : Ids, row : Rows]
  /\ cast \in [Ids -> 0..MaxVotes] /\ created \in [Titles -> 0..MaxId]
  /\ failures \in 0..MaxFailures /\ restarts \in 0..MaxRestarts
  /\ raced \subseteq Ids /\ unsaved \subseteq Ids
  /\ together \subseteq SUBSET (Titles \cup {"seed"})
  /\ blind \subseteq Titles /\ lost \subseteq Titles \cup {"seed"}

\* The memory of a new process.
SeedRows == [id \in Ids |-> IF id \in Seeds THEN Row("seed") ELSE NoRow]

ProposalsInit ==
  /\ useDb \in BOOLEAN
  /\ mem = SeedRows /\ table = [id \in Ids |-> NoRow]
  /\ loads = {} /\ posts = {} /\ writes = {}
  /\ failures = 0 /\ restarts = 0
  /\ cast = [id \in Ids |-> 0] /\ created = [t \in Titles |-> 0]
  /\ raced = {} /\ unsaved = {}
  /\ together = {} /\ blind = {} /\ lost = {}
-----------------------------------------------------------------------------
\* upsertProposal: memory now, the table when the upsert settles.
Upsert(id, row) ==
  /\ mem' = [mem EXCEPT ![id] = row]
  /\ writes' = IF useDb THEN writes \cup {[id |-> id, row |-> row]} ELSE writes

\* The row a vote leaves.
WithFirstVote(row) == [row EXCEPT !.votes = 1]  \* mutant: the votes are not added up
WithVote(row) == [row EXCEPT !.votes = @ + 1]

\* POST /:proposalId/vote once getProposal has returned a row.
Cast(id, row) ==
  /\ Upsert(id, WithVote(row))
  /\ cast' = [cast EXCEPT ![id] = @ + 1]

\* Without a proposal the answer is 404.
FoundAlways(row) == TRUE                       \* mutant: the check is dropped
Found(row) == row # NoRow

Votes == Total(cast, Ids)

\* Titles a list of the table does not have yet, but may soon.
Unlisted == {p.title : p \in posts} \cup {w.row.title : w \in {v \in writes : table[v.id] = NoRow}}
Beside(title) == {{title, u} : u \in Unlisted}

\* POST /:proposalId/vote, the proposal in memory: nothing runs in between.
VoteInMemory(id) ==
  /\ Votes < MaxVotes /\ Found(mem[id])
  /\ Cast(id, mem[id])
  /\ together' = IF useDb /\ table[id] = NoRow THEN together \cup Beside(mem[id].title)
                 ELSE together
  /\ UNCHANGED <<useDb, loads, posts, table, failures, restarts, created, raced, unsaved,
                 blind, lost>>

\* GET /:proposalId or a vote, the proposal not in memory: getProposal asks
\* the table, which reads the row or fails.
Load(slot, id, vote) ==
  /\ useDb /\ mem[id] = NoRow /\ \A r \in loads : r.slot # slot
  /\ \/ /\ loads' = loads \cup {[slot |-> slot, id |-> id, vote |-> vote, row |-> table[id]]}
        /\ UNCHANGED failures
     \/ UNCHANGED loads /\ failures < MaxFailures /\ failures' = failures + 1
  /\ UNCHANGED <<useDb, mem, posts, table, writes, restarts, cast, created, raced, unsaved,
                 together, blind, lost>>

\* getProposal puts what was read in memory, whatever memory has by now, and
\* the route goes on.  Without a row, and without a table, the answer is 404.
LoadGoesOn(r) ==
  /\ r \in loads
  /\ loads' = loads \ {r}
  /\ \/ ~Found(r.row) /\ UNCHANGED <<mem, writes, cast, raced>>
     \/ /\ Found(r.row)
        /\ \/ ~r.vote /\ mem' = [mem EXCEPT ![r.id] = r.row] /\ UNCHANGED <<writes, cast>>
           \/ r.vote /\ Votes < MaxVotes /\ Cast(r.id, r.row)
        /\ raced' = IF mem[r.id] # NoRow THEN raced \cup {r.id} ELSE raced
  /\ UNCHANGED <<useDb, posts, table, failures, restarts, created, unsaved, together, blind, lost>>
-----------------------------------------------------------------------------
\* Math.max over the list, 0 when it is empty.
LastId(ids) == Max(ids \cup {0})
NextIdLast(last) == IF last = 0 THEN 1 ELSE last  \* mutant: no + 1
NextId(last) == last + 1

LastTaken == LastId(Present(table) \cup {w.id : w \in writes})

\* POST / with the list it read: the proposal gets the next number.
Create(title, last) ==
  /\ NextId(last) \in Ids
  /\ Upsert(NextId(last), Row(title))
  /\ created' = [created EXCEPT ![title] = NextId(last)]
  /\ cast' = [cast EXCEPT ![NextId(last)] = 0]
  /\ raced' = IF useDb /\ NextId(last) <= LastTaken THEN raced \cup {NextId(last)} ELSE raced

Blinded(title) == blind' = IF restarts > 0 THEN blind \cup {title} ELSE blind

\* POST /, without a table.
PostInMemory(title) ==
  /\ ~useDb /\ created[title] = 0
  /\ Create(title, LastId(Present(mem)))
  /\ Blinded(title)
  /\ UNCHANGED <<useDb, loads, posts, table, failures, restarts, unsaved, together, lost>>

\* POST / asks for the list of getAllProposals: the table's or, if the database
\* fails, memory's.
Post(title) ==
  /\ useDb /\ created[title] = 0 /\ \A p \in posts : p.title # title
  /\ \/ /\ posts' = posts \cup {[title |-> title, last |-> LastId(Present(table))]}
        /\ UNCHANGED <<failures, blind>>
     \/ /\ failures < MaxFailures /\ failures' = failures + 1
        /\ posts' = posts \cup {[title |-> title, last |-> LastId(Present(mem))]}
        /\ Blinded(title)
  /\ together' = together \cup Beside(title)
  /\ UNCHANGED <<useDb, mem, loads, table, writes, restarts, cast, created, raced, unsaved, lost>>

PostGoesOn(p) ==
  /\ p \in posts
  /\ posts' = posts \ {p}
  /\ Create(p.title, p.last)
  /\ UNCHANGED <<useDb, loads, table, failures, restarts, unsaved, together, blind, lost>>
-----------------------------------------------------------------------------
\* ON CONFLICT: of a row that is there only votes and status are replaced.
Merged(old, new) == IF old = NoRow THEN new ELSE [new EXCEPT !.title = old.title]

Overtakes(w) == \E v \in writes \ {w} : v.id = w.id /\ v.row.votes < w.row.votes

\* The database runs the upsert, in any order with the others.
WriteLands(w) ==
  /\ w \in writes
  /\ writes' = writes \ {w}
  /\ table' = [table EXCEPT ![w.id] = Merged(@, w.row)]
  /\ unsaved' = IF Overtakes(w) THEN unsaved \cup {w.id} ELSE unsaved
  /\ UNCHANGED <<useDb, mem, loads, posts, failures, restarts, cast, created, raced, together,
                 blind, lost>>

\* The upsert fails: it is logged, and the request is answered as if it had not.
WriteFails(w) ==
  /\ w \in writes /\ failures < MaxFailures
  /\ failures' = failures + 1
  /\ writes' = writes \ {w}
  /\ unsaved' = unsaved \cup {w.id}
  /\ lost' = IF table[w.id] = NoRow THEN lost \cup {w.row.title} ELSE lost
  /\ UNCHANGED <<useDb, mem, loads, posts, table, restarts, cast, created, raced, together, blind>>

\* The server stops and starts again: memory has the seeds, and a database that
\* does not answer is not used at all until the next start.  Upserts under way may
\* be lost or land.
ServerRestarts ==
  /\ restarts < MaxRestarts /\ restarts' = restarts + 1
  /\ useDb' \in BOOLEAN
  /\ IF useDb /\ ~useDb' THEN failures < MaxFailures /\ failures' = failures + 1
                          ELSE UNCHANGED failures
  /\ mem' = SeedRows /\ loads' = {} /\ posts' = {}
  /\ writes' \in SUBSET writes
  /\ raced' = IF useDb /\ useDb' THEN raced \cup unsaved \cup {w.id : w \in writes} ELSE Ids
  /\ lost' = lost \cup {t \in Titles : /\ created[t] # 0 /\ table[created[t]] = NoRow
                                       /\ \A w \in writes' : w.row.title # t}
  /\ UNCHANGED <<table, cast, created, unsaved, together, blind>>
-----------------------------------------------------------------------------
ProposalsNext ==
  \/ \E id \in Ids : VoteInMemory(id)
  \/ \E slot \in 1..MaxLoads, id \in Ids, vote \in BOOLEAN : Load(slot, id, vote)
  \/ \E r \in loads : LoadGoesOn(r)
  \/ \E title \in Titles : PostInMemory(title) \/ Post(title)
  \/ \E p \in posts : PostGoesOn(p)
  \/ \E w \in writes : WriteLands(w) \/ WriteFails(w)
  \/ ServerRestarts
-----------------------------------------------------------------------------
\* Every vote that was answered counts, once: in memory, and in the table when
\* its upserts have settled.  The exceptions are the seeds, which hide the
\* table's rows after a restart; a number that is taken twice; a load that comes
\* back when memory already has the proposal; what the process lost; and, for the
\* table, upserts that failed or landed out of order (getProposal,
\* upsertProposal and the vote's route).
VotesCount ==
  \A id \in Ids \ (Seeds \cup raced) :
    /\ mem[id] # NoRow => mem[id].votes = cast[id]
    /\ (useDb /\ id \notin unsaved /\ \A w \in writes : w.id # id) => table[id].votes = cast[id]

Excused(t, u) ==
  {t, u} \in together \/ t \in blind \/ u \in blind \/ t \in lost \/ u \in lost

\* Two proposals share a number only if one was posted before the other's row
\* was in the table, if one's first upsert failed or was lost with its process, or
\* if one was numbered by the memory of a server that had restarted.  A proposal
\* that shares its number with none and was not lost keeps its title in the list,
\* unless it was posted while a vote on a built-in proposal was on its way (POST /,
\* getAllProposals and the ON CONFLICT of upsertProposal).
ProposalsKept ==
  \A t \in Titles : created[t] # 0 =>
    /\ \A u \in Titles \ {t} : created[u] = created[t] => Excused(t, u)
    /\ ~useDb /\ restarts = 0 => mem[created[t]].title = t
    /\ /\ useDb /\ t \notin lost /\ {t, "seed"} \notin together
       /\ \A u \in Titles \ {t} : created[u] # created[t]
       /\ \A w \in writes : w.id # created[t]
       => table[created[t]].title = t
=============================================================================
