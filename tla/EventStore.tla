------------------------------ MODULE EventStore ------------------------------
(***************************************************************************)
(* The backend's journal (persistence/event-store.service.ts) and the REST *)
(* reads of it (history/history.controller.ts): a table of Postgres, or a  *)
(* ring in memory when there is no database or it cannot be reached at     *)
(* start-up; batches of rows saved concurrently; restarts.                 *)
(*                                                                         *)
(* A row is its number in the order of the calls of save(), its session    *)
(* and its date (atMs); the other columns are data the store never reads.  *)
(* The dates come from the AI service: two sessions' need not be in order. *)
(* Limits are integers: what becomes of a fraction, which the code passes  *)
(* on as it is, is up to Postgres and to slice() and left out.             *)
(***************************************************************************)
EXTENDS Integers, Sequences, FiniteSets, SequencesExt

CONSTANTS
  Sessions,     \* session identifiers
  Dates,        \* the dates of rows
  MemoryLimit,  \* EventStore.memoryLimit (1000)
  MaxLimit,     \* the largest limit a reader gets (500)
  DefaultLimit, \* the limit when none is given (50, 200)
  MaxBatch,     \* bound on the rows of a call of save()
  MaxRows,      \* bound on the rows
  MaxStarts     \* bound on the starts of the backend

ASSUME StoreAssumption ==
  /\ MemoryLimit \in Nat /\ MaxStarts \in Nat
  /\ MaxLimit \in Nat \ {0} /\ DefaultLimit \in Nat \ {0}
  /\ Sessions # {} /\ Dates # {} /\ Dates \subseteq Int

VARIABLES
  url,      \* DATABASE_URL is set
  up,       \* the backend is listening
  repo,     \* EventStore.repo is set
  memory,   \* EventStore.memory
  table,    \* the rows of scene_events, in the order they were committed
  pending,  \* inserts under way: their rows, and whether they are committed
  next,     \* number of the next row
  starts,
  saved,    \* history: the rows given to save() since start-up, in memory mode
  acked     \* history: the rows whose save() resolved in database mode

process == <<up, repo, memory, saved, pending, starts>>
vars == <<url, process, table, next, acked>>

Row == [id : Nat, session : Sessions, at : Dates]

Init ==
  /\ url \in BOOLEAN
  /\ up = FALSE /\ repo = FALSE
  /\ memory = <<>> /\ saved = <<>>
  /\ table = <<>> /\ pending = {}
  /\ next = 0 /\ starts = 0
  /\ acked = {}

-----------------------------------------------------------------------------
\* onModuleInit, before the backend listens: an empty memory, and the
\* database if it is configured and answers.
Start ==
  /\ ~up /\ starts < MaxStarts
  /\ starts' = starts + 1
  /\ up' = TRUE
  /\ repo' \in IF url THEN BOOLEAN ELSE {FALSE}
  /\ memory' = <<>> /\ saved' = <<>>
  /\ UNCHANGED <<url, table, pending, next, acked>>

\* The process ends (onModuleDestroy, or a crash): what it was inserting is
\* in the table or not, nobody is told.
Stop ==
  /\ up
  /\ up' = FALSE /\ repo' = FALSE
  /\ memory' = <<>> /\ saved' = <<>>
  /\ pending' = {}
  /\ UNCHANGED <<url, table, next, starts, acked>>

\* Mutant: one row leaves when the ring is over full, whatever was pushed.
SplicedOne(rows) == IF Len(rows) > MemoryLimit THEN Tail(rows) ELSE rows

\* Mutant: the splice takes the new rows.
SplicedEnd(rows) == IF Len(rows) > MemoryLimit THEN SubSeq(rows, 1, MemoryLimit) ELSE rows

\* splice(0, length - memoryLimit).
Spliced(rows) ==
  IF Len(rows) > MemoryLimit
  THEN SubSeq(rows, Len(rows) - MemoryLimit + 1, Len(rows))
  ELSE rows

\* save(): the ring takes the batch at once, the database is asked to insert
\* it.  An empty batch changes nothing.
Save(batch) ==
  /\ up
  /\ next' = next + Len(batch)
  /\ IF repo
     THEN /\ pending' = pending \cup {[rows |-> batch, done |-> FALSE]}
          /\ UNCHANGED <<memory, saved>>
     ELSE /\ memory' = Spliced(memory \o batch)
          /\ saved' = saved \o batch
          /\ UNCHANGED pending
  /\ UNCHANGED <<url, up, repo, table, starts, acked>>

\* The database commits an insert: all its rows, or none.
Commit(b) ==
  /\ b \in pending /\ ~b.done
  /\ table' = table \o b.rows
  /\ pending' = (pending \ {b}) \cup {[b EXCEPT !.done = TRUE]}
  /\ UNCHANGED <<url, up, repo, memory, saved, next, starts, acked>>

\* Mutant: the insert is not awaited.
NotAwaited(b) == TRUE

\* await repo.insert(): save() goes on when the insert is done.
Awaited(b) == b.done

\* save() resolves.
Saved(b) ==
  /\ b \in pending /\ Awaited(b)
  /\ pending' = pending \ {b}
  /\ acked' = acked \cup ToSet(b.rows)
  /\ UNCHANGED <<url, up, repo, memory, saved, table, next, starts>>

\* Mutant: a failed insert is tried again.
TriedAgain(b) == (pending \ {b}) \cup {[b EXCEPT !.done = FALSE]}

\* The gateway logs the failure and forgets the batch.
Forgotten(b) == pending \ {b}

\* The insert fails, or its answer is lost: save() rejects.
SaveFails(b) ==
  /\ b \in pending
  /\ pending' = Forgotten(b)
  /\ UNCHANGED <<url, up, repo, memory, saved, table, next, starts, acked>>

\* The batches the gateway hands over: the rows of an analysis, of one session.
Batches ==
  UNION {{[i \in 1..n |-> [id |-> next + i, session |-> s, at |-> dates[i]]] :
            dates \in [1..n -> Dates]} : n \in 1..MaxBatch, s \in Sessions}

Next ==
  \/ Start \/ Stop
  \/ \E batch \in Batches : next + Len(batch) <= MaxRows /\ Save(batch)
  \/ \E b \in pending : Commit(b) \/ Saved(b) \/ SaveFails(b)

Spec == Init /\ [][Next]_vars

-----------------------------------------------------------------------------
\* What reads see.  Postgres orders rows of one date as it likes: no property
\* depends on the order of ties.
Rows == IF repo THEN table ELSE memory

Newer(a, b) == a.at > b.at

\* Of two places of the journal, the one a sorted answer has first.
Before(rows, i, j) ==
  Newer(rows[i], rows[j]) \/ (~Newer(rows[j], rows[i]) /\ i < j)

\* The position of a place among these once they are sorted.
Rank(rows, places, i) == 1 + Cardinality({j \in places : Before(rows, j, i)})

\* order: { atMs: 'DESC' }, take: n; sort and slice(0, n).
Latest(rows, places, n) ==
  LET all == Cardinality(places)
  IN  [k \in 1..(IF n < all THEN n ELSE all) |->
         rows[CHOOSE i \in places : Rank(rows, places, i) = k]]

\* parseLimit, of an integer; one that is absent or no number is a 0 here.
ParseLimit(raw) ==
  IF raw <= 0 THEN DefaultLimit ELSE IF raw < MaxLimit THEN raw ELSE MaxLimit

\* GET events/recent.
Recent(raw) == Latest(Rows, DOMAIN Rows, ParseLimit(raw))

\* where: { sessionId }; filter.
OfSession(rows, s) == {i \in DOMAIN rows : rows[i].session = s}

\* Mutant: the rows are cut before the session's are chosen.
BySessionCut(s, raw) == SelectSeq(Recent(raw), LAMBDA r : r.session = s)

\* GET sessions/:id/events.
BySession(s, raw) == Latest(Rows, OfSession(Rows, s), ParseLimit(raw))

-----------------------------------------------------------------------------
\* Every piece of state has its type; a process without database has no
\* insert under way, one with it keeps nothing in memory.
TypeOK ==
  /\ url \in BOOLEAN /\ up \in BOOLEAN /\ repo \in BOOLEAN
  /\ memory \in Seq(Row) /\ saved \in Seq(Row) /\ table \in Seq(Row)
  /\ Len(memory) <= MemoryLimit
  /\ pending \subseteq [rows : Seq(Row), done : BOOLEAN]
  /\ next \in Nat /\ starts \in 0..MaxStarts
  /\ acked \subseteq Row
  /\ repo => up /\ url /\ memory = <<>>
  /\ ~repo => pending = {}

\* In memory mode the journal is the last MemoryLimit rows handed to save()
\* since start-up, in that order, whatever the sizes of the batches
\* (event-store.service.ts:67-70).
KeptIsWindow ==
  /\ Len(memory) = (IF Len(saved) < MemoryLimit THEN Len(saved) ELSE MemoryLimit)
  /\ \A i \in 1..Len(memory) : memory[i] = saved[Len(saved) - Len(memory) + i]

\* In database mode a save() that resolved is for good: its rows are in the
\* table through failures and restarts (event-store.service.ts:63-66).
AckedIsDurable == acked \subseteq ToSet(table)

\* No row is journaled twice, and none that is still waiting is in the table,
\* even when the answer to its insert is lost (event-store.service.ts:64,
\* stream.gateway.ts:127-131).
StoredOnce ==
  /\ \A i, j \in DOMAIN table : table[i].id = table[j].id => i = j
  /\ \A b \in pending : ~b.done =>
       \A i \in DOMAIN b.rows, j \in DOMAIN table : b.rows[i].id # table[j].id

\* The answer is n of the rows at most, newest first, and leaves out none
\* newer than one it has.
IsLatest(answer, rows, n) ==
  /\ Len(answer) = (IF n < Cardinality(rows) THEN n ELSE Cardinality(rows))
  /\ IsInjective(answer)
  /\ ToSet(answer) \subseteq rows
  /\ \A i, j \in DOMAIN answer : i < j => answer[i].at >= answer[j].at
  /\ \A r \in rows \ ToSet(answer), i \in DOMAIN answer : answer[i].at >= r.at

\* Reads answer the newest rows by date, whatever the order they were saved
\* in; a session's reader gets its own newest, not what the other sessions
\* leave of the journal's; no limit asked for returns more than the largest
\* (event-store.service.ts:73-97, history.controller.ts:38-44).
ReadsAreLatest ==
  \A raw \in -1..MaxLimit + 1 :
    LET n == IF raw \in 1..MaxLimit THEN raw
             ELSE IF raw > MaxLimit THEN MaxLimit ELSE DefaultLimit
    IN  /\ IsLatest(Recent(raw), ToSet(Rows), n)
        /\ \A s \in Sessions :
             IsLatest(BySession(s, raw), {r \in ToSet(Rows) : r.session = s}, n)
=============================================================================
