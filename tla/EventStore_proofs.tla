-------------------------- MODULE EventStore_proofs --------------------------
(***************************************************************************)
(* Proofs about EventStore, for every size of the ring, every batch and    *)
(* any number of restarts: what the ring keeps, that an acknowledged row   *)
(* is in the table once, for good, and that reads answer the newest rows.  *)
(***************************************************************************)
EXTENDS EventStore, SequenceTheorems, FiniteSetTheorems, TLAPS

\* A splice keeps the last rows, all of them when they fit.
LEMMA SplicedWindow ==
  ASSUME NEW rows \in Seq(Row)
  PROVE  /\ Spliced(rows) \in Seq(Row)
         /\ Len(Spliced(rows)) = (IF Len(rows) < MemoryLimit THEN Len(rows) ELSE MemoryLimit)
         /\ \A i \in 1..Len(Spliced(rows)) :
              Spliced(rows)[i] = rows[Len(rows) - Len(Spliced(rows)) + i]
<1> USE StoreAssumption DEF StoreAssumption
<1>0. Len(rows) \in Nat
  BY SMT
<1>1. CASE Len(rows) <= MemoryLimit
  <2>1. Spliced(rows) = rows
    BY <1>0, <1>1, SMT DEF Spliced
  <2>2. Len(rows) = (IF Len(rows) < MemoryLimit THEN Len(rows) ELSE MemoryLimit)
    BY <1>0, <1>1, SMT
  <2>3. \A i \in 1..Len(rows) : Len(rows) - Len(rows) + i = i
    BY <1>0, SMT
  <2> QED
    BY <2>1, <2>2, <2>3
<1>2. CASE Len(rows) > MemoryLimit
  <2>1. Spliced(rows) = SubSeq(rows, Len(rows) - MemoryLimit + 1, Len(rows))
    BY <1>2, SMT DEF Spliced
  <2> QED
    BY <1>2, <2>1, SMT
<1> QED
  BY <1>0, <1>1, <1>2, SMT

\* The rows of a batch of the gateway.
LEMMA BatchRows ==
  ASSUME NEW batch \in Batches, next \in Nat
  PROVE  batch \in Seq(Row) /\ Len(batch) \in Nat
         /\ \A i \in 1..Len(batch) : batch[i].id = next + i
<1>0. PICK n \in 1..MaxBatch, s \in Sessions :
        batch \in {[i \in 1..n |-> [id |-> next + i, session |-> s, at |-> dates[i]]] :
                     dates \in [1..n -> Dates]}
  BY SMT DEF Batches
<1>1. PICK dates \in [1..n -> Dates] :
        batch = [i \in 1..n |-> [id |-> next + i, session |-> s, at |-> dates[i]]]
  BY <1>0
<1>2. \A i \in 1..n : batch[i] \in Row /\ batch[i].id = next + i
  BY <1>1, SMT DEF Row
<1>3. Len(batch) = n /\ batch \in Seq(Row)
  BY <1>1, <1>2, SMT
<1> QED
  BY <1>2, <1>3, SMT

\* The flags, and where a process journals.
ModeInv ==
  /\ url \in BOOLEAN /\ up \in BOOLEAN /\ repo \in BOOLEAN
  /\ repo => up /\ url /\ memory = <<>>
  /\ ~repo => pending = {}

\* The rows and the counters.
DataInv ==
  /\ memory \in Seq(Row) /\ saved \in Seq(Row) /\ table \in Seq(Row)
  /\ Len(memory) <= MemoryLimit
  /\ pending \subseteq [rows : Seq(Row), done : BOOLEAN]
  /\ next \in Nat /\ starts \in 0..MaxStarts
  /\ acked \subseteq Row

\* The store starts stopped and empty.
LEMMA TypeInit == Init => ModeInv /\ DataInv
<1> SUFFICES ASSUME Init PROVE ModeInv /\ DataInv
  OBVIOUS
<1>1. ModeInv
  BY Zenon DEF Init, ModeInv
<1>2. <<>> \in Seq(Row) /\ Len(<<>>) = 0
  BY EmptySeq, Zenon
<1>3. DataInv
  BY <1>2, StoreAssumption, SMT DEF StoreAssumption, Init, DataInv
<1> QED
  BY <1>1, <1>3

\* No step mixes the two places.
LEMMA ModeStep == ModeInv /\ [Next]_vars => ModeInv'
<1> SUFFICES ASSUME ModeInv, [Next]_vars PROVE ModeInv'
  OBVIOUS
<1> USE DEF ModeInv, process
<1>1. CASE Start
  BY <1>1, Zenon DEF Start
<1>2. CASE Stop
  BY <1>2, Zenon DEF Stop
<1>3. ASSUME NEW batch \in Batches, Save(batch) PROVE ModeInv'
  BY <1>3, Zenon DEF Save
<1>4. ASSUME NEW b \in pending, Commit(b) \/ Saved(b) \/ SaveFails(b) PROVE ModeInv'
  <2>1. repo
    BY <1>4, Zenon
  <2>2. UNCHANGED <<url, up, repo, memory>>
    BY <1>4, Zenon DEF Commit, Saved, SaveFails
  <2> QED
    BY <2>1, <2>2, Zenon
<1>5. CASE UNCHANGED vars
  BY <1>5, Zenon DEF vars
<1> QED
  BY <1>1, <1>2, <1>3, <1>4, <1>5, Zenon DEF Next

\* The batch joins the ring and the history.
LEMMA Joined ==
  ASSUME DataInv, NEW batch \in Batches
  PROVE  /\ memory \o batch \in Seq(Row) /\ saved \o batch \in Seq(Row)
         /\ Spliced(memory \o batch) \in Seq(Row)
         /\ Len(Spliced(memory \o batch)) <= MemoryLimit
<1>1. batch \in Seq(Row)
  BY BatchRows, Zenon DEF DataInv
<1>2. memory \o batch \in Seq(Row) /\ saved \o batch \in Seq(Row)
  BY <1>1, ConcatProperties, Zenon DEF DataInv
<1>3. Len(memory \o batch) \in Nat
  BY <1>2, LenProperties, Zenon
<1> DEFINE kept == Spliced(memory \o batch)
<1>4. Len(kept) = (IF Len(memory \o batch) < MemoryLimit THEN Len(memory \o batch) ELSE MemoryLimit)
      /\ kept \in Seq(Row)
  BY <1>2, SplicedWindow, Zenon
<1>5. Len(kept) <= MemoryLimit
  BY <1>3, <1>4, StoreAssumption, SMT DEF StoreAssumption
<1> QED
  BY <1>2, <1>4, <1>5

\* No step breaks the types.
LEMMA DataStep == DataInv /\ [Next]_vars => DataInv'
<1> SUFFICES ASSUME DataInv, [Next]_vars PROVE DataInv'
  OBVIOUS
<1> USE StoreAssumption DEF StoreAssumption, DataInv, process
<1>0. <<>> \in Seq(Row) /\ Len(<<>>) = 0
  BY EmptySeq, Zenon
<1>1. CASE Start
  BY <1>0, <1>1, SMT DEF Start
<1>2. CASE Stop
  BY <1>0, <1>2, SMT DEF Stop
<1>3. ASSUME NEW batch \in Batches, Save(batch) PROVE DataInv'
  <2>1. batch \in Seq(Row) /\ Len(batch) \in Nat
    BY BatchRows
  <2>2. next' \in Nat /\ UNCHANGED <<table, starts, acked>>
    BY <1>3, <2>1, SMT DEF Save
  <2>3. memory' \in Seq(Row) /\ saved' \in Seq(Row) /\ Len(memory') <= MemoryLimit
    BY <1>3, Joined, Zenon DEF Save
  <2>4. [rows |-> batch, done |-> FALSE] \in [rows : Seq(Row), done : BOOLEAN]
    BY <2>1, Zenon
  <2>5. pending' \subseteq pending \cup {[rows |-> batch, done |-> FALSE]}
    BY <1>3, Zenon DEF Save
  <2> QED
    BY <2>2, <2>3, <2>4, <2>5, Zenon
<1>4. ASSUME NEW b \in pending, Commit(b) PROVE DataInv'
  <2>0. b \in [rows : Seq(Row), done : BOOLEAN]
    OBVIOUS
  <2>1. b.rows \in Seq(Row) /\ [b EXCEPT !.done = TRUE] \in [rows : Seq(Row), done : BOOLEAN]
    BY <2>0
  <2>2. table \o b.rows \in Seq(Row)
    BY <2>1, ConcatProperties, Zenon
  <2> QED
    BY <1>4, <2>1, <2>2, Zenon DEF Commit
<1>5. ASSUME NEW b \in pending, Saved(b) PROVE DataInv'
  <2>1. b.rows \in Seq(Row)
    BY Zenon
  <2>2. b.rows \in [1..Len(b.rows) -> Row] /\ DOMAIN b.rows = 1..Len(b.rows)
    BY <2>1, LenProperties, Zenon
  <2>3. ToSet(b.rows) \subseteq Row
    BY <2>2, Zenon DEF ToSet
  <2> QED
    BY <1>5, <2>3, Zenon DEF Saved
<1>6. ASSUME NEW b \in pending, SaveFails(b) PROVE DataInv'
  BY <1>6, Zenon DEF SaveFails, Forgotten
<1>7. CASE UNCHANGED vars
  BY <1>7, Zenon DEF vars
<1> QED
  BY <1>1, <1>2, <1>3, <1>4, <1>5, <1>6, <1>7, Zenon DEF Next

\* Every piece of state keeps its type, the ring its limit, and a process
\* journals in one place only (event-store.service.ts:25-49,59-71).
THEOREM TypeCorrect == Spec => []TypeOK
<1>1. ModeInv /\ DataInv => TypeOK
  BY DEF ModeInv, DataInv, TypeOK
<1> QED
  BY <1>1, TypeInit, ModeStep, DataStep, PTL DEF Spec

-----------------------------------------------------------------------------
\* A step keeps the ring the window of what was saved.
LEMMA WindowStep == DataInv /\ KeptIsWindow /\ [Next]_vars => KeptIsWindow'
<1> SUFFICES ASSUME DataInv, KeptIsWindow, [Next]_vars PROVE KeptIsWindow'
  OBVIOUS
<1>0. memory \in Seq(Row) /\ saved \in Seq(Row) /\ Len(memory) \in Nat /\ Len(saved) \in Nat
  BY LenProperties, Zenon DEF DataInv
<1>1. CASE Start \/ Stop
  <2>1. memory' = <<>> /\ saved' = <<>>
    BY <1>1, Zenon DEF Start, Stop
  <2>2. Len(memory') = 0 /\ Len(saved') = 0
    BY <2>1, EmptySeq, Zenon
  <2> QED
    BY <2>2, StoreAssumption, SMT DEF StoreAssumption, KeptIsWindow
<1>2. ASSUME NEW batch \in Batches, memory' = Spliced(memory \o batch), saved' = saved \o batch
      PROVE  KeptIsWindow'
  <2> DEFINE rows == memory \o batch
             M == Len(memory)  S == Len(saved)  B == Len(batch)
             R == Len(rows)  K == Len(memory')  T == Len(saved')
  <2>1. batch \in Seq(Row) /\ B \in Nat
    BY BatchRows, Zenon DEF DataInv
  <2>2. rows \in Seq(Row) /\ R = M + B
        /\ \A j \in 1..M + B : rows[j] = IF j <= M THEN memory[j] ELSE batch[j - M]
    BY <1>0, <2>1, ConcatProperties, Zenon
  <2>3. T = S + B
        /\ \A j \in 1..S + B : saved'[j] = IF j <= S THEN saved[j] ELSE batch[j - S]
    BY <1>0, <1>2, <2>1, ConcatProperties, Zenon
  <2>4. K = (IF R < MemoryLimit THEN R ELSE MemoryLimit)
        /\ \A i \in 1..K : memory'[i] = rows[R - K + i]
    BY <1>2, <2>2, SplicedWindow, Zenon
  <2>5. M = (IF S < MemoryLimit THEN S ELSE MemoryLimit)
        /\ \A i \in 1..M : memory[i] = saved[S - M + i]
    BY Zenon DEF KeptIsWindow
  <2> HIDE DEF rows, M, S, B, R, K, T
  <2>6. K = (IF T < MemoryLimit THEN T ELSE MemoryLimit) /\ M \in Nat /\ S \in Nat /\ K \in Nat
    BY <1>0, <2>1, <2>2, <2>3, <2>4, <2>5, StoreAssumption, SMT DEF StoreAssumption, M, S
  <2>7. ASSUME NEW i \in 1..K PROVE memory'[i] = saved'[T - K + i]
    <3> DEFINE j == R - K + i  k == T - K + i
    <3>0. M = (IF S < MemoryLimit THEN S ELSE MemoryLimit)
          /\ K = (IF R < MemoryLimit THEN R ELSE MemoryLimit) /\ R = M + B /\ T = S + B
      BY <2>2, <2>3, <2>4, <2>5
    <3>1. j \in 1..M + B /\ k \in 1..S + B /\ k = S - M + j /\ k - S = j - M
          /\ (j <= M <=> k <= S)
      BY <2>1, <2>6, <3>0, StoreAssumption, SMT DEF StoreAssumption
    <3>2. memory'[i] = rows[j]
      BY <2>4
    <3> HIDE DEF j, k
    <3>3. rows[j] = (IF j <= M THEN memory[j] ELSE batch[j - M])
          /\ saved'[k] = (IF k <= S THEN saved[k] ELSE batch[k - S])
      BY <2>2, <2>3, <3>1, Zenon
    <3>4. CASE j <= M
      <4>1. j \in 1..M
        BY <2>1, <2>6, <3>1, <3>4, SMT
      <4>2. memory[j] = saved[k]
        BY <2>5, <3>1, <4>1, Zenon
      <4> QED
        BY <3>1, <3>2, <3>3, <3>4, <4>2, Zenon DEF k
    <3>5. CASE ~(j <= M)
      BY <3>1, <3>2, <3>3, <3>5, Zenon DEF k
    <3> QED
      BY <3>4, <3>5, Zenon
  <2> QED
    BY <2>6, <2>7, Zenon DEF KeptIsWindow, K, T
<1>3. CASE UNCHANGED <<memory, saved>>
  BY <1>3, Zenon DEF KeptIsWindow
<1>4. ASSUME NEW batch \in Batches, Save(batch) PROVE KeptIsWindow'
  BY <1>2, <1>3, <1>4, Zenon DEF Save
<1>5. ASSUME NEW b \in pending, Commit(b) \/ Saved(b) \/ SaveFails(b) PROVE KeptIsWindow'
  BY <1>3, <1>5, Zenon DEF Commit, Saved, SaveFails
<1>6. CASE UNCHANGED vars
  BY <1>3, <1>6, Zenon DEF vars, process
<1> QED
  BY <1>1, <1>4, <1>5, <1>6, Zenon DEF Next

\* Whatever the batches, the ring is the last rows handed to save()
\* (event-store.service.ts:67-70).
THEOREM Window == Spec => []KeptIsWindow
<1>1. Init => KeptIsWindow
  <2> SUFFICES ASSUME Init PROVE KeptIsWindow
    OBVIOUS
  <2>1. Len(memory) = 0 /\ Len(saved) = 0
    BY EmptySeq, Zenon DEF Init
  <2> QED
    BY <2>1, StoreAssumption, SMT DEF StoreAssumption, KeptIsWindow
<1> QED
  BY <1>1, TypeInit, DataStep, WindowStep, PTL DEF Spec

-----------------------------------------------------------------------------
\* Durability needs what a committed insert has already written.
DurableInv ==
  /\ AckedIsDurable
  /\ \A b \in pending : b.done => ToSet(b.rows) \subseteq ToSet(table)

\* What is in the table stays there.
LEMMA TableGrows ==
  ASSUME NEW s \in Seq(Row), NEW t \in Seq(Row)
  PROVE  ToSet(s) \subseteq ToSet(s \o t) /\ ToSet(t) \subseteq ToSet(s \o t)
<1>1. \A i \in 1..Len(s) : i \in 1..Len(s \o t) /\ (s \o t)[i] = s[i]
  BY SMT
<1>2. \A i \in 1..Len(t) : Len(s) + i \in 1..Len(s \o t) /\ (s \o t)[Len(s) + i] = t[i]
  BY SMT
<1>3. DOMAIN s = 1..Len(s) /\ DOMAIN t = 1..Len(t) /\ DOMAIN (s \o t) = 1..Len(s \o t)
  BY SMT
<1> QED
  BY <1>1, <1>2, <1>3, Zenon DEF ToSet

LEMMA DurableStep == DataInv /\ DurableInv /\ [Next]_vars => DurableInv'
<1> SUFFICES ASSUME DataInv, DurableInv, [Next]_vars PROVE DurableInv'
  OBVIOUS
<1> USE DEF DurableInv, AckedIsDurable
<1>1. CASE Start \/ Stop
  <2>1. pending' \subseteq pending /\ UNCHANGED <<table, acked>>
    BY <1>1, Zenon DEF Start, Stop
  <2> QED
    BY <2>1, Zenon
<1>2. ASSUME NEW batch \in Batches, Save(batch) PROVE DurableInv'
  <2>1. pending' \subseteq pending \cup {[rows |-> batch, done |-> FALSE]}
        /\ UNCHANGED <<table, acked>>
    BY <1>2, SMT DEF Save
  <2> QED
    BY <2>1, SMT
<1>3. ASSUME NEW b \in pending, Commit(b) PROVE DurableInv'
  <2>1. table \in Seq(Row) /\ b.rows \in Seq(Row)
    BY SMT DEF DataInv
  <2>2. table' = table \o b.rows /\ acked' = acked
        /\ pending' = (pending \ {b}) \cup {[b EXCEPT !.done = TRUE]}
    BY <1>3, Zenon DEF Commit
  <2>3. ToSet(table) \subseteq ToSet(table') /\ ToSet(b.rows) \subseteq ToSet(table')
    BY <2>1, <2>2, TableGrows, Zenon
  <2>4. [b EXCEPT !.done = TRUE].rows = b.rows
    BY SMT DEF DataInv
  <2> QED
    BY <2>2, <2>3, <2>4, Zenon
<1>4. ASSUME NEW b \in pending, Saved(b) PROVE DurableInv'
  BY <1>4, Zenon DEF Saved, Awaited
<1>5. ASSUME NEW b \in pending, SaveFails(b) PROVE DurableInv'
  BY <1>5, Zenon DEF SaveFails, Forgotten
<1>6. CASE UNCHANGED vars
  BY <1>6, Zenon DEF vars, process
<1> QED
  BY <1>1, <1>2, <1>3, <1>4, <1>5, <1>6, Zenon DEF Next

\* A resolved save is in the table through any failures and restarts
\* (event-store.service.ts:63-66).
THEOREM Durable == Spec => []AckedIsDurable
<1>1. Init => DurableInv
  BY Zenon DEF Init, DurableInv, AckedIsDurable
<1>2. DurableInv => AckedIsDurable
  BY DEF DurableInv
<1> QED
  BY <1>1, <1>2, TypeInit, DataStep, DurableStep, PTL DEF Spec

-----------------------------------------------------------------------------
(***************************************************************************)
(* No row twice.  Rows are numbered from a counter that only grows, and an *)
(* insert that is not committed shares no number with the table nor with   *)
(* another such insert.                                                    *)
(***************************************************************************)
Distinct(q) == \A i, j \in 1..Len(q) : q[i].id = q[j].id => i = j
Below(q, n) == \A i \in 1..Len(q) : q[i].id \in Nat /\ q[i].id <= n
Apart(q, r) == \A i \in 1..Len(q), j \in 1..Len(r) : q[i].id # r[j].id

OnceInv ==
  /\ Distinct(table) /\ Below(table, next)
  /\ \A b \in pending : Distinct(b.rows) /\ Below(b.rows, next)
  /\ \A b \in pending : ~b.done => Apart(b.rows, table)
  /\ \A b, c \in pending : b # c /\ ~b.done /\ ~c.done => Apart(b.rows, c.rows)

\* Two sequences without a common number, one after the other.
LEMMA JoinedRows ==
  ASSUME NEW q \in Seq(Row), NEW r \in Seq(Row), NEW n \in Nat,
         Distinct(q), Distinct(r), Apart(r, q), Below(q, n), Below(r, n)
  PROVE  /\ Distinct(q \o r) /\ Below(q \o r, n)
         /\ \A p : Apart(p, q) /\ Apart(p, r) => Apart(p, q \o r)
<1> DEFINE all == q \o r
<1>1. /\ Len(q) \in Nat /\ Len(r) \in Nat /\ Len(all) = Len(q) + Len(r)
      /\ \A i \in 1..Len(all) : all[i] = IF i <= Len(q) THEN q[i] ELSE r[i - Len(q)]
  BY ConcatProperties, LenProperties, Zenon
<1> HIDE DEF all
<1>2. \A i \in 1..Len(all) :
        \/ i \in 1..Len(q) /\ all[i] = q[i]
        \/ i - Len(q) \in 1..Len(r) /\ all[i] = r[i - Len(q)]
  BY <1>1, SMT
<1>3. ASSUME NEW i \in 1..Len(all), NEW j \in 1..Len(all), all[i].id = all[j].id
      PROVE  i = j
  <2>1. CASE i \in 1..Len(q) /\ all[i] = q[i] /\ j \in 1..Len(q) /\ all[j] = q[j]
    BY <1>3, <2>1, Zenon DEF Distinct
  <2>2. CASE /\ i - Len(q) \in 1..Len(r) /\ all[i] = r[i - Len(q)]
             /\ j - Len(q) \in 1..Len(r) /\ all[j] = r[j - Len(q)]
    <3>1. i - Len(q) = j - Len(q)
      BY <1>3, <2>2, Zenon DEF Distinct
    <3> QED
      BY <1>1, <3>1, SMT
  <2>3. CASE /\ i \in 1..Len(q) /\ all[i] = q[i]
             /\ j - Len(q) \in 1..Len(r) /\ all[j] = r[j - Len(q)]
    BY <1>3, <2>3, Zenon DEF Apart
  <2>4. CASE /\ j \in 1..Len(q) /\ all[j] = q[j]
             /\ i - Len(q) \in 1..Len(r) /\ all[i] = r[i - Len(q)]
    BY <1>3, <2>4, Zenon DEF Apart
  <2> QED
    BY <1>2, <2>1, <2>2, <2>3, <2>4, Zenon
<1>4. Below(all, n)
  BY <1>2, Zenon DEF Below
<1>5. ASSUME NEW p, Apart(p, q), Apart(p, r) PROVE Apart(p, all)
  BY <1>2, <1>5, Zenon DEF Apart
<1>6. Distinct(all)
  BY <1>3, Zenon DEF Distinct
<1> QED
  BY <1>4, <1>5, <1>6, Zenon DEF all

LEMMA OnceStep == DataInv /\ OnceInv /\ [Next]_vars => OnceInv'
<1> SUFFICES ASSUME DataInv, OnceInv, [Next]_vars PROVE OnceInv'
  OBVIOUS
<1>1. ASSUME pending' \subseteq pending, UNCHANGED <<table, next>> PROVE OnceInv'
  BY <1>1, Zenon DEF OnceInv
<1>2. CASE Start \/ Stop
  BY <1>1, <1>2, Zenon DEF Start, Stop
<1>3. ASSUME NEW batch \in Batches, Save(batch) PROVE OnceInv'
  <2> DEFINE new == [rows |-> batch, done |-> FALSE]
  <2>1. /\ Len(batch) \in Nat /\ \A i \in 1..Len(batch) : batch[i].id = next + i
        /\ next \in Nat
    BY BatchRows, Zenon DEF DataInv
  <2>2. next' = next + Len(batch) /\ pending' \subseteq pending \cup {new} /\ table' = table
    BY <1>3, Zenon DEF Save
  <2>3. new.rows = batch
    OBVIOUS
  <2> HIDE DEF new
  <2>4. Distinct(batch) /\ Below(batch, next')
    BY <2>1, <2>2, SMT DEF Distinct, Below
  <2>5. ASSUME NEW q, Below(q, next)
        PROVE  Below(q, next') /\ Apart(q, batch) /\ Apart(batch, q)
    <3>1. \A i \in 1..Len(q) : q[i].id \in Nat /\ q[i].id <= next
      BY <2>5, Zenon DEF Below
    <3>2. \A i \in 1..Len(q) : q[i].id <= next'
      BY <2>1, <2>2, <3>1, SMT
    <3>3. \A i \in 1..Len(q), j \in 1..Len(batch) : q[i].id # batch[j].id
      BY <2>1, <3>1, SMT
    <3> QED
      BY <3>1, <3>2, <3>3, Zenon DEF Below, Apart
  <2>6. /\ Distinct(table') /\ Below(table', next')
        /\ \A b \in pending' : Distinct(b.rows) /\ Below(b.rows, next')
    BY <2>2, <2>3, <2>4, <2>5, Zenon DEF OnceInv
  <2>7. \A b \in pending' : ~b.done => Apart(b.rows, table')
    BY <2>2, <2>3, <2>5, Zenon DEF OnceInv
  <2>8. \A b, c \in pending' : b # c /\ ~b.done /\ ~c.done => Apart(b.rows, c.rows)
    BY <2>2, <2>3, <2>5, Zenon DEF OnceInv
  <2> QED
    BY <2>6, <2>7, <2>8, Zenon DEF OnceInv
<1>4. ASSUME NEW b \in pending, Commit(b) PROVE OnceInv'
  <2> DEFINE done == [b EXCEPT !.done = TRUE]
  <2>1. b \in [rows : Seq(Row), done : BOOLEAN] /\ table \in Seq(Row) /\ next \in Nat
    BY Zenon DEF DataInv
  <2>2. done.rows = b.rows /\ done.done = TRUE /\ b.rows \in Seq(Row)
    BY <2>1, SMT
  <2>3. /\ ~b.done /\ table' = table \o b.rows /\ next' = next
        /\ pending' = (pending \ {b}) \cup {done}
    BY <1>4, Zenon DEF Commit
  <2> HIDE DEF done
  <2>4. /\ Distinct(table') /\ Below(table', next')
        /\ \A p : Apart(p, table) /\ Apart(p, b.rows) => Apart(p, table')
    BY <2>1, <2>2, <2>3, JoinedRows, Zenon DEF OnceInv
  <2>5. \A c \in pending' : Distinct(c.rows) /\ Below(c.rows, next')
    BY <2>2, <2>3, Zenon DEF OnceInv
  <2>6. \A c \in pending' : ~c.done => c \in pending /\ c # b
    BY <2>2, <2>3, Zenon
  <2>7. \A c \in pending' : ~c.done => Apart(c.rows, table')
    BY <2>3, <2>4, <2>6, Zenon DEF OnceInv
  <2>8. \A c, d \in pending' : c # d /\ ~c.done /\ ~d.done => Apart(c.rows, d.rows)
    BY <2>6, Zenon DEF OnceInv
  <2> QED
    BY <2>4, <2>5, <2>7, <2>8, Zenon DEF OnceInv
<1>5. ASSUME NEW b \in pending, Saved(b) \/ SaveFails(b) PROVE OnceInv'
  BY <1>1, <1>5, Zenon DEF Saved, SaveFails, Forgotten
<1>6. CASE UNCHANGED vars
  BY <1>1, <1>6, Zenon DEF vars, process
<1> QED
  BY <1>2, <1>3, <1>4, <1>5, <1>6, Zenon DEF Next

\* No row is journaled twice, whatever answers are lost, for any batches and
\* any number of restarts (event-store.service.ts:64, stream.gateway.ts:127-131).
THEOREM Once == Spec => []StoredOnce
<1>1. Init => OnceInv
  <2> SUFFICES ASSUME Init PROVE OnceInv
    OBVIOUS
  <2>1. table = <<>> /\ pending = {}
    BY Zenon DEF Init
  <2>2. Distinct(<<>>) /\ Below(<<>>, next)
    BY SMT DEF Distinct, Below
  <2> QED
    BY <2>1, <2>2, Zenon DEF OnceInv
<1>2. DataInv /\ OnceInv => StoredOnce
  <2> SUFFICES ASSUME DataInv, OnceInv PROVE StoredOnce
    OBVIOUS
  <2>1. \A q \in Seq(Row) : DOMAIN q = 1..Len(q)
    BY LenProperties, Zenon
  <2>2. DOMAIN table = 1..Len(table)
    BY <2>1, Zenon DEF DataInv
  <2>3. \A b \in pending : b.rows \in Seq(Row)
    BY SMT DEF DataInv
  <2>4. \A b \in pending : DOMAIN b.rows = 1..Len(b.rows)
    BY <2>1, <2>3, Zenon
  <2>5. \A i, j \in DOMAIN table : table[i].id = table[j].id => i = j
    BY <2>2, Zenon DEF OnceInv, Distinct
  <2>6. ASSUME NEW b \in pending, ~b.done, NEW i \in DOMAIN b.rows, NEW j \in DOMAIN table
        PROVE  b.rows[i].id # table[j].id
    <3>1. Apart(b.rows, table)
      BY <2>6, Zenon DEF OnceInv
    <3>2. i \in 1..Len(b.rows) /\ j \in 1..Len(table)
      BY <2>2, <2>4, <2>6, Zenon
    <3> QED
      BY <3>1, <3>2, Zenon DEF Apart
  <2> QED
    BY <2>5, <2>6, Zenon DEF StoredOnce
<1> QED
  BY <1>1, <1>2, TypeInit, DataStep, OnceStep, PTL DEF Spec

-----------------------------------------------------------------------------
(***************************************************************************)
(* What is read.  Ranking the places of the rows is a bijection, so every  *)
(* position of an answer has its row, and a row that is left out ranks     *)
(* after all of them.                                                      *)
(***************************************************************************)
\* A place before another one ranks lower, and of two places one is before.
LEMMA RankOrder ==
  ASSUME NEW rows \in Seq(Row), NEW P \in SUBSET (1..Len(rows))
  PROVE  /\ IsFiniteSet(P) /\ Cardinality(P) \in Nat
         /\ \A i \in P : Rank(rows, P, i) \in 1..Cardinality(P)
         /\ \A i, j \in P : Before(rows, i, j) => Rank(rows, P, i) < Rank(rows, P, j)
         /\ \A i, j \in P : i # j => Before(rows, i, j) \/ Before(rows, j, i)
         /\ \A i, j \in P : Before(rows, i, j) => rows[i].at >= rows[j].at
<1> DEFINE B(i) == {j \in P : Before(rows, j, i)}
<1>0. Len(rows) \in Nat /\ \A i \in P : i \in Int /\ rows[i].at \in Int
  <2>1. \A r \in Row : r.at \in Int
    BY StoreAssumption DEF Row, StoreAssumption
  <2>2. \A i \in P : i \in Int /\ rows[i] \in Row
    BY SMT
  <2> QED
    BY <2>1, <2>2, LenProperties, Zenon
<1>1. IsFiniteSet(P) /\ Cardinality(P) \in Nat
  <2>1. IsFiniteSet(1..Len(rows))
    BY <1>0, FS_Interval, 1 \in Int, Len(rows) \in Int
  <2> QED
    BY <2>1, FS_Subset, FS_CardinalityType
<1>2. \A i, j \in P : Before(rows, i, j) <=>
        rows[i].at > rows[j].at \/ (~(rows[j].at > rows[i].at) /\ i < j)
  BY Zenon DEF Before, Newer
<1>3. ASSUME NEW i \in P
      PROVE  IsFiniteSet(B(i)) /\ Cardinality(B(i)) \in Nat
             /\ Cardinality(B(i)) + 1 <= Cardinality(P)
  <2>1. B(i) \subseteq P \ {i}
    BY <1>0, <1>2, SMT
  <2>2. IsFiniteSet(P \ {i}) /\ Cardinality(P \ {i}) = Cardinality(P) - 1
    BY <1>1, FS_RemoveElement
  <2>3. IsFiniteSet(B(i)) /\ Cardinality(B(i)) <= Cardinality(P \ {i})
    BY <2>1, <2>2, FS_Subset
  <2> QED
    BY <2>2, <2>3, <1>1, FS_CardinalityType, SMT
<1>4. ASSUME NEW i \in P, NEW j \in P, Before(rows, i, j)
      PROVE  Cardinality(B(i)) < Cardinality(B(j))
  <2>1. i \notin B(i) /\ i \in B(j)
    BY <1>0, <1>2, <1>4, SMT
  <2>2. B(i) \subseteq B(j)
    <3> SUFFICES ASSUME NEW k \in P, Before(rows, k, i) PROVE Before(rows, k, j)
      BY Zenon
    <3>1. k \in Int /\ i \in Int /\ j \in Int
          /\ rows[k].at \in Int /\ rows[i].at \in Int /\ rows[j].at \in Int
      BY <1>0, Zenon
    <3>2. /\ rows[k].at > rows[i].at \/ (~(rows[i].at > rows[k].at) /\ k < i)
          /\ rows[i].at > rows[j].at \/ (~(rows[j].at > rows[i].at) /\ i < j)
      BY <1>2, <1>4, Zenon
    <3>3. rows[k].at > rows[j].at \/ (~(rows[j].at > rows[k].at) /\ k < j)
      BY <3>1, <3>2, SMT
    <3> QED
      BY <3>3, <1>2, Zenon
  <2>3. Cardinality(B(i) \cup {i}) = Cardinality(B(i)) + 1 /\ IsFiniteSet(B(i) \cup {i})
    BY <1>3, <2>1, FS_AddElement
  <2>4. Cardinality(B(i) \cup {i}) <= Cardinality(B(j))
    BY <1>3, <2>1, <2>2, FS_Subset
  <2>5. Cardinality(B(i)) \in Nat /\ Cardinality(B(j)) \in Nat
    BY <1>3, Zenon
  <2> HIDE DEF B
  <2> QED
    BY <2>3, <2>4, <2>5, SMT
<1>5. \A i \in P : Rank(rows, P, i) = 1 + Cardinality(B(i))
  BY DEF Rank
<1> HIDE DEF B
<1>6. \A i \in P : Rank(rows, P, i) \in 1..Cardinality(P)
  BY <1>1, <1>3, <1>5, SMT
<1>7. \A i, j \in P : Before(rows, i, j) => Rank(rows, P, i) < Rank(rows, P, j)
  BY <1>3, <1>4, <1>5, SMT
<1>8. \A i, j \in P : i # j => Before(rows, i, j) \/ Before(rows, j, i)
  BY <1>0, <1>2, SMT
<1>9. \A i, j \in P : Before(rows, i, j) => rows[i].at >= rows[j].at
  BY <1>0, <1>2, SMT
<1> QED
  BY <1>1, <1>6, <1>7, <1>8, <1>9, Zenon

\* Each rank up to the number of places is the rank of one place.
LEMMA RankIsBijective ==
  ASSUME NEW rows \in Seq(Row), NEW P \in SUBSET (1..Len(rows))
  PROVE  /\ \A i, j \in P : Rank(rows, P, i) = Rank(rows, P, j) => i = j
         /\ \A k \in 1..Cardinality(P) : \E i \in P : Rank(rows, P, i) = k
<1> DEFINE f == [i \in P |-> Rank(rows, P, i)]
           N == Cardinality(P)
<1>1. N \in Nat /\ \A i \in P : Rank(rows, P, i) \in 1..N
  BY RankOrder, Zenon
<1>2. \A i, j \in P : Rank(rows, P, i) = Rank(rows, P, j) => i = j
  <2>1. \A i, j \in P : i # j =>
          Rank(rows, P, i) < Rank(rows, P, j) \/ Rank(rows, P, j) < Rank(rows, P, i)
    BY RankOrder, Zenon
  <2> QED
    BY <1>1, <2>1, SMT
<1>3. f \in Injection(P, 1..N)
  BY <1>1, <1>2, Zenon DEF Injection, IsInjective
<1>4. IsFiniteSet(1..N) /\ Cardinality(1..N) = N
  BY <1>1, FS_Interval, SMT
<1>5. f \in Surjection(P, 1..N)
  BY <1>3, <1>4, FS_Injection, Zenon
<1>6. \A k \in 1..N : \E i \in P : f[i] = k
  BY <1>5, Zenon DEF Surjection
<1> QED
  BY <1>2, <1>6, Zenon

\* The rows at distinct places of a journal without doubles are as many.
LEMMA RowsAtPlaces ==
  ASSUME NEW rows \in Seq(Row), Distinct(rows), NEW P \in SUBSET (1..Len(rows))
  PROVE  Cardinality({rows[i] : i \in P}) = Cardinality(P)
<1> DEFINE S == {rows[i] : i \in P}
           f == [i \in P |-> rows[i]]
<1>1. f \in [P -> S] /\ \A x \in S : \E i \in P : f[i] = x
  OBVIOUS
<1>2. \A i, j \in P : f[i] = f[j] => i = j
  BY Zenon DEF Distinct
<1>3. f \in Bijection(P, S)
  BY <1>1, <1>2, Zenon DEF Bijection, Injection, Surjection, IsInjective
<1>4. IsFiniteSet(P)
  BY RankOrder, Zenon
<1> HIDE DEF S, f
<1>5. ExistsBijection(P, S)
  BY <1>3, Zenon DEF ExistsBijection
<1>6. Cardinality(S) = Cardinality(P)
  BY <1>4, <1>5, FS_Bijection, Zenon
<1> QED
  BY <1>6, Zenon DEF S

\* A read of the rows at some places answers the newest of them.
LEMMA Reading ==
  ASSUME NEW rows \in Seq(Row), Distinct(rows), NEW P \in SUBSET (1..Len(rows)),
         NEW n \in Nat
  PROVE  IsLatest(Latest(rows, P, n), {rows[i] : i \in P}, n)
<1> DEFINE N     == Cardinality(P)
           m     == IF n < N THEN n ELSE N
           rk(i) == Rank(rows, P, i)
           at(k) == CHOOSE i \in P : rk(i) = k
           A     == Latest(rows, P, n)
           S     == {rows[i] : i \in P}
<1>1. N \in Nat /\ Cardinality(S) = N
  BY RankOrder, RowsAtPlaces, Zenon
<1>2. m \in Nat /\ 1..m \subseteq 1..N /\ (\A k \in 1..N : k \notin 1..m => m < k)
  BY <1>1, SMT
<1>3. A = [k \in 1..m |-> rows[at(k)]]
  BY DEF Latest
<1> HIDE DEF A, N, m
<1>4. DOMAIN A = 1..m /\ Len(A) = m /\ \A k \in 1..m : A[k] = rows[at(k)]
  <2>1. DOMAIN A = 1..m /\ \A k \in 1..m : A[k] = rows[at(k)]
    BY <1>3, Zenon
  <2> QED
    BY <1>2, <2>1, SMT
<1>5. \A k \in 1..m : at(k) \in P /\ rk(at(k)) = k
  <2> SUFFICES ASSUME NEW k \in 1..m PROVE at(k) \in P /\ rk(at(k)) = k
    OBVIOUS
  <2>1. \E i \in P : rk(i) = k
    <3>1. k \in 1..N
      BY <1>2, Zenon
    <3>2. \A l \in 1..N : \E i \in P : Rank(rows, P, i) = l
      BY RankIsBijective, Zenon DEF N
    <3> QED
      BY <3>1, <3>2, Zenon
  <2> QED
    BY <2>1, Zenon
<1>6. /\ \A i, j \in P : rk(i) = rk(j) => i = j
      /\ \A i \in P : rk(i) \in 1..N
      /\ \A i, j \in P : rk(i) < rk(j) => rows[i].at >= rows[j].at
  <2>1. /\ \A i, j \in P : rk(i) = rk(j) => i = j
        /\ \A i \in P : rk(i) \in 1..N
    BY RankIsBijective, RankOrder, Zenon DEF N
  <2>2. ASSUME NEW i \in P, NEW j \in P, rk(i) < rk(j) PROVE rows[i].at >= rows[j].at
    <3>1. rk(i) \in Int /\ rk(j) \in Int
      BY <2>1, SMT
    <3>2. i # j /\ ~(rk(j) < rk(i))
      BY <2>2, <3>1, SMT
    <3>3. Before(rows, i, j)
      BY <3>2, RankOrder, Zenon
    <3> QED
      BY <3>3, RankOrder, Zenon
  <2> QED
    BY <2>1, <2>2, Zenon
<1> HIDE DEF rk, at
<1>7. IsInjective(A)
  <2>1. ASSUME NEW j \in 1..m, NEW k \in 1..m, A[j] = A[k] PROVE j = k
    <3>1. rows[at(j)].id = rows[at(k)].id
      BY <1>4, <2>1, Zenon
    <3>2. at(j) = at(k)
      BY <1>5, <3>1, Zenon DEF Distinct
    <3> QED
      BY <1>5, <3>2, Zenon
  <2> QED
    BY <1>4, <2>1, Zenon DEF IsInjective
<1>8. ToSet(A) \subseteq S
  BY <1>4, <1>5, Zenon DEF ToSet
<1>9. ASSUME NEW i \in DOMAIN A, NEW j \in DOMAIN A, i < j PROVE A[i].at >= A[j].at
  <2>1. rk(at(i)) < rk(at(j)) /\ at(i) \in P /\ at(j) \in P
    BY <1>4, <1>5, <1>9, Zenon
  <2> QED
    BY <2>1, <1>4, <1>6, Zenon
<1>10. ASSUME NEW r \in S \ ToSet(A), NEW i \in DOMAIN A PROVE A[i].at >= r.at
  <2>1. PICK p \in P : r = rows[p]
    BY Zenon
  <2>2. rk(p) \notin 1..m
    <3> SUFFICES ASSUME rk(p) \in 1..m PROVE FALSE
      OBVIOUS
    <3>1. at(rk(p)) = p
      BY <1>5, <1>6, Zenon
    <3>2. A[rk(p)] = r
      BY <1>4, <2>1, <3>1, Zenon
    <3> QED
      BY <1>4, <3>2, Zenon DEF ToSet
  <2>3. m < rk(p)
    BY <1>2, <1>6, <2>2, Zenon
  <2>4. rk(at(i)) = i /\ i \in 1..m /\ at(i) \in P
    BY <1>4, <1>5, Zenon
  <2>5. i < rk(p)
    <3>1. rk(p) \in 1..N
      BY <1>6, Zenon
    <3> QED
      BY <1>1, <1>2, <2>3, <2>4, <3>1, SMT
  <2> QED
    BY <1>4, <1>6, <2>1, <2>4, <2>5, Zenon
<1> HIDE DEF S
<1>11. Len(A) = (IF n < Cardinality(S) THEN n ELSE Cardinality(S))
  BY <1>1, <1>4, Zenon DEF m
<1> QED
  BY <1>7, <1>8, <1>9, <1>10, <1>11, Zenon DEF IsLatest, A, S

\* The numbers of what was saved in memory are distinct too.
SavedOnce == Distinct(saved) /\ Below(saved, next)

LEMMA SavedStep == DataInv /\ SavedOnce /\ [Next]_vars => SavedOnce'
<1> SUFFICES ASSUME DataInv, SavedOnce, [Next]_vars PROVE SavedOnce'
  OBVIOUS
<1>0. ASSUME UNCHANGED <<saved, next>> PROVE SavedOnce'
  BY <1>0, Zenon DEF SavedOnce
<1>1. CASE Start \/ Stop
  <2>1. saved' = <<>>
    BY <1>1, Zenon DEF Start, Stop
  <2> QED
    BY <2>1, SMT DEF SavedOnce, Distinct, Below
<1>2. ASSUME NEW batch \in Batches, Save(batch) PROVE SavedOnce'
  <2>1. /\ batch \in Seq(Row) /\ Len(batch) \in Nat /\ next \in Nat
        /\ \A i \in 1..Len(batch) : batch[i].id = next + i
    BY BatchRows, Zenon DEF DataInv
  <2>2. next' = next + Len(batch) /\ next' \in Nat /\ saved \in Seq(Row)
    BY <1>2, <2>1, SMT DEF Save, DataInv
  <2>3. Distinct(batch) /\ Below(batch, next')
    BY <2>1, <2>2, SMT DEF Distinct, Below
  <2>4. Below(saved, next') /\ Apart(batch, saved)
    BY <2>1, <2>2, SMT DEF SavedOnce, Below, Apart
  <2>5. Distinct(saved \o batch) /\ Below(saved \o batch, next')
    BY <2>1, <2>2, <2>3, <2>4, JoinedRows, Zenon DEF SavedOnce
  <2>6. saved' = saved \/ saved' = saved \o batch
    BY <1>2, Zenon DEF Save
  <2> QED
    BY <2>4, <2>5, <2>6, Zenon DEF SavedOnce
<1>3. ASSUME NEW b \in pending, Commit(b) \/ Saved(b) \/ SaveFails(b) PROVE SavedOnce'
  BY <1>0, <1>3, Zenon DEF Commit, Saved, SaveFails
<1>4. CASE UNCHANGED vars
  BY <1>0, <1>4, Zenon DEF vars, process
<1> QED
  BY <1>1, <1>2, <1>3, <1>4, Zenon DEF Next

\* Neither journal ever holds a row twice.
LEMMA JournalDistinct ==
  ASSUME DataInv, OnceInv, SavedOnce, KeptIsWindow
  PROVE  Rows \in Seq(Row) /\ Distinct(Rows)
<1>1. Distinct(memory)
  <2> DEFINE M == Len(memory)  L == Len(saved)
  <2>1. M \in Nat /\ L \in Nat /\ M <= L
    BY StoreAssumption, LenProperties, SMT DEF StoreAssumption, DataInv, KeptIsWindow
  <2>2. \A i \in 1..M : memory[i] = saved[L - M + i]
    BY Zenon DEF KeptIsWindow
  <2> HIDE DEF M, L
  <2>3. ASSUME NEW i \in 1..M, NEW j \in 1..M, memory[i].id = memory[j].id PROVE i = j
    <3>1. L - M + i \in 1..L /\ L - M + j \in 1..L
      BY <2>1, SMT
    <3>2. L - M + i = L - M + j
      BY <2>2, <2>3, <3>1, Zenon DEF SavedOnce, Distinct, L
    <3> QED
      BY <2>1, <3>2, SMT
  <2> QED
    BY <2>3, Zenon DEF Distinct, M
<1> QED
  BY <1>1, Zenon DEF Rows, DataInv, OnceInv

\* Whatever the dates and the order of the saves, for every limit, reads
\* answer the newest rows of what they were asked for
\* (event-store.service.ts:73-97, history.controller.ts:38-44).
THEOREM Newest == Spec => []ReadsAreLatest
<1>1. ASSUME DataInv, OnceInv, SavedOnce, KeptIsWindow PROVE ReadsAreLatest
  <2> SUFFICES ASSUME NEW raw \in -1..MaxLimit + 1
               PROVE  LET n == IF raw \in 1..MaxLimit THEN raw
                               ELSE IF raw > MaxLimit THEN MaxLimit ELSE DefaultLimit
                      IN  /\ IsLatest(Recent(raw), ToSet(Rows), n)
                          /\ \A s \in Sessions :
                               IsLatest(BySession(s, raw),
                                        {r \in ToSet(Rows) : r.session = s}, n)
    BY Zenon DEF ReadsAreLatest
  <2> DEFINE n == IF raw \in 1..MaxLimit THEN raw
                  ELSE IF raw > MaxLimit THEN MaxLimit ELSE DefaultLimit
             Q == Rows
  <2>1. Q \in Seq(Row) /\ Distinct(Q)
    BY <1>1, JournalDistinct, Zenon
  <2>2. DOMAIN Q = 1..Len(Q)
    BY <2>1, LenProperties, Zenon
  <2>3. ParseLimit(raw) = n /\ n \in Nat
    BY StoreAssumption, SMT DEF StoreAssumption, ParseLimit
  <2> HIDE DEF n, Q
  <2>4. IsLatest(Recent(raw), ToSet(Q), n)
    <3>1. {Q[i] : i \in DOMAIN Q} = ToSet(Q)
      BY Zenon DEF ToSet
    <3>2. DOMAIN Q \in SUBSET (1..Len(Q))
      BY <2>2, Zenon
    <3>3. Recent(raw) = Latest(Q, DOMAIN Q, n)
      BY <2>3, Zenon DEF Recent, Q
    <3> QED
      BY <2>1, <2>3, <3>1, <3>2, <3>3, Reading, Zenon
  <2>5. ASSUME NEW s \in Sessions
        PROVE  IsLatest(BySession(s, raw), {r \in ToSet(Q) : r.session = s}, n)
    <3>1. {Q[i] : i \in OfSession(Q, s)} = {r \in ToSet(Q) : r.session = s}
      BY Zenon DEF ToSet, OfSession
    <3>2. OfSession(Q, s) \in SUBSET (1..Len(Q))
      BY <2>2, Zenon DEF OfSession
    <3>3. BySession(s, raw) = Latest(Q, OfSession(Q, s), n)
      BY <2>3, Zenon DEF BySession, Q
    <3> QED
      BY <2>1, <2>3, <3>1, <3>2, <3>3, Reading, Zenon
  <2> QED
    BY <2>4, <2>5, Zenon DEF n, Q
<1>2. Init => OnceInv /\ SavedOnce /\ KeptIsWindow
  <2> SUFFICES ASSUME Init PROVE OnceInv /\ SavedOnce /\ KeptIsWindow
    OBVIOUS
  <2>1. table = <<>> /\ pending = {} /\ saved = <<>> /\ memory = <<>>
    BY Zenon DEF Init
  <2>2. Distinct(<<>>) /\ Below(<<>>, next) /\ Len(<<>>) = 0
    BY SMT DEF Distinct, Below
  <2>3. KeptIsWindow
    BY <2>1, <2>2, StoreAssumption, SMT DEF StoreAssumption, KeptIsWindow
  <2> QED
    BY <2>1, <2>2, <2>3, Zenon DEF OnceInv, SavedOnce
<1> QED
  BY <1>1, <1>2, TypeInit, DataStep, OnceStep, SavedStep, WindowStep, PTL DEF Spec
=============================================================================
