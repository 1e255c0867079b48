---------------------- MODULE EventEngineHistory_proofs ----------------------
(***************************************************************************)
(* Proofs about the engine and the history of its frames, for any set of   *)
(* objects, any debounce settings and any movement of the clock: the       *)
(* engine's records are the history's current stays, and what it reports   *)
(* is what the history calls for.                                          *)
(***************************************************************************)
EXTENDS EventEngineHistory, EventEngine_proofs

-----------------------------------------------------------------------------
(***************************************************************************)
(* The largest and the smallest of a set of frame numbers.                 *)
(***************************************************************************)
LEMMA LeastOf ==
  ASSUME NEW T \in SUBSET Nat, T # {}
  PROVE  \E x \in T : \A y \in T : x <= y
<1> DEFINE R == OpToRel(<, Nat)
<1>1. PICK x \in T : \A y \in T : ~ (<<y, x>> \in R)
  <2>1. IsWellFoundedOn(R, Nat)
    BY NatLessThanWellFounded
  <2> HIDE DEF R
  <2> QED
    BY <2>1, WFMin
<1>2. \A y \in T : ~ (y < x)
  BY <1>1 DEF OpToRel
<1> QED
  BY <1>2

LEMMA MaxIs ==
  ASSUME NEW S \in SUBSET Int, NEW x \in S, \A y \in S : y <= x
  PROVE  Max(S) = x
<1>1. \A y \in S : x >= y
  OBVIOUS
<1>2. \E m \in S : m = Max(S) /\ \A y \in S : m >= y
  BY <1>1, Zenon DEF Max
<1>3. PICK m \in S : m = Max(S) /\ m >= x
  BY <1>2, Zenon
<1>4. x >= m /\ m \in Int /\ x \in Int
  BY <1>1, SMT
<1>5. m = x
  BY <1>3, <1>4, SMT
<1> QED
  BY <1>3, <1>5, Zenon

LEMMA MinIs ==
  ASSUME NEW S \in SUBSET Int, NEW x \in S, \A y \in S : x <= y
  PROVE  Min(S) = x
<1>1. \E m \in S : m = Min(S) /\ \A y \in S : m <= y
  BY Zenon DEF Min
<1>2. PICK m \in S : m = Min(S) /\ m <= x
  BY <1>1, Zenon
<1>3. x <= m /\ m \in Int /\ x \in Int
  BY SMT
<1>4. m = x
  BY <1>2, <1>3, SMT
<1> QED
  BY <1>2, <1>4, Zenon

LEMMA MaxOf ==
  ASSUME NEW n \in Nat, NEW S \in SUBSET (0..n), S # {}
  PROVE  Max(S) \in S /\ \A y \in S : y <= Max(S)
<1> DEFINE T == {d \in Nat : n - d \in S}
<1>1. T # {}
  <2>1. PICK y \in S : TRUE
    OBVIOUS
  <2>2. n - y \in Nat /\ n - (n - y) = y
    BY SMT
  <2> QED
    BY <2>2
<1>2. PICK d \in T : \A e \in T : d <= e
  BY <1>1, LeastOf
<1>3. \A y \in S : y <= n - d
  <2> SUFFICES ASSUME NEW y \in S PROVE y <= n - d
    OBVIOUS
  <2>1. n - y \in Nat /\ n - (n - y) = y
    BY SMT
  <2>2. d <= n - y
    BY <2>1, <1>2
  <2> QED
    BY <2>2, SMT
<1>4. n - d \in S /\ S \in SUBSET Int
  BY SMT
<1>5. Max(S) = n - d
  BY <1>3, <1>4, MaxIs
<1> QED
  BY <1>3, <1>4, <1>5

LEMMA MinOf ==
  ASSUME NEW n \in Nat, NEW S \in SUBSET (0..n), S # {}
  PROVE  Min(S) \in S /\ \A y \in S : Min(S) <= y
<1>1. S \in SUBSET Nat /\ S \in SUBSET Int
  BY SMT
<1>2. PICK x \in S : \A y \in S : x <= y
  BY <1>1, LeastOf
<1> QED
  BY <1>1, <1>2, MinIs

-----------------------------------------------------------------------------
(***************************************************************************)
(* The definitions of the history.                                         *)
(***************************************************************************)
Entry == [now : Int, dets : Detections]

\* The sightings of the stay that goes on after the last frame.
Current(id) == Sightings(id, LastLoss(id, Len(log) + 1) + 1, Len(log))

\* LastLoss is what its name says.
LEMMA LastLossFacts ==
  ASSUME NEW id, NEW m \in Nat \ {0}
  PROVE  /\ LastLoss(id, m) \in 0..(m - 1)
         /\ LastLoss(id, m) # 0 => Lost(id, LastLoss(id, m))
         /\ \A k \in 1..(m - 1) : Lost(id, k) => k <= LastLoss(id, m)
<1> DEFINE S == {0} \cup {k \in 1..(m - 1) : Lost(id, k)}
<1>1. S \in SUBSET (0..(m - 1)) /\ S # {} /\ m - 1 \in Nat
  BY SMT
<1>2. Max(S) \in S /\ \A y \in S : y <= Max(S)
  BY <1>1, MaxOf
<1>3. LastLoss(id, m) = Max(S)
  BY Zenon DEF LastLoss
<1> QED
  BY <1>1, <1>2, <1>3

\* One more frame does not change what was said of the earlier ones.
LEMMA Unchanging ==
  ASSUME log \in Seq(Entry), NEW e \in Entry, log' = Append(log, e), NEW id
  PROVE  /\ \A k \in 1..Len(log) : log'[k] = log[k]
         /\ \A k \in 1..Len(log) : Sighted(id, k)' <=> Sighted(id, k)
         /\ \A a \in Nat \ {0} : \A b \in 0..Len(log) :
              Sightings(id, a, b)' = Sightings(id, a, b)
         /\ \A k \in 1..Len(log) : Lost(id, k)' <=> Lost(id, k)
         /\ \A k \in 1..Len(log) + 1 : LastLoss(id, k)' = LastLoss(id, k)
         /\ \A k \in 1..Len(log) : Established(id, k)' <=> Established(id, k)
         /\ \A k \in 1..Len(log) + 1 : Announced(id, k)' <=> Announced(id, k)
<1>0. Len(log) \in Nat
  BY SMT
<1>1. \A k \in 1..Len(log) : log'[k] = log[k]
  BY SMT
<1>2. \A k \in 1..Len(log) : Sighted(id, k)' <=> Sighted(id, k)
  BY <1>1, Zenon DEF Sighted
<1>3. \A a \in Nat \ {0} : \A b \in 0..Len(log) :
        /\ Sightings(id, a, b)' = Sightings(id, a, b)
        /\ Sightings(id, a, b) \subseteq 1..Len(log)
        /\ Sightings(id, a, b) \in SUBSET (0..b)
  <2> SUFFICES ASSUME NEW a \in Nat \ {0}, NEW b \in 0..Len(log)
               PROVE  /\ Sightings(id, a, b)' = Sightings(id, a, b)
                      /\ Sightings(id, a, b) \subseteq 1..Len(log)
                      /\ Sightings(id, a, b) \in SUBSET (0..b)
    OBVIOUS
  <2>1. a..b \subseteq 1..Len(log) /\ a..b \subseteq 0..b
    BY <1>0, SMT
  <2> QED
    BY <2>1, <1>2, Zenon DEF Sightings
<1>4. ASSUME NEW k \in 1..Len(log) PROVE Lost(id, k)' <=> Lost(id, k)
  <2> DEFINE S == Sightings(id, 1, k - 1)
  <2>1. 1 \in Nat \ {0} /\ k - 1 \in 0..Len(log) /\ k - 1 \in Nat
    BY <1>0, SMT
  <2>2. S' = S /\ S \subseteq 1..Len(log) /\ S \in SUBSET (0..(k - 1))
    BY <2>1, <1>3, Zenon
  <2>3. S # {} => Max(S) \in 1..Len(log)
    BY <2>1, <2>2, MaxOf, Zenon
  <2>4. S # {} => log'[Max(S)] = log[Max(S)]
    BY <2>3, <1>1, Zenon
  <2>5. log'[k] = log[k] /\ (Sighted(id, k)' <=> Sighted(id, k))
    BY <1>1, <1>2, Zenon
  <2>6. Lost(id, k) <=> /\ ~Sighted(id, k) /\ S # {}
                        /\ log[k].now - log[Max(S)].now >= LeaveGraceMs
    BY Zenon DEF Lost
  <2>7. Lost(id, k)' <=> /\ ~Sighted(id, k)' /\ S' # {}
                         /\ log'[k].now - log'[Max(S')].now >= LeaveGraceMs
    BY Zenon DEF Lost
  <2> HIDE DEF S
  <2> QED
    BY <2>2, <2>4, <2>5, <2>6, <2>7, Zenon
<1>5. ASSUME NEW k \in 1..Len(log) + 1 PROVE LastLoss(id, k)' = LastLoss(id, k)
  <2>1. \A j \in 1..(k - 1) : j \in 1..Len(log)
    BY <1>0, SMT
  <2>2. {j \in 1..(k - 1) : Lost(id, j)'} = {j \in 1..(k - 1) : Lost(id, j)}
    BY <2>1, <1>4, Zenon
  <2> QED
    BY <2>2, Zenon DEF LastLoss
<1>6. ASSUME NEW k \in 1..Len(log) PROVE Established(id, k)' <=> Established(id, k)
  <2> DEFINE S == Stay(id, k)
  <2>1. k \in 1..Len(log) + 1 /\ k \in Nat \ {0} /\ k \in 0..Len(log) /\ k \in Nat
    BY <1>0, SMT
  <2>2. LastLoss(id, k)' = LastLoss(id, k) /\ LastLoss(id, k) \in 0..(k - 1)
    BY <2>1, <1>5, LastLossFacts, Zenon
  <2>3. LastLoss(id, k) + 1 \in Nat \ {0}
    BY <2>1, <2>2, SMT
  <2>4. S' = S /\ S \subseteq 1..Len(log) /\ S \in SUBSET (0..k)
    BY <2>1, <2>2, <2>3, <1>3, Zenon DEF Stay
  <2>5. k \in S => S # {} /\ Min(S) \in 1..Len(log)
    BY <2>1, <2>4, MinOf, Zenon
  <2>6. Sighted(id, k) => k \in S
    BY <2>1, <2>2, SMT DEF Stay, Sightings
  <2>7. /\ log'[k] = log[k] /\ (Sighted(id, k)' <=> Sighted(id, k))
        /\ k \in S => log'[Min(S)] = log[Min(S)]
    BY <2>5, <1>1, <1>2, Zenon
  <2>8. Established(id, k) <=> /\ Sighted(id, k)
                               /\ Cardinality(S) >= MinFrames
                               /\ log[k].now - log[Min(S)].now >= MinDurationMs
    BY Zenon DEF Established
  <2>9. Established(id, k)' <=> /\ Sighted(id, k)'
                                /\ Cardinality(S') >= MinFrames
                                /\ log'[k].now - log'[Min(S')].now >= MinDurationMs
    BY Zenon DEF Established
  <2> HIDE DEF S
  <2> QED
    BY <2>4, <2>6, <2>7, <2>8, <2>9, Zenon
<1>7. ASSUME NEW k \in 1..Len(log) + 1 PROVE Announced(id, k)' <=> Announced(id, k)
  <2>1. LastLoss(id, k)' = LastLoss(id, k) /\ LastLoss(id, k) \in 0..(k - 1)
    BY <1>5, LastLossFacts, <1>0, SMT
  <2>2. \A j \in (LastLoss(id, k) + 1)..(k - 1) : j \in 1..Len(log)
    BY <2>1, <1>0, SMT
  <2> QED
    BY <2>1, <2>2, <1>6, Zenon DEF Announced
<1> QED
  BY <1>1, <1>2, <1>3, <1>4, <1>5, <1>6, <1>7, Zenon

\* What the stay that goes on is.
LEMMA CurrentFacts ==
  ASSUME log \in Seq(Entry), NEW id
  PROVE  /\ Current(id) \in SUBSET (1..Len(log))
         /\ \A k \in Current(id) : Sighted(id, k)
         /\ IsFiniteSet(Current(id))
         /\ Current(id) # {} =>
              /\ Max(Current(id)) \in Current(id) /\ Min(Current(id)) \in Current(id)
              /\ \A k \in Current(id) : k <= Max(Current(id)) /\ Min(Current(id)) <= k
              /\ Sightings(id, 1, Len(log)) # {}
              /\ Max(Sightings(id, 1, Len(log))) = Max(Current(id))
         /\ Announced(id, Len(log) + 1) => Current(id) # {}
<1> DEFINE n == Len(log)
           L == LastLoss(id, n + 1)
           C == Current(id)
<1>0. n \in Nat /\ n + 1 \in Nat \ {0}
  BY SMT
<1>1. L \in 0..n
  BY <1>0, LastLossFacts, SMT
<1> HIDE DEF n, L
<1>2. \A k : k \in C <=> k \in (L + 1)..n /\ Sighted(id, k)
  BY Zenon DEF Current, Sightings, L, n
<1>3. \A k \in (L + 1)..n : k \in 1..n
  BY <1>0, <1>1, SMT
<1>4. C \in SUBSET (1..n) /\ C \in SUBSET (0..n)
  BY <1>0, <1>2, <1>3, SMT
<1>5. IsFiniteSet(C)
  BY <1>0, <1>4, FS_Interval, FS_Subset, 1 \in Int, n \in Int
<1>6. ASSUME C # {}
      PROVE  /\ Max(C) \in C /\ Min(C) \in C
             /\ \A k \in C : k <= Max(C) /\ Min(C) <= k
             /\ Sightings(id, 1, n) # {}
             /\ Max(Sightings(id, 1, n)) = Max(C)
  <2>1. /\ Max(C) \in C /\ Min(C) \in C
        /\ \A k \in C : k <= Max(C) /\ Min(C) <= k
    BY <1>0, <1>4, <1>6, MaxOf, MinOf, Zenon
  <2> DEFINE S == Sightings(id, 1, n)
             x == Max(C)
  <2>2. C \subseteq S /\ S \in SUBSET Int
    BY <1>2, <1>3, SMT DEF Sightings
  <2> HIDE DEF x
  <2>3. x \in C /\ x \in S /\ \A k \in C : k <= x
    BY <2>1, <2>2, Zenon DEF x
  <2>4. ASSUME NEW y \in S PROVE y <= x
    <3>1. CASE y \in C
      BY <3>1, <2>3
    <3>2. CASE y \notin C
      <4>1. y \in 1..n /\ Sighted(id, y)
        BY Zenon DEF Sightings
      <4>2. y \notin (L + 1)..n /\ x \in (L + 1)..n
        BY <4>1, <3>2, <2>3, <1>2, Zenon
      <4> QED
        BY <4>1, <4>2, <1>0, <1>1, SMT
    <3> QED
      BY <3>1, <3>2
  <2> HIDE DEF S
  <2>5. Max(S) = x
    BY <2>2, <2>3, <2>4, MaxIs
  <2> QED
    BY <2>1, <2>3, <2>5, Zenon DEF S, x
<1>7. Announced(id, n + 1) => C # {}
  <2> SUFFICES ASSUME Announced(id, n + 1) PROVE C # {}
    OBVIOUS
  <2>1. PICK k \in (L + 1)..((n + 1) - 1) : Established(id, k)
    BY Zenon DEF Announced, L
  <2>2. k \in (L + 1)..n
    BY <1>0, SMT
  <2>3. Sighted(id, k)
    BY <2>1, Zenon DEF Established
  <2> QED
    BY <2>2, <2>3, <1>2, Zenon
<1> QED
  BY <1>2, <1>4, <1>5, <1>6, <1>7, Zenon DEF n

(***************************************************************************)
(* What one more frame makes of the stay of an object.                     *)
(***************************************************************************)
StayGrows(id, e, n) ==
  LET m == n + 1
      C == Current(id)
      seen == id \in Seen(e.dets)
  IN  /\ Sighted(id, m)' <=> seen
      /\ Stay(id, m)' = IF seen THEN C \cup {m} ELSE C
      /\ C # {} => (Lost(id, m)' <=> ~seen /\ e.now - log[Max(C)].now >= LeaveGraceMs)
      /\ Lost(id, m)' => ~seen
      /\ Announced(id, m)' <=> Announced(id, m)
      /\ Current(id)' = IF Lost(id, m)' THEN {} ELSE Stay(id, m)'
      /\ Lost(id, m)' => ~Announced(id, m + 1)'
      /\ ~Lost(id, m)' =>
           (Announced(id, m + 1)' <=> Announced(id, m) \/ Established(id, m)')

LEMMA Growing ==
  ASSUME log \in Seq(Entry), NEW e \in Entry, log' = Append(log, e), NEW id,
         NEW n, n = Len(log)
  PROVE  StayGrows(id, e, n)
<1> DEFINE m == n + 1
           C == Current(id)
           L == LastLoss(id, m)
           seen == id \in Seen(e.dets)
<1>0. n \in Nat /\ m \in Nat \ {0} /\ m \in 1..(n + 1) /\ m - 1 = n
  BY SMT
<1>1. log'[m] = e /\ Len(log') = m /\ log' \in Seq(Entry)
  BY SMT
<1>2. Sighted(id, m)' <=> seen
  BY <1>1, Zenon DEF Sighted, Seen
<1>3. /\ L \in 0..n /\ LastLoss(id, m)' = L
      /\ \A k \in 1..n : Sighted(id, k)' <=> Sighted(id, k)
      /\ \A k \in 1..n : Lost(id, k)' <=> Lost(id, k)
      /\ \A k \in 1..n : Established(id, k)' <=> Established(id, k)
      /\ Announced(id, m)' <=> Announced(id, m)
  BY <1>0, Unchanging, LastLossFacts
<1>4. /\ L = 0 \/ Lost(id, L)
      /\ \A k \in 1..n : Lost(id, k) => k <= L
  BY <1>0, LastLossFacts
<1> HIDE DEF L, seen
<1>5. \A k : k \in C <=> k \in (L + 1)..n /\ Sighted(id, k)
  BY Zenon DEF Current, Sightings, L
<1> HIDE DEF C
<1>6. Stay(id, m)' = IF seen THEN C \cup {m} ELSE C
  <2>1. \A k : k \in Stay(id, m)' <=> k \in (L + 1)..m /\ Sighted(id, k)'
    BY <1>3, Zenon DEF Stay, Sightings
  <2>2. \A k : k \in (L + 1)..m <=> k \in (L + 1)..n \/ k = m
    BY <1>0, <1>3, SMT
  <2>3. \A k \in (L + 1)..n : k \in 1..n
    BY <1>0, <1>3, SMT
  <2>4. \A k : k \in Stay(id, m)' <=> k \in C \/ (k = m /\ seen)
    BY <2>1, <2>2, <2>3, <1>2, <1>3, <1>5, Zenon
  <2>5. CASE seen
    BY <2>4, <2>5, Zenon
  <2>6. CASE ~seen
    BY <2>4, <2>6, Zenon
  <2> QED
    BY <2>5, <2>6, Zenon
<1>7. Lost(id, m)' => ~seen
  BY <1>2, Zenon DEF Lost
<1>8. C # {} => (Lost(id, m)' <=> ~seen /\ e.now - log[Max(C)].now >= LeaveGraceMs)
  <2> SUFFICES ASSUME C # {}
               PROVE  Lost(id, m)' <=> ~seen /\ e.now - log[Max(C)].now >= LeaveGraceMs
    OBVIOUS
  <2> DEFINE S == Sightings(id, 1, n)
  <2>1. S # {} /\ Max(S) = Max(C) /\ Max(C) \in 1..n
    BY CurrentFacts, Zenon DEF C
  <2>2. Sightings(id, 1, m - 1)' = S
    <3>1. 1 \in Nat \ {0} /\ n \in 0..Len(log)
      BY <1>0, SMT
    <3>2. Sightings(id, 1, n)' = Sightings(id, 1, n)
      BY <3>1, Unchanging, Zenon
    <3> QED
      BY <3>2, <1>0, Zenon
  <2>3. log'[Max(C)] = log[Max(C)]
    BY <2>1, Unchanging, Zenon
  <2>4. Lost(id, m)' <=> /\ ~Sighted(id, m)' /\ Sightings(id, 1, m - 1)' # {}
                         /\ log'[m].now - log'[Max(Sightings(id, 1, m - 1)')].now
                              >= LeaveGraceMs
    BY Zenon DEF Lost
  <2> HIDE DEF S
  <2> QED
    BY <2>1, <2>2, <2>3, <2>4, <1>1, <1>2, Zenon
<1>9. LastLoss(id, m + 1)' = IF Lost(id, m)' THEN m ELSE L
  <2> DEFINE S == {0} \cup {k \in 1..((m + 1) - 1) : Lost(id, k)'}
  <2>1. LastLoss(id, m + 1)' = Max(S)
    BY Zenon DEF LastLoss
  <2>2. \A k : k \in S <=> k = 0 \/ (k \in 1..n /\ Lost(id, k)) \/ (k = m /\ Lost(id, m)')
    <3>1. \A k : k \in 1..((m + 1) - 1) <=> k \in 1..n \/ k = m
      BY <1>0, SMT
    <3> QED
      BY <3>1, <1>3, Zenon
  <2> HIDE DEF S
  <2>3. S \in SUBSET Int
    BY <2>2, <1>0, SMT
  <2>4. CASE Lost(id, m)'
    <3>1. m \in S /\ \A y \in S : y <= m
      BY <2>2, <2>4, <1>0, SMT
    <3>2. Max(S) = m
      BY <3>1, <2>3, MaxIs, Zenon
    <3> QED
      BY <3>2, <2>1, <2>4, Zenon
  <2>5. CASE ~Lost(id, m)'
    <3>1. L \in S
      BY <2>2, <1>3, <1>4, SMT
    <3>2. \A y \in S : y <= L
      BY <2>2, <2>5, <1>3, <1>4, SMT
    <3>3. Max(S) = L
      BY <3>1, <3>2, <2>3, MaxIs, Zenon
    <3> QED
      BY <3>3, <2>1, <2>5, Zenon
  <2> QED
    BY <2>4, <2>5, Zenon
<1>10. Current(id)' = IF Lost(id, m)' THEN {} ELSE Stay(id, m)'
  <2>1. \A k : k \in Current(id)' <=>
               k \in (LastLoss(id, m + 1)' + 1)..m /\ Sighted(id, k)'
    BY <1>1, Zenon DEF Current, Sightings
  <2>2. CASE Lost(id, m)'
    <3>1. (m + 1)..m = {}
      BY <1>0, SMT
    <3> QED
      BY <3>1, <2>1, <2>2, <1>9, Zenon
  <2>3. CASE ~Lost(id, m)'
    <3>1. \A k : k \in Stay(id, m)' <=> k \in (L + 1)..m /\ Sighted(id, k)'
      BY <1>3, Zenon DEF Stay, Sightings
    <3> QED
      BY <3>1, <2>1, <2>3, <1>9, Zenon
  <2> QED
    BY <2>2, <2>3, Zenon
<1>11. Lost(id, m)' => ~Announced(id, m + 1)'
  <2>1. (m + 1)..((m + 1) - 1) = {}
    BY <1>0, SMT
  <2> QED
    BY <2>1, <1>9, Zenon DEF Announced
<1>12. ~Lost(id, m)' =>
         (Announced(id, m + 1)' <=> Announced(id, m) \/ Established(id, m)')
  <2> SUFFICES ASSUME ~Lost(id, m)'
               PROVE  Announced(id, m + 1)' <=> Announced(id, m) \/ Established(id, m)'
    OBVIOUS
  <2>1. Announced(id, m + 1)' <=> \E k \in (L + 1)..((m + 1) - 1) : Established(id, k)'
    BY <1>9, Zenon DEF Announced
  <2>2. Announced(id, m) <=> \E k \in (L + 1)..n : Established(id, k)
    BY <1>0, Zenon DEF Announced, L
  <2>3. \A k : k \in (L + 1)..((m + 1) - 1) <=> k \in (L + 1)..n \/ k = m
    BY <1>0, <1>3, SMT
  <2>4. \A k \in (L + 1)..n : k \in 1..n
    BY <1>0, <1>3, SMT
  <2> QED
    BY <2>1, <2>2, <2>3, <2>4, <1>3, Zenon
<1> QED
  BY <1>2, <1>3, <1>6, <1>7, <1>8, <1>10, <1>11, <1>12, Zenon DEF StayGrows, C, seen

-----------------------------------------------------------------------------
(***************************************************************************)
(* The engine's record of an object is what the history says of its stay.  *)
(***************************************************************************)
Describes(track, id, stay, hist) ==
  /\ track.first_seen_ms = hist[Min(stay)].now
  /\ track.last_seen_ms = hist[Max(stay)].now
  /\ track.label = hist[Max(stay)].dets[id].label
  /\ track.frames_seen = Cardinality(stay)

Mirrors(id) ==
  /\ id \in DOMAIN tracks <=> Current(id) # {}
  /\ id \in DOMAIN tracks =>
       /\ Describes(tracks[id], id, Current(id), log)
       /\ tracks[id].confirmed <=> Announced(id, Len(log) + 1)

HInv ==
  /\ IInv
  /\ log \in Seq(Entry)
  /\ frames = Len(log)
  /\ \A id \in TrackIds : Mirrors(id)
  /\ EventsMatchReference

\* Adding the frame m to the earlier frames of a stay.
LEMMA OneMore ==
  ASSUME NEW n \in Nat, NEW C \in SUBSET (1..n)
  PROVE  LET S == C \cup {n + 1} IN
         /\ Max(S) = n + 1
         /\ Min(S) = IF C = {} THEN n + 1 ELSE Min(C)
         /\ Cardinality(S) = Cardinality(C) + 1
<1> DEFINE S == C \cup {n + 1}
<1>1. S \in SUBSET Int /\ n + 1 \in S /\ \A y \in S : y <= n + 1
  BY SMT
<1>2. Max(S) = n + 1
  BY <1>1, MaxIs, Zenon
<1>3. Min(S) = IF C = {} THEN n + 1 ELSE Min(C)
  <2>1. CASE C = {}
    <3>1. \A y \in S : n + 1 <= y
      BY <2>1, SMT
    <3> HIDE DEF S
    <3> QED
      BY <1>1, <2>1, <3>1, MinIs, Zenon
  <2>2. CASE C # {}
    <3>1. C \in SUBSET (0..n)
      BY SMT
    <3>2. Min(C) \in C /\ \A y \in C : Min(C) <= y
      BY <2>2, <3>1, MinOf, Zenon
    <3>3. \A y \in S : Min(C) <= y
      <4>1. Min(C) \in 1..n
        BY <3>2, Zenon
      <4>2. Min(C) <= n + 1
        BY <4>1, SMT
      <4> QED
        BY <3>2, <4>2, Zenon
    <3>4. Min(C) \in S
      BY <3>2
    <3> HIDE DEF S
    <3> QED
      BY <1>1, <2>2, <3>3, <3>4, MinIs, Zenon
  <2> QED
    BY <2>1, <2>2, Zenon
<1>4. Cardinality(S) = Cardinality(C) + 1
  <2>1. n + 1 \notin C
    BY SMT
  <2>2. IsFiniteSet(C)
    BY FS_Interval, FS_Subset, 1 \in Int, n \in Int
  <2> QED
    BY <2>1, <2>2, FS_AddElement
<1> QED
  BY <1>2, <1>3, <1>4, Zenon

\* Once the detections of a frame are taken in, the tracks describe the
\* stays up to that frame; nothing is announced yet.
LEMMA TakenIn ==
  ASSUME TypeInv, log \in Seq(Entry), NEW id, Mirrors(id),
         NEW e \in Entry, log' = Append(log, e), NEW n, n = Len(log)
  PROVE  LET trk == Integrated(tracks, e.dets, e.now) IN
         /\ id \in DOMAIN trk <=> Stay(id, n + 1)' # {}
         /\ id \in DOMAIN trk =>
              /\ Describes(trk[id], id, Stay(id, n + 1)', log')
              /\ trk[id].confirmed <=> Announced(id, n + 1)
<1> DEFINE trk == Integrated(tracks, e.dets, e.now)
           m == n + 1
           C == Current(id)
           seen == id \in Seen(e.dets)
<1>0. n \in Nat /\ m \in Nat
  BY SMT
<1>1. /\ Stay(id, m)' = IF seen THEN C \cup {m} ELSE C
      /\ \A k \in 1..n : log'[k] = log[k]
      /\ log'[m] = e
  <2>1. StayGrows(id, e, n)
    BY Growing, Zenon
  <2>2. \A k \in 1..n : log'[k] = log[k]
    BY Unchanging, Zenon
  <2>3. log'[m] = e
    BY SMT
  <2> QED
    BY <2>1, <2>2, <2>3, Zenon DEF StayGrows
<1>2. /\ C \in SUBSET (1..n)
      /\ C # {} => Max(C) \in 1..n /\ Min(C) \in 1..n
      /\ Announced(id, m) => C # {}
  BY CurrentFacts, Zenon
<1>3. /\ id \in DOMAIN tracks <=> C # {}
      /\ id \in DOMAIN tracks =>
           /\ Describes(tracks[id], id, C, log)
           /\ tracks[id].confirmed <=> Announced(id, m)
  BY Zenon DEF Mirrors
<1>4. DOMAIN trk = DOMAIN tracks \cup Seen(e.dets)
  BY DEF Integrated
<1>5. e.dets \in Detections /\ e.now \in Int
  BY DEF Entry
<1> HIDE DEF C
<1>6. CASE ~seen
  <2>1. Stay(id, m)' = C
    BY <1>1, <1>6, Zenon
  <2>2. id \in DOMAIN trk <=> C # {}
    BY <1>3, <1>4, <1>6, Zenon
  <2>3. ASSUME id \in DOMAIN trk
        PROVE  Describes(trk[id], id, C, log') /\ (trk[id].confirmed <=> Announced(id, m))
    <3>1. trk[id] = tracks[id] /\ id \in DOMAIN tracks /\ C # {}
      BY <2>2, <2>3, <1>3, <1>6 DEF Integrated
    <3>2. log'[Max(C)] = log[Max(C)] /\ log'[Min(C)] = log[Min(C)]
      BY <3>1, <1>1, <1>2, Zenon
    <3> QED
      BY <3>1, <3>2, <1>3, Zenon DEF Describes
  <2> QED
    BY <2>1, <2>2, <2>3, Zenon
<1>7. CASE seen
  <2> DEFINE S == C \cup {m}
  <2>1. Stay(id, m)' = S /\ S # {}
    BY <1>1, <1>7, Zenon
  <2>2. id \in DOMAIN trk
    BY <1>4, <1>7, Zenon
  <2>3. /\ Max(S) = m
        /\ Min(S) = IF C = {} THEN m ELSE Min(C)
        /\ Cardinality(S) = Cardinality(C) + 1
    BY <1>0, <1>2, OneMore, Zenon
  <2>4. log'[Max(S)] = e
    BY <2>3, <1>1, Zenon
  <2>5. CASE id \notin DOMAIN tracks
    <3>1. trk[id] = NewTrack(e.dets[id], e.now)
      BY <2>2, <2>5, <1>4, <1>7 DEF Integrated
    <3>2. C = {} /\ ~Announced(id, m) /\ Cardinality(C) = 0
      BY <2>5, <1>2, <1>3, FS_EmptySet, Zenon
    <3>3. log'[Min(S)] = e /\ Cardinality(S) = 1
      BY <3>2, <2>3, <1>1, SMT
    <3>4. /\ trk[id].first_seen_ms = e.now /\ trk[id].last_seen_ms = e.now
          /\ trk[id].label = e.dets[id].label /\ trk[id].frames_seen = 1
          /\ trk[id].confirmed = FALSE
      BY <3>1 DEF NewTrack
    <3> HIDE DEF S, trk
    <3>5. Describes(trk[id], id, S, log')
      BY <3>3, <3>4, <2>4, Zenon DEF Describes
    <3> QED
      BY <2>1, <2>2, <3>2, <3>4, <3>5, Zenon DEF trk
  <2>6. CASE id \in DOMAIN tracks
    <3>1. trk[id] = Touched(tracks[id], e.dets[id], e.now)
      BY <2>2, <2>6, <1>4, <1>7 DEF Integrated
    <3>2. tracks[id] \in Track
      BY <2>6 DEF TypeInv
    <3>3. /\ trk[id].first_seen_ms = tracks[id].first_seen_ms
          /\ trk[id].last_seen_ms = e.now
          /\ trk[id].label = e.dets[id].label
          /\ trk[id].frames_seen = tracks[id].frames_seen + 1
          /\ trk[id].confirmed = tracks[id].confirmed
      BY <3>1, <3>2 DEF Touched, Track
    <3>4. C # {} /\ log'[Min(S)] = log[Min(C)]
      BY <2>3, <2>6, <1>1, <1>2, <1>3, Zenon
    <3> HIDE DEF S, trk
    <3>5. Describes(trk[id], id, S, log')
      BY <3>3, <3>4, <2>3, <2>4, <2>6, <1>3, Zenon DEF Describes
    <3> QED
      BY <2>1, <2>2, <2>6, <3>3, <3>5, <1>3, Zenon DEF trk
  <2> QED
    BY <2>5, <2>6, Zenon
<1> QED
  BY <1>6, <1>7, Zenon

(***************************************************************************)
(* What the engine decides of an object at frame m is what the history     *)
(* says of it.                                                             *)
(***************************************************************************)
DecidesRight(id, e, m) ==
  LET trk   == Integrated(tracks, e.dets, e.now)
      enter == Confirmable(trk, Seen(e.dets), e.now)
      leave == Leavers(trk, Expired(trk, Seen(e.dets), e.now))
  IN  /\ id \in enter <=> Established(id, m)' /\ ~Announced(id, m)'
      /\ id \in leave <=> Lost(id, m)' /\ Announced(id, m)'
      /\ id \in enter => trk[id].label = log'[m].dets[id].label
      /\ id \in leave => trk[id].label = log'[Max(Stay(id, m)')].dets[id].label

LEMMA Deciding ==
  ASSUME TypeInv, log \in Seq(Entry), NEW id \in TrackIds, Mirrors(id),
         NEW e \in Entry, log' = Append(log, e), NEW n, n = Len(log),
         Update(e.dets, e.now)
  PROVE  DecidesRight(id, e, n + 1) /\ Mirrors(id)'
<1> DEFINE m     == n + 1
           C     == Current(id)
           seen  == Seen(e.dets)
           trk   == Integrated(tracks, e.dets, e.now)
           enter == Confirmable(trk, seen, e.now)
           gone  == Expired(trk, seen, e.now)
           leave == Leavers(trk, gone)
<1>0. n \in Nat /\ m \in Nat /\ Len(log') = m
  BY SMT
<1>1. /\ Sighted(id, m)' <=> id \in seen
      /\ Stay(id, m)' = IF id \in seen THEN C \cup {m} ELSE C
      /\ C # {} => (Lost(id, m)' <=>
                      id \notin seen /\ e.now - log[Max(C)].now >= LeaveGraceMs)
      /\ Lost(id, m)' => id \notin seen
      /\ Announced(id, m)' <=> Announced(id, m)
      /\ Current(id)' = IF Lost(id, m)' THEN {} ELSE Stay(id, m)'
      /\ ~Lost(id, m)' =>
           (Announced(id, m + 1)' <=> Announced(id, m) \/ Established(id, m)')
  BY Growing, Zenon DEF StayGrows
<1>2. /\ C \in SUBSET (1..n)
      /\ C # {} => Max(C) \in 1..n
      /\ Announced(id, m) => C # {}
  BY CurrentFacts, Zenon
<1>3. /\ log'[m] = e
      /\ \A k \in 1..n : log'[k] = log[k]
  <2>1. log'[m] = e
    BY SMT
  <2>2. \A k \in 1..n : log'[k] = log[k]
    BY Unchanging, Zenon
  <2> QED
    BY <2>1, <2>2
<1>4. /\ id \in DOMAIN trk <=> Stay(id, m)' # {}
      /\ id \in DOMAIN trk =>
           /\ Describes(trk[id], id, Stay(id, m)', log')
           /\ trk[id].confirmed <=> Announced(id, m)
  BY TakenIn, Zenon
<1>5. /\ DOMAIN trk = DOMAIN tracks \cup seen
      /\ trk \in [DOMAIN trk -> Track]
  <2>1. e.dets \in Detections /\ e.now \in Int
    BY DEF Entry
  <2> QED
    BY <2>1, IntegratedFacts
<1>6. tracks' = [i \in DOMAIN trk \ gone |->
                   [trk[i] EXCEPT !.confirmed = @ \/ i \in enter]]
  BY DEF Update
<1> HIDE DEF C, seen, trk
<1>7. id \in enter <=> Established(id, m)' /\ ~Announced(id, m)'
  <2> DEFINE S == Stay(id, m)'
  <2>1. Established(id, m)' <=> /\ Sighted(id, m)'
                                /\ Cardinality(S) >= MinFrames
                                /\ log'[m].now - log'[Min(S)].now >= MinDurationMs
    BY Zenon DEF Established
  <2>2. id \in enter <=> /\ id \in seen /\ ~trk[id].confirmed
                         /\ trk[id].frames_seen >= MinFrames
                         /\ e.now - trk[id].first_seen_ms >= MinDurationMs
    BY Zenon DEF Confirmable
  <2>3. CASE id \in seen
    <3>1. id \in DOMAIN trk
      BY <2>3, <1>5, Zenon
    <3>2. /\ trk[id].frames_seen = Cardinality(S)
          /\ trk[id].first_seen_ms = log'[Min(S)].now
          /\ trk[id].confirmed <=> Announced(id, m)
      BY <3>1, <1>4, Zenon DEF Describes
    <3> HIDE DEF S
    <3> QED
      BY <2>1, <2>2, <2>3, <3>2, <1>1, <1>3, Zenon
  <2>4. CASE id \notin seen
    BY <2>1, <2>2, <2>4, <1>1, Zenon
  <2> QED
    BY <2>3, <2>4, Zenon
<1>8. id \in gone <=> C # {} /\ Lost(id, m)'
  <2>1. id \in gone <=> /\ id \in DOMAIN trk /\ id \notin seen
                        /\ e.now - trk[id].last_seen_ms >= LeaveGraceMs
    BY Zenon DEF Expired
  <2>2. CASE id \in seen
    BY <2>1, <2>2, <1>1, Zenon
  <2>3. CASE id \notin seen
    <3>1. Stay(id, m)' = C /\ (id \in DOMAIN trk <=> C # {})
      BY <2>3, <1>1, <1>4, Zenon
    <3>2. ASSUME C # {}
          PROVE  trk[id].last_seen_ms = log[Max(C)].now
      BY <3>1, <3>2, <1>2, <1>3, <1>4, Zenon DEF Describes
    <3> QED
      BY <2>1, <2>3, <3>1, <3>2, <1>1, Zenon
  <2> QED
    BY <2>2, <2>3, Zenon
<1>9. id \in leave <=> Lost(id, m)' /\ Announced(id, m)'
  <2>1. id \in leave <=> id \in gone /\ id \in DOMAIN trk /\ trk[id].confirmed
    BY Zenon DEF Leavers, Confirmed
  <2>2. id \in gone => id \in DOMAIN trk
    BY Zenon DEF Expired
  <2> QED
    BY <2>1, <2>2, <1>1, <1>2, <1>4, <1>8, Zenon
<1>10. id \in enter => trk[id].label = log'[m].dets[id].label
  <2>1. ASSUME id \in enter
        PROVE  Max(Stay(id, m)') = m /\ id \in DOMAIN trk
    <3>1. id \in seen
      BY <2>1, Zenon DEF Confirmable
    <3>2. Stay(id, m)' = C \cup {m} /\ id \in DOMAIN trk
      BY <3>1, <1>1, <1>5, Zenon
    <3>3. Max(C \cup {m}) = m
      BY <1>0, <1>2, OneMore, Zenon
    <3> QED
      BY <3>2, <3>3, Zenon
  <2> QED
    BY <2>1, <1>4, Zenon DEF Describes
<1>11. id \in leave => trk[id].label = log'[Max(Stay(id, m)')].dets[id].label
  <2>1. id \in leave => id \in DOMAIN trk
    BY Zenon DEF Leavers, Confirmed
  <2> QED
    BY <2>1, <1>4, Zenon DEF Describes
<1> HIDE DEF enter, gone, leave
<1>12. Mirrors(id)'
  <2>1. DOMAIN tracks' = DOMAIN trk \ gone
    BY <1>6, Zenon
  <2>2. CASE Lost(id, m)'
    <3>1. Stay(id, m)' = C /\ Current(id)' = {}
      BY <2>2, <1>1, Zenon
    <3>2. id \notin DOMAIN tracks'
      BY <3>1, <2>1, <2>2, <1>4, <1>8, Zenon
    <3> QED
      BY <3>1, <3>2, Zenon DEF Mirrors
  <2>3. CASE ~Lost(id, m)'
    <3>1. Current(id)' = Stay(id, m)' /\ id \notin gone
      BY <2>3, <1>1, <1>8, Zenon
    <3>2. id \in DOMAIN tracks' <=> id \in DOMAIN trk
      BY <3>1, <2>1, Zenon
    <3>3. ASSUME id \in DOMAIN trk
          PROVE  /\ Describes(tracks'[id], id, Stay(id, m)', log')
                 /\ tracks'[id].confirmed <=> Announced(id, m + 1)'
      <4>1. tracks'[id] = [trk[id] EXCEPT !.confirmed = @ \/ id \in enter]
        BY <3>1, <3>3, <1>6, Zenon
      <4>2. trk[id] \in Track
        BY <3>3, <1>5, Zenon
      <4>3. /\ tracks'[id].first_seen_ms = trk[id].first_seen_ms
            /\ tracks'[id].last_seen_ms = trk[id].last_seen_ms
            /\ tracks'[id].label = trk[id].label
            /\ tracks'[id].frames_seen = trk[id].frames_seen
            /\ tracks'[id].confirmed <=> trk[id].confirmed \/ id \in enter
        BY <4>1, <4>2 DEF Track
      <4>4. Describes(tracks'[id], id, Stay(id, m)', log')
        BY <3>3, <4>3, <1>4, Zenon DEF Describes
      <4>5. tracks'[id].confirmed <=> Announced(id, m) \/ Established(id, m)'
        BY <3>3, <4>3, <1>1, <1>4, <1>7, Zenon
      <4> QED
        BY <4>4, <4>5, <2>3, <1>1, Zenon
    <3> QED
      BY <3>1, <3>2, <3>3, <1>0, <1>4, Zenon DEF Mirrors
  <2> QED
    BY <2>2, <2>3, Zenon
<1> QED
  BY <1>7, <1>9, <1>10, <1>11, <1>12, Zenon
     DEF DecidesRight, enter, leave, gone, trk, seen

\* Hence the events of the frame are those of the definition.
LEMMA Reporting ==
  ASSUME TypeInv, log \in Seq(Entry), \A id \in TrackIds : Mirrors(id),
         NEW e \in Entry, log' = Append(log, e), NEW n, n = Len(log),
         Update(e.dets, e.now)
  PROVE  events' = ReferenceEvents(n + 1)'
<1> DEFINE m     == n + 1
           seen  == Seen(e.dets)
           trk   == Integrated(tracks, e.dets, e.now)
           enter == Confirmable(trk, seen, e.now)
           leave == Leavers(trk, Expired(trk, seen, e.now))
           E     == {i \in TrackIds : Established(i, m)' /\ ~Announced(i, m)'}
           G     == {i \in TrackIds : Lost(i, m)' /\ Announced(i, m)'}
           Entered(i) == [type |-> "OBJECT_ENTERED", track_id |-> i,
                          label |-> log'[m].dets[i].label, at_ms |-> log'[m].now]
           Departed(i) == [type |-> "OBJECT_LEFT", track_id |-> i,
                           label |-> log'[Max(Stay(i, m)')].dets[i].label,
                           at_ms |-> log'[m].now]
<1>1. \A i \in TrackIds : DecidesRight(i, e, m)
  BY Deciding, Zenon
<1>2. enter \subseteq TrackIds /\ leave \subseteq TrackIds
  <2>1. e.dets \in Detections /\ e.now \in Int
    BY DEF Entry
  <2>2. DOMAIN trk = DOMAIN tracks \cup seen /\ DOMAIN trk \subseteq TrackIds
    BY <2>1, IntegratedFacts
  <2> HIDE DEF trk, seen
  <2> QED
    BY <2>2, Zenon DEF Confirmable, Leavers, Confirmed
<1>3. log'[m] = e
  BY SMT
<1>4. events' = {Event("OBJECT_ENTERED", i, trk, e.now) : i \in enter}
                  \cup {Event("OBJECT_LEFT", i, trk, e.now) : i \in leave}
  BY DEF Update
<1>5. ReferenceEvents(m)' = {Entered(i) : i \in E} \cup {Departed(i) : i \in G}
  BY DEF ReferenceEvents
<1> HIDE DEF seen, trk
<1>6. enter = E /\ leave = G
  BY <1>1, <1>2, Zenon DEF DecidesRight, trk, seen
<1>7. \A i \in enter : trk[i].label = log'[m].dets[i].label
  BY <1>1, <1>2, Zenon DEF DecidesRight, trk, seen
<1>8. \A i \in leave : trk[i].label = log'[Max(Stay(i, m)')].dets[i].label
  BY <1>1, <1>2, Zenon DEF DecidesRight, trk, seen
<1> HIDE DEF enter, leave, E, G
<1>9. \A i \in enter : Event("OBJECT_ENTERED", i, trk, e.now) = Entered(i)
  BY <1>3, <1>7, Zenon DEF Event
<1>10. \A i \in leave : Event("OBJECT_LEFT", i, trk, e.now) = Departed(i)
  BY <1>3, <1>8, Zenon DEF Event
<1> HIDE DEF Entered, Departed
<1>11. {Event("OBJECT_ENTERED", i, trk, e.now) : i \in enter} = {Entered(i) : i \in E}
  BY <1>6, <1>9, Zenon
<1>12. {Event("OBJECT_LEFT", i, trk, e.now) : i \in leave} = {Departed(i) : i \in G}
  BY <1>6, <1>10, Zenon
<1> QED
  BY <1>4, <1>5, <1>11, <1>12, Zenon

-----------------------------------------------------------------------------
LEMMA HInitInv == HInit => HInv
<1> SUFFICES ASSUME HInit PROVE HInv
  OBVIOUS
<1>1. IInv
  BY InitIInv, Zenon DEF HInit
<1>2. log \in Seq(Entry) /\ Len(log) = 0 /\ frames = 0 /\ DOMAIN tracks = {}
  BY DEF HInit, Init
<1>3. ASSUME NEW id \in TrackIds PROVE Current(id) = {}
  <2>1. Current(id) \in SUBSET (1..0)
    BY <1>2, CurrentFacts, Zenon
  <2> QED
    BY <2>1, SMT
<1> QED
  BY <1>1, <1>2, <1>3, SMT DEF HInv, Mirrors, EventsMatchReference

\* Between two frames nothing changes in the history.
LEMMA Standing ==
  ASSUME log' = log, NEW id, NEW k
  PROVE  /\ Lost(id, k)' <=> Lost(id, k)
         /\ Stay(id, k)' = Stay(id, k)
         /\ Established(id, k)' <=> Established(id, k)
         /\ Announced(id, k)' <=> Announced(id, k)
<1>1. \A j : Lost(id, j)' <=> Lost(id, j)
  BY Zenon DEF Lost, Sightings, Sighted
<1>2. \A j : LastLoss(id, j)' = LastLoss(id, j)
  BY <1>1, Zenon DEF LastLoss
<1>3. ASSUME NEW j PROVE Stay(id, j)' = Stay(id, j)
  <2>1. LastLoss(id, j)' = LastLoss(id, j)
    BY <1>2, Zenon
  <2> QED
    BY <2>1, SMT DEF Stay, Sightings, Sighted
<1>4. \A j : Established(id, j)' <=> Established(id, j)
  BY <1>3, Zenon DEF Established, Sighted
<1>5. Announced(id, k)' <=> Announced(id, k)
  BY <1>2, <1>4, Zenon DEF Announced
<1> QED
  BY <1>1, <1>3, <1>4, <1>5, Zenon

LEMMA FrameInv == HInv /\ [HFrame]_hvars => HInv'
<1> SUFFICES ASSUME HInv, [HFrame]_hvars PROVE HInv'
  OBVIOUS
<1>1. CASE UNCHANGED hvars
  <2>1. UNCHANGED vars /\ UNCHANGED log
    BY <1>1, Zenon DEF hvars
  <2>2. IInv'
    BY <2>1, NextIInv, Zenon DEF HInv
  <2>3. log' = log /\ frames' = frames /\ tracks' = tracks /\ events' = events
    BY <2>1, Zenon DEF vars
  <2>4. ASSUME NEW id \in TrackIds PROVE Mirrors(id)'
    <3>1. Current(id)' = Current(id)
      BY <2>3, Zenon DEF Current, LastLoss, Lost, Sightings, Sighted
    <3>2. Announced(id, Len(log) + 1)' <=> Announced(id, Len(log) + 1)
      BY <2>3, Standing, Zenon
    <3>3. Mirrors(id)
      BY Zenon DEF HInv
    <3> QED
      BY <3>1, <3>2, <3>3, <2>3, Zenon DEF Mirrors
  <2>5. EventsMatchReference'
    <3>1. ReferenceEvents(frames)' = ReferenceEvents(frames)
      BY <2>3, Standing, Zenon DEF ReferenceEvents
    <3> QED
      BY <2>3, <3>1, Zenon DEF HInv, EventsMatchReference
  <2> QED
    BY <2>1, <2>2, <2>3, <2>4, <2>5, Zenon DEF HInv
<1>2. CASE HFrame
  <2>1. PICK dets \in Detections, step \in ClockSteps :
          /\ frames < MaxFrames
          /\ frames' = frames + 1
          /\ Update(dets, now_ms + step)
          /\ log' = Append(log, [now |-> now_ms + step, dets |-> dets])
    BY <1>2, Zenon DEF HFrame
  <2> DEFINE now == now_ms + step
  <2>2. PICK e : e = [now |-> now, dets |-> dets]
    OBVIOUS
  <2>3. e \in Entry /\ e.now = now /\ e.dets = dets
    <3>1. now \in Int
      BY EngineAssumption DEF HInv, IInv, TypeInv, EngineAssumption
    <3> QED
      BY <2>2, <3>1 DEF Entry
  <2>4. Update(e.dets, e.now) /\ log' = Append(log, e)
    BY <2>1, <2>2, <2>3, Zenon
  <2>5. PICK n : n = Len(log)
    OBVIOUS
  <2>6. n \in Nat /\ log' \in Seq(Entry) /\ Len(log') = n + 1 /\ frames' = Len(log')
    BY <2>1, <2>3, <2>4, <2>5, SMT DEF HInv
  <2>7. TypeInv /\ log \in Seq(Entry) /\ \A id \in TrackIds : Mirrors(id)
    BY Zenon DEF HInv, IInv
  <2>8. IInv'
    <3>1. Next
      BY <2>1, Zenon DEF Next, Frame
    <3> QED
      BY <3>1, NextIInv, Zenon DEF HInv
  <2>9. \A id \in TrackIds : Mirrors(id)'
    BY <2>3, <2>4, <2>5, <2>7, Deciding, Zenon
  <2>10. EventsMatchReference'
    <3>1. events' = ReferenceEvents(n + 1)'
      BY <2>3, <2>4, <2>5, <2>7, Reporting, Zenon
    <3> QED
      BY <3>1, <2>6 DEF EventsMatchReference
  <2> QED
    BY <2>6, <2>8, <2>9, <2>10, Zenon DEF HInv
<1> QED
  BY <1>1, <1>2, Zenon

LEMMA HInvariance == HSpec => []HInv
BY HInitInv, FrameInv, PTL DEF HSpec

\* Whatever the stream shows and however its clock moves, every call of update
\* reports exactly the entries and departures that the frames since the start
\* of the stream call for (event_engine.py:89-146).
THEOREM EventsAreThoseOfTheHistory == HSpec => []EventsMatchReference
<1>1. HInv => EventsMatchReference
  BY Zenon DEF HInv
<1> QED
  BY <1>1, HInvariance, PTL

\* The history only watches: what is true of the engine is true of the engine
\* with its history (event_engine.py:89-146).
THEOREM HistoryOnlyWatches == HSpec => Spec
<1>1. HInit => Init
  BY Zenon DEF HInit
<1>2. [HFrame]_hvars => [Next]_vars
  BY Zenon DEF HFrame, hvars, Next, Frame
<1> QED
  BY <1>1, <1>2, PTL DEF HSpec, Spec
=============================================================================
