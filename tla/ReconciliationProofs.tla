------------------------ MODULE ReconciliationProofs ------------------------
(***************************************************************************)
(* Theorems about Reconciliation, for every number of venues and trades and *)
(* every retry budget: patience with a venue is bounded, and the accounting *)
(* counts the fee of a trade once.                                          *)
(***************************************************************************)
EXTENDS Reconciliation, FiniteSetTheorems, WellFoundedInduction, TLAPS

-----------------------------------------------------------------------------
(* Patience *)

CountType ==
  /\ quarantined \in [Venues -> BOOLEAN]
  /\ fails \in [Venues -> 0..SnapshotBudget]
  /\ drifts \in [Venues -> 0..DriftBudget]
  /\ gaps \in [Venues -> 0..GapBudget]
  /\ patience \in [Venues -> Nat]

\* Each failed visit is one more failed fetch, or begins a new run of them and is
\* one more drift or gap; a run is no longer than the budget.
Allowance(d, g) == (d + g) * (SnapshotBudget + 1)

Explained(v) == patience[v] <= Allowance(drifts[v], gaps[v]) + fails[v]

PatienceInv == CountType /\ \A v \in Venues : Explained(v)

LEMMA AllowanceGrows ==
  ASSUME NEW d \in Nat, NEW g \in Nat
  PROVE  /\ Allowance(d, g) \in Nat
         /\ Allowance(d + 1, g) = Allowance(d, g) + SnapshotBudget + 1
         /\ Allowance(d, g + 1) = Allowance(d, g) + SnapshotBudget + 1
<1>1. \A a, b \in Nat : a * b \in Nat /\ (a + 1) * b = a * b + b
  OBVIOUS
<1>2. SnapshotBudget + 1 \in Nat /\ d + g \in Nat
  BY ReconciliationAssumption
<1>3. (d + 1) + g = (d + g) + 1 /\ d + (g + 1) = (d + g) + 1
  OBVIOUS
<1>4. (d + g) * (SnapshotBudget + 1) \in Nat
  BY <1>1, <1>2
<1>5. ((d + g) + 1) * (SnapshotBudget + 1) = (d + g) * (SnapshotBudget + 1) + SnapshotBudget + 1
  <2>1. ((d + g) + 1) * (SnapshotBudget + 1) = (d + g) * (SnapshotBudget + 1) + (SnapshotBudget + 1)
    BY <1>1, <1>2
  <2> QED
    BY <2>1, <1>4, ReconciliationAssumption
<1> QED
  BY <1>3, <1>4, <1>5 DEF Allowance

LEMMA PatienceInit == Init => PatienceInv
<1> SUFFICES ASSUME Init PROVE PatienceInv
  OBVIOUS
<1>1. CountType
  BY ReconciliationAssumption DEF Init, CountType
<1>2. \A v \in Venues : Explained(v)
  BY AllowanceGrows DEF Init, Explained
<1> QED
  BY <1>1, <1>2 DEF PatienceInv

\* What apply_decision makes of the counts of the venue.
LEMMA ApplyCounts ==
  ASSUME PatienceInv, NEW v \in Venues, NEW class \in Classes, NEW q \in BOOLEAN,
         Apply(v, class, q)
  PROVE  /\ quarantined' \in [Venues -> BOOLEAN]
         /\ drifts' \in [Venues -> 0..DriftBudget]
         /\ gaps' \in [Venues -> 0..GapBudget]
         /\ q => quarantined'[v]
         /\ ~quarantined'[v] =>
              /\ class = "ORDER" => drifts'[v] = drifts[v] + 1 /\ gaps'[v] = gaps[v]
              /\ class = "FILL_GAP" => drifts'[v] = drifts[v] /\ gaps'[v] = gaps[v] + 1
              /\ class = "NONE" => drifts'[v] = drifts[v] /\ gaps'[v] = gaps[v]
         /\ \A u \in Venues \ {v} : drifts'[u] = drifts[u] /\ gaps'[u] = gaps[u]
<1> DEFINE drift == drifts[v] + (IF class = "ORDER" THEN 1 ELSE 0)
           gap == gaps[v] + (IF class = "FILL_GAP" THEN 1 ELSE 0)
           out == q \/ drift > DriftBudget \/ gap > GapBudget
<1>1. /\ drift \in Nat /\ gap \in Nat /\ out \in BOOLEAN
      /\ drifts[v] \in Nat /\ gaps[v] \in Nat
      /\ DriftBudget \in Nat /\ GapBudget \in Nat
  BY ReconciliationAssumption DEF PatienceInv, CountType
<1>2. /\ quarantined' = [quarantined EXCEPT ![v] = out]
      /\ drifts' = [drifts EXCEPT ![v] = IF out THEN 0 ELSE drift]
      /\ gaps' = [gaps EXCEPT ![v] = IF out THEN 0 ELSE gap]
  BY DEF Apply
<1>3. /\ ~out => drift <= DriftBudget /\ gap <= GapBudget
      /\ class = "ORDER" => drift = drifts[v] + 1 /\ gap = gaps[v]
      /\ class = "FILL_GAP" => drift = drifts[v] /\ gap = gaps[v] + 1
      /\ class = "NONE" => drift = drifts[v] /\ gap = gaps[v]
      /\ q => out
  BY <1>1 DEF Classes
<1> HIDE DEF drift, gap, out
<1> QED
  BY <1>1, <1>2, <1>3 DEF PatienceInv, CountType

\* A visit the venue failed: it is quarantined and its counts start again, or one
\* of them is higher.
LEMMA ApplyKeepsPatience ==
  ASSUME PatienceInv, NEW v \in Venues, NEW class \in Classes, NEW q \in BOOLEAN,
         Apply(v, class, q), Tried(v),
         fails' \in [Venues -> 0..SnapshotBudget],
         \A u \in Venues \ {v} : fails'[u] = fails[u],
         quarantined'[v] \/ class # "NONE" \/ fails'[v] = fails[v] + 1
  PROVE  PatienceInv'
<1>1. /\ drifts[v] \in Nat /\ gaps[v] \in Nat /\ patience[v] \in Nat
      /\ fails[v] \in Nat /\ fails[v] <= SnapshotBudget /\ SnapshotBudget \in Nat
      /\ fails'[v] \in Nat /\ drifts'[v] \in Nat /\ gaps'[v] \in Nat
  BY ApplyCounts, ReconciliationAssumption DEF PatienceInv, CountType
<1>2. /\ patience' \in [Venues -> Nat]
      /\ patience'[v] = IF quarantined'[v] THEN 0 ELSE patience[v] + 1
      /\ \A u \in Venues \ {v} : patience'[u] = patience[u]
  BY DEF Tried, PatienceInv, CountType
<1>3. CountType'
  BY <1>2, ApplyCounts DEF CountType
<1>4. Explained(v)'
  <2> DEFINE a == Allowance(drifts[v], gaps[v])
             b == Allowance(drifts'[v], gaps'[v])
  <2>1. a \in Nat /\ b \in Nat /\ patience[v] <= a + fails[v]
    BY <1>1, AllowanceGrows DEF PatienceInv, Explained
  <2>2. CASE quarantined'[v]
    BY <1>1, <1>2, <2>1, <2>2 DEF Explained
  <2>3. CASE ~quarantined'[v] /\ class # "NONE"
    <3>1. b = a + SnapshotBudget + 1
      <4>1. /\ Allowance(drifts[v] + 1, gaps[v]) = a + SnapshotBudget + 1
            /\ Allowance(drifts[v], gaps[v] + 1) = a + SnapshotBudget + 1
        BY <1>1, AllowanceGrows
      <4>2. CASE class = "ORDER"
        <5>1. drifts'[v] = drifts[v] + 1 /\ gaps'[v] = gaps[v]
          BY <2>3, <4>2, ApplyCounts
        <5> QED
          BY <4>1, <5>1
      <4>3. CASE class = "FILL_GAP"
        <5>1. drifts'[v] = drifts[v] /\ gaps'[v] = gaps[v] + 1
          BY <2>3, <4>3, ApplyCounts
        <5> QED
          BY <4>1, <5>1
      <4> QED
        BY <2>3, <4>2, <4>3 DEF Classes
    <3> HIDE DEF a, b
    <3>2. patience'[v] <= b + fails'[v]
      BY <1>1, <1>2, <2>1, <2>3, <3>1
    <3> QED
      BY <3>2 DEF Explained, b
  <2>4. CASE ~quarantined'[v] /\ class = "NONE"
    <3>1. drifts'[v] = drifts[v] /\ gaps'[v] = gaps[v] /\ fails'[v] = fails[v] + 1
      BY <2>4, ApplyCounts
    <3>2. b = a
      BY <3>1
    <3> HIDE DEF a, b
    <3>3. patience'[v] <= b + fails'[v]
      BY <1>1, <1>2, <2>1, <2>4, <3>1, <3>2
    <3> QED
      BY <3>3 DEF Explained, b
  <2> QED
    BY <2>2, <2>3, <2>4
<1>5. ASSUME NEW u \in Venues \ {v} PROVE Explained(u)'
  <2>1. /\ drifts'[u] = drifts[u] /\ gaps'[u] = gaps[u] /\ fails'[u] = fails[u]
        /\ patience'[u] = patience[u]
    BY <1>2, ApplyCounts
  <2> QED
    BY <2>1 DEF PatienceInv, Explained
<1> QED
  BY <1>3, <1>4, <1>5 DEF PatienceInv

LEMMA FailsKeepsPatience ==
  ASSUME PatienceInv, NEW v \in Venues, NEW res \in fetch_reconciliation_snapshot, Fails(v, res)
  PROVE  PatienceInv'
<1>1. PICK class \in Classes, garbage \in BOOLEAN :
        Apply(v, class, garbage \/ res = "AUTH_FAILED" \/ fails[v] + 1 > SnapshotBudget)
  BY DEF Fails
<1> DEFINE q == garbage \/ res = "AUTH_FAILED" \/ fails[v] + 1 > SnapshotBudget
<1>2. q \in BOOLEAN /\ Apply(v, class, q)
  BY <1>1
<1>3. q => quarantined'[v]
  BY <1>2, ApplyCounts
<1>4. fails' = [fails EXCEPT ![v] = IF quarantined'[v] THEN 0 ELSE @ + 1] /\ Tried(v)
  BY DEF Fails
<1>5. fails' \in [Venues -> 0..SnapshotBudget]
  <2>1. ~quarantined'[v] => fails[v] + 1 \in 0..SnapshotBudget
    BY <1>3, ReconciliationAssumption DEF PatienceInv, CountType
  <2> QED
    BY <1>4, <2>1, ReconciliationAssumption DEF PatienceInv, CountType
<1>6. \A u \in Venues \ {v} : fails'[u] = fails[u]
  BY <1>4 DEF PatienceInv, CountType
<1>7. quarantined'[v] \/ fails'[v] = fails[v] + 1
  BY <1>4 DEF PatienceInv, CountType
<1> HIDE DEF q
<1> QED
  BY <1>2, <1>4, <1>5, <1>6, <1>7, ApplyKeepsPatience

\* What a visit leaves of the counts when the snapshot arrived.
LEMMA FetchedCounts ==
  ASSUME PatienceInv, NEW v \in Venues, Fetched(v)
  PROVE  /\ fails' \in [Venues -> 0..SnapshotBudget] /\ fails'[v] = 0
         /\ \A u \in Venues \ {v} : fails'[u] = fails[u]
BY ReconciliationAssumption DEF PatienceInv, CountType, Fetched

LEMMA JudgedKeepsPatience ==
  ASSUME PatienceInv, NEW v \in Venues, Condemned(v) \/ Drifted(v) \/ fill_gap_detected(v)
  PROVE  PatienceInv'
<1>1. CASE Condemned(v)
  <2>1. Fetched(v) /\ Apply(v, "NONE", TRUE) /\ Tried(v) /\ "NONE" \in Classes
    BY <1>1 DEF Condemned, Classes
  <2>2. quarantined'[v]
    BY <2>1, ApplyCounts
  <2> QED
    BY <2>1, <2>2, FetchedCounts, ApplyKeepsPatience
<1>2. ASSUME NEW class \in {"ORDER", "FILL_GAP"}, Differs(v, class) PROVE PatienceInv'
  <2>1. PICK garbage \in BOOLEAN : Apply(v, class, garbage)
    BY <1>2 DEF Differs
  <2>2. Fetched(v) /\ Tried(v) /\ class \in Classes /\ class # "NONE"
    BY <1>2 DEF Differs, Classes
  <2> QED
    BY <2>1, <2>2, FetchedCounts, ApplyKeepsPatience
<1> QED
  BY <1>1, <1>2 DEF Drifted, fill_gap_detected

\* A visit that found nothing wrong: patience with the venue starts again,
\* whatever became of its counts.
LEMMA FaultlessKeepsPatience ==
  ASSUME PatienceInv, NEW v \in Venues, Fetched(v),
         CountType', patience'[v] = 0,
         \A u \in Venues \ {v} : /\ drifts'[u] = drifts[u] /\ gaps'[u] = gaps[u]
                                 /\ patience'[u] = patience[u]
  PROVE  PatienceInv'
<1>1. Explained(v)'
  <2>1. drifts'[v] \in Nat /\ gaps'[v] \in Nat /\ fails'[v] \in Nat
    BY ReconciliationAssumption DEF CountType
  <2>2. Allowance(drifts'[v], gaps'[v]) \in Nat
    BY <2>1, AllowanceGrows
  <2> QED
    BY <2>1, <2>2 DEF Explained
<1>2. ASSUME NEW u \in Venues \ {v} PROVE Explained(u)'
  <2>1. fails'[u] = fails[u]
    BY FetchedCounts
  <2> QED
    BY <2>1 DEF PatienceInv, Explained
<1> QED
  BY <1>1, <1>2 DEF PatienceInv

LEMMA SpuriousKeepsPatience ==
  ASSUME PatienceInv, NEW v \in Venues, Spurious(v)
  PROVE  PatienceInv'
<1>1. PICK class \in Classes, garbage \in BOOLEAN : Apply(v, class, garbage)
  BY DEF Spurious
<1>2. Fetched(v) /\ patience' = [patience EXCEPT ![v] = 0]
  BY DEF Spurious
<1>3. /\ patience' \in [Venues -> Nat] /\ patience'[v] = 0
      /\ \A u \in Venues \ {v} : patience'[u] = patience[u]
  BY <1>2 DEF PatienceInv, CountType
<1>4. CountType'
  BY <1>1, <1>2, <1>3, ApplyCounts, FetchedCounts DEF CountType
<1> QED
  BY <1>1, <1>2, <1>3, <1>4, ApplyCounts, FaultlessKeepsPatience

LEMMA AcceptedKeepsPatience ==
  ASSUME PatienceInv, NEW v \in Venues, Accepted(v)
  PROVE  PatienceInv'
<1>1. Fetched(v)
  BY DEF Accepted
<1>2. CountType'
  BY <1>1, FetchedCounts, ReconciliationAssumption DEF Accepted, PatienceInv, CountType
<1>3. /\ patience'[v] = 0
      /\ \A u \in Venues \ {v} : /\ drifts'[u] = drifts[u] /\ gaps'[u] = gaps[u]
                                 /\ patience'[u] = patience[u]
  BY DEF Accepted, PatienceInv, CountType
<1> QED
  BY <1>1, <1>2, <1>3, FaultlessKeepsPatience

LEMMA PatienceStep == PatienceInv /\ [Next]_vars => PatienceInv'
<1> SUFFICES ASSUME PatienceInv, [Next]_vars PROVE PatienceInv'
  OBVIOUS
<1>1. ASSUME NEW v \in Venues, VisitStep(v), ~Skip(v) PROVE PatienceInv'
  BY <1>1, FailsKeepsPatience, JudgedKeepsPatience, SpuriousKeepsPatience, AcceptedKeepsPatience
     DEF VisitStep
<1>2. CASE UNCHANGED <<quarantined, fails, drifts, gaps, patience>>
  BY <1>2 DEF PatienceInv, CountType, Explained, Allowance
<1>3. ASSUME \/ Reconnect \/ Periodic \/ CycleEnds \/ UNCHANGED vars
             \/ \E v \in Venues : Trade(v) \/ Skip(v)
      PROVE  UNCHANGED <<quarantined, fails, drifts, gaps, patience>>
  BY <1>3 DEF Reconnect, Periodic, CycleEnds, Trade, Skip, checks, vars
<1> QED
  BY <1>1, <1>2, <1>3 DEF Next, Cycle

\* Whatever the mix of failures, a venue that is found at fault visit after visit
\* is quarantined after a bounded number of them: for all venues and budgets
\* (reconciliation_service.hpp:229 and :272).
THEOREM PatienceIsBounded == Spec => []BoundedPatience
<1>1. PatienceInv => BoundedPatience
  <2> SUFFICES ASSUME PatienceInv, NEW v \in Venues
               PROVE  patience[v] <= (DriftBudget + GapBudget) * (SnapshotBudget + 1) + SnapshotBudget
    BY DEF BoundedPatience
  <2> DEFINE n == drifts[v] + gaps[v]
             top == DriftBudget + GapBudget
             k == SnapshotBudget + 1
  <2>1. /\ n \in Nat /\ top \in Nat /\ k \in Nat /\ n <= top
        /\ fails[v] \in 0..SnapshotBudget /\ patience[v] \in Nat /\ SnapshotBudget \in Nat
    BY ReconciliationAssumption DEF PatienceInv, CountType
  <2>2. patience[v] <= n * k + fails[v]
    BY DEF PatienceInv, Explained, Allowance
  <2>3. \A x, y, z \in Nat : x <= y => x * z <= y * z /\ x * z \in Nat /\ y * z \in Nat
    OBVIOUS
  <2> HIDE DEF n, top, k
  <2>4. n * k <= top * k /\ n * k \in Nat /\ top * k \in Nat
    BY <2>1, <2>3
  <2>5. patience[v] <= top * k + SnapshotBudget
    BY <2>1, <2>2, <2>4
  <2> QED
    BY <2>5 DEF top, k
<1> QED
  BY <1>1, PatienceInit, PatienceStep, PTL DEF Spec

-----------------------------------------------------------------------------
(* Fees *)

\* What the accounting knows of a venue whose trades 1..n may have been listed,
\* ingested of them: it has forgotten none that a list can still hold, and of two
\* fills it remembers the one that came first is less than a list newer.
Remembers(book, taken, n) ==
  /\ book \in [fees : Nat, seen : Seq(Nat)]
  /\ Len(book.seen) <= Remembered
  /\ \A i, j \in 1..Len(book.seen) : i < j =>
       book.seen[i] # book.seen[j] /\ book.seen[i] < book.seen[j] + Window
  /\ \A i \in 1..Len(book.seen) : book.seen[i] \in taken
  /\ taken \subseteq 1..n
  /\ \A x \in taken : x > n - Window => x \in ToSet(book.seen)
  /\ IsFiniteSet(taken) /\ book.fees = Cardinality(taken)

\* The trades made since do not change that.
LEMMA RemembersLater ==
  ASSUME NEW book, NEW taken, NEW n \in Nat, NEW m \in Nat, n <= m, Remembers(book, taken, n)
  PROVE  Remembers(book, taken, m)
<1>1. taken \subseteq 1..m
  BY DEF Remembers
<1>2. ASSUME NEW x \in taken, x > m - Window PROVE x \in ToSet(book.seen)
  <2>1. x \in Nat /\ x > n - Window
    BY <1>1, <1>2, ReconciliationAssumption
  <2> QED
    BY <2>1 DEF Remembers
<1> QED
  BY <1>1, <1>2 DEF Remembers

\* The ring gives up a fill only when no list can hold it any more: what it
\* remembers since, and the new fill, are as many trades as it has places, all
\* different and less than a list older than the one it gives up.
LEMMA OldestIsOut ==
  ASSUME NEW s \in Seq(Nat), Len(s) = Remembered, NEW n \in Nat, NEW y \in 1..n,
         y > n - Window, Len(s) > 0,
         \A i \in 1..Len(s) : s[i] <= n /\ s[i] # y,
         \A i, j \in 1..Len(s) : i < j => s[i] # s[j] /\ s[i] < s[j] + Window
  PROVE  s[1] <= n - Window
<1>0. 1 \in 1..Len(s) /\ s[1] \in Nat /\ n - Window \in Int
  BY ReconciliationAssumption
<1> SUFFICES ASSUME s[1] > n - Window PROVE FALSE
  BY <1>0
<1> DEFINE x == s[1]
           S == 1..Remembered
           I == (x - Window + 1)..n
           f == [j \in S |-> IF j < Remembered THEN s[j + 1] ELSE y]
<1>1. /\ Remembered \in Nat /\ Remembered >= 2 * Window - 1 /\ Window \in Nat \ {0} /\ 1 \in 1..Len(s)
      /\ x \in Nat /\ x <= n /\ x > n - Window /\ Len(s) = Remembered
  BY ReconciliationAssumption
<1>2. IsFiniteSet(S) /\ Cardinality(S) = Remembered
  BY <1>1, FS_Interval
<1>3. IsFiniteSet(I) /\ Cardinality(I) = n - x + Window
  <2>1. x - Window + 1 \in Int /\ n \in Int /\ ~(x - Window + 1 > n) /\ n - (x - Window + 1) + 1 = n - x + Window
    BY <1>1
  <2> QED
    BY <2>1, FS_Interval
<1>4. IsFiniteSet(I \ {x}) /\ Cardinality(I \ {x}) = Cardinality(I) - 1
  <2>1. x \in I
    BY <1>1
  <2> HIDE DEF I, x
  <2> QED
    BY ONLY <1>3, <2>1, FS_RemoveElement
<1>5. Cardinality(I \ {x}) < Cardinality(S)
  BY <1>1, <1>2, <1>3, <1>4
<1>6. ASSUME NEW j \in S PROVE f[j] \in I \ {x}
  <2>1. CASE j < Remembered
    <3>1. j + 1 \in 1..Len(s) /\ 1 < j + 1
      BY <1>1, <2>1
    <3>2. s[j + 1] \in Nat /\ s[j + 1] <= n /\ x # s[j + 1] /\ x < s[j + 1] + Window
      BY <1>1, <3>1
    <3> QED
      BY <1>1, <2>1, <3>2
  <2>2. CASE ~(j < Remembered)
    BY <1>1, <2>2
  <2> QED
    BY <2>1, <2>2
<1>7. f \in [S -> I \ {x}]
  BY <1>6
<1>8. ASSUME NEW i \in S, NEW j \in S, i < j PROVE f[i] # f[j]
  <2>1. i < Remembered /\ i + 1 \in 1..Len(s) /\ f[i] = s[i + 1]
    BY <1>1, <1>8
  <2>2. CASE j < Remembered
    <3>1. j + 1 \in 1..Len(s) /\ i + 1 < j + 1 /\ f[j] = s[j + 1]
      BY <1>1, <1>8, <2>2
    <3> QED
      BY <2>1, <3>1
  <2>3. CASE ~(j < Remembered)
    BY <2>1, <2>3
  <2> QED
    BY <2>2, <2>3
<1>9. PICK i, j \in S : i # j /\ f[i] = f[j]
  <2> HIDE DEF S, I, f, x
  <2> QED
    BY <1>2, <1>4, <1>5, <1>7, FS_PigeonHole
<1> QED
  BY <1>8, <1>9

LEMMA RememberIs ==
  ASSUME NEW s \in Seq(Nat), NEW y \in Nat, Len(s) <= Remembered
  PROVE  LET r == Remember(s, y)
             d == IF Len(s) < Remembered THEN 0 ELSE 1
         IN  /\ r \in Seq(Nat) /\ Len(r) = Len(s) + 1 - d
             /\ \A i \in 1..Len(r) : IF i < Len(r) THEN i + d \in 1..Len(s) /\ r[i] = s[i + d] ELSE r[i] = y
<1>1. Remembered \in Nat /\ Remembered > 0
  BY ReconciliationAssumption
<1>2. CASE Len(s) < Remembered
  BY <1>1, <1>2 DEF Remember
<1>3. CASE ~(Len(s) < Remembered)
  <2>1. s # << >> /\ Tail(s) \in Seq(Nat) /\ Len(Tail(s)) = Len(s) - 1 /\ Len(s) \in Nat \ {0}
    BY <1>1, <1>3
  <2>2. \A i \in 1..(Len(s) - 1) : Tail(s)[i] = s[i + 1]
    BY <2>1
  <2>3. PICK t \in Seq(Nat) : t = Tail(s)
    BY <2>1
  <2>4. Remember(s, y) = Append(t, y)
    BY <1>3, <2>3 DEF Remember
  <2>5. /\ Append(t, y) \in Seq(Nat) /\ Len(Append(t, y)) = Len(t) + 1
        /\ \A i \in 1..Len(t) : Append(t, y)[i] = t[i]
        /\ Append(t, y)[Len(t) + 1] = y
    OBVIOUS
  <2> DEFINE r == Append(t, y)
  <2>6. r \in Seq(Nat) /\ Len(r) = Len(s) /\ r[Len(r)] = y
    BY <2>1, <2>3, <2>5
  <2>7. ASSUME NEW i \in 1..Len(r), i < Len(r) PROVE i + 1 \in 1..Len(s) /\ r[i] = s[i + 1]
    BY <2>1, <2>2, <2>3, <2>5, <2>6, <2>7
  <2> HIDE DEF r
  <2>8. Remember(s, y) = r
    BY <2>4 DEF r
  <2>9. /\ r \in Seq(Nat) /\ Len(r) = Len(s) + 1 - 1
        /\ \A i \in 1..Len(r) : IF i < Len(r) THEN i + 1 \in 1..Len(s) /\ r[i] = s[i + 1] ELSE r[i] = y
    <3>1. ASSUME NEW i \in 1..Len(r)
          PROVE  IF i < Len(r) THEN i + 1 \in 1..Len(s) /\ r[i] = s[i + 1] ELSE r[i] = y
      <4>1. CASE i < Len(r)
        BY <2>7, <4>1
      <4>2. CASE ~(i < Len(r))
        <5>1. i = Len(r)
          <6>1. Len(r) \in Nat
            BY <2>1, <2>6
          <6> QED
            BY <4>2, <6>1
        <5> QED
          BY <2>6, <4>2, <5>1
      <4> QED
        BY <4>1, <4>2
    <3>2. Len(r) = Len(s) + 1 - 1
      BY <2>1, <2>6
    <3> QED
      BY <2>6, <3>1, <3>2
  <2> QED
    BY <1>3, <2>8, <2>9
<1> QED
  BY <1>2, <1>3

\* A listed fill is counted once, and remembered.
LEMMA CountedKeeps ==
  ASSUME NEW b, NEW taken, NEW n \in Nat, Remembers(b, taken, n), NEW y \in 1..n, y > n - Window
  PROVE  Remembers(Counted(b, y), taken \cup {y}, n)
<1>1. CASE y \in ToSet(b.seen)
  <2>1. y \in taken
    <3>1. PICK i \in DOMAIN b.seen : b.seen[i] = y
      BY <1>1 DEF ToSet
    <3>2. b.seen \in Seq(Nat)
      BY DEF Remembers
    <3>3. i \in 1..Len(b.seen)
      BY <3>2
    <3> QED
      BY <3>1, <3>3 DEF Remembers
  <2>2. Counted(b, y) = b /\ taken \cup {y} = taken
    BY <1>1, <2>1 DEF Counted
  <2> QED
    BY <2>2
<1>2. CASE y \notin ToSet(b.seen)
  <2>1. PICK s \in Seq(Nat) : s = b.seen
    BY DEF Remembers
  <2>2. /\ Len(s) <= Remembered /\ taken \subseteq 1..n /\ b.fees \in Nat
        /\ \A i, j \in 1..Len(s) : i < j => s[i] # s[j] /\ s[i] < s[j] + Window
        /\ \A i \in 1..Len(s) : s[i] \in taken
        /\ \A x \in taken : x > n - Window => x \in ToSet(s)
        /\ IsFiniteSet(taken) /\ b.fees = Cardinality(taken)
    BY <2>1 DEF Remembers
  <2>3. y \notin taken /\ y \in Nat
    BY <1>2, <2>1, <2>2
  <2> DEFINE r == Remember(s, y)
             d == IF Len(s) < Remembered THEN 0 ELSE 1
  <2>4. /\ d = IF Len(s) < Remembered THEN 0 ELSE 1
        /\ r \in Seq(Nat) /\ Len(r) = Len(s) + 1 - d
        /\ \A i \in 1..Len(r) : IF i < Len(r) THEN i + d \in 1..Len(s) /\ r[i] = s[i + d] ELSE r[i] = y
    BY <2>2, <2>3, RememberIs
  <2> HIDE DEF r, d
  <2>5. d \in {0, 1} /\ Len(r) \in Nat /\ Len(s) \in Nat /\ Len(r) <= Remembered /\ Len(r) > 0
        /\ Window \in Nat /\ Remembered \in Nat
    BY <2>2, <2>4, ReconciliationAssumption
  <2>6. \A i \in 1..Len(s) : s[i] \in Nat /\ s[i] <= n /\ s[i] # y
    BY <2>2, <2>3
  <2>7. d = 1 => s[1] <= n - Window
    <3>1. d = 1 => Len(s) = Remembered /\ Len(s) > 0
      BY <2>2, <2>4, <2>5, ReconciliationAssumption
    <3> QED
      BY <2>2, <2>6, <3>1, OldestIsOut
  <2>8. ASSUME NEW i \in 1..Len(r), NEW j \in 1..Len(r), i < j
        PROVE  r[i] # r[j] /\ r[i] < r[j] + Window
    <3>1. i + d \in 1..Len(s) /\ r[i] = s[i + d]
      BY <2>4, <2>5, <2>8
    <3>2. CASE j < Len(r)
      <4>1. j + d \in 1..Len(s) /\ r[j] = s[j + d] /\ i + d < j + d
        BY <2>4, <2>5, <2>8, <3>2
      <4> QED
        BY <2>2, <3>1, <4>1
    <3>3. CASE ~(j < Len(r))
      <4>1. r[j] = y
        BY <2>4, <3>3
      <4> QED
        BY <2>5, <2>6, <3>1, <4>1
    <3> QED
      BY <3>2, <3>3
  <2>9. \A i \in 1..Len(r) : r[i] \in taken \cup {y}
    BY <2>2, <2>4, <2>5
  <2>10. ASSUME NEW x \in taken \cup {y}, x > n - Window PROVE x \in ToSet(r)
    <3>1. DOMAIN r = 1..Len(r) /\ DOMAIN s = 1..Len(s)
      BY <2>4
    <3>2. CASE x = y
      <4>1. Len(r) \in 1..Len(r) /\ r[Len(r)] = y
        BY <2>4, <2>5
      <4> QED
        BY <3>1, <3>2, <4>1 DEF ToSet
    <3>3. CASE x # y
      <4>1. PICK i \in 1..Len(s) : s[i] = x
        BY <2>2, <2>10, <3>1, <3>3 DEF ToSet
      <4>2. d = 1 => i # 1
        BY <2>5, <2>6, <2>7, <2>10, <4>1
      <4>3. i - d \in 1..Len(r) /\ i - d < Len(r) /\ (i - d) + d = i
        BY <2>4, <2>5, <4>2
      <4>4. r[i - d] = x
        BY <2>4, <4>1, <4>3
      <4> QED
        BY <3>1, <4>3, <4>4 DEF ToSet
    <3> QED
      BY <3>2, <3>3
  <2>11. IsFiniteSet(taken \cup {y}) /\ b.fees + 1 = Cardinality(taken \cup {y})
    BY <2>2, <2>3, FS_AddElement
  <2>12. PICK c : c = Counted(b, y)
    OBVIOUS
  <2>13. c \in [fees : Nat, seen : Seq(Nat)] /\ c.fees = b.fees + 1 /\ c.seen = r
    BY <1>2, <2>1, <2>2, <2>4, <2>12 DEF Counted, r
  <2>14. Remembers(c, taken \cup {y}, n)
    BY <2>2, <2>5, <2>8, <2>9, <2>10, <2>11, <2>13 DEF Remembers
  <2> QED
    BY <2>12, <2>14
<1> QED
  BY <1>1, <1>2

\* A snapshot of n trades lists the last of them, in one order or the other.
LEMMA ListedIs ==
  ASSUME NEW n \in Nat
  PROVE  /\ Listed(n) \in Seq(Nat)
         /\ \A i \in 1..Len(Listed(n)) : Listed(n)[i] \in 1..n /\ Listed(n)[i] > n - Window
<1> DEFINE first == IF n > Window THEN n - Window ELSE 0
           c == n - first
           fills == [i \in 1..c |-> first + i]
<1>1. first \in Nat /\ c \in Nat /\ first <= n /\ first + c = n /\ first >= n - Window /\ Window \in Nat
  BY ReconciliationAssumption
<1> HIDE DEF first, c
<1>2. fills \in Seq(Nat) /\ Len(fills) = c /\ \A i \in 1..c : fills[i] \in 1..n /\ fills[i] > n - Window
  BY <1>1
<1>3. Listed(n) = IF newestFirst THEN Reverse(fills) ELSE fills
  BY DEF Listed, first, c
<1> HIDE DEF fills
<1>4. PICK r : r = [i \in 1..Len(fills) |-> fills[(Len(fills) - i) + 1]]
  OBVIOUS
<1>5. \A i \in 1..c : (c - i) + 1 \in 1..c
  BY <1>1
<1>6. r \in Seq(Nat) /\ Len(r) = c /\ \A i \in 1..c : r[i] \in 1..n /\ r[i] > n - Window
  BY <1>1, <1>2, <1>4, <1>5
<1>7. Reverse(fills) = r
  BY <1>4 DEF Reverse
<1> QED
  BY <1>2, <1>3, <1>6, <1>7

\* A set of natural numbers has a smallest element.
LEMMA Smallest ==
  ASSUME NEW T, T \subseteq Nat, T # {}
  PROVE  \E m \in T : \A y \in T : m <= y
<1>1. PICK m \in T : \A y \in T : ~(<<y, m>> \in OpToRel(<, Nat))
  BY NatLessThanWellFounded, WFMin
<1>2. ASSUME NEW y \in T, ~(m <= y) PROVE FALSE
  <2>1. y \in Nat /\ m \in Nat /\ y < m
    BY <1>2
  <2> QED
    BY <1>1, <2>1 DEF OpToRel
<1> QED
  BY <1>2

\* What holds of 0, and of each number after one it holds of, holds up to n.
LEMMA Climb ==
  ASSUME NEW n \in Nat, NEW G, 0 \in G, \A k \in 1..n : k - 1 \in G => k \in G
  PROVE  \A k \in 0..n : k \in G
<1> SUFFICES ASSUME NEW k \in 0..n, k \notin G PROVE FALSE
  OBVIOUS
<1> DEFINE Bad == {i \in 0..n : i \notin G}
<1>1. Bad \subseteq Nat /\ Bad # {}
  OBVIOUS
<1> HIDE DEF Bad
<1>2. PICK m \in Bad : \A y \in Bad : m <= y
  BY <1>1, Smallest
<1>3. m \in 0..n /\ m \notin G /\ m # 0
  BY DEF Bad
<1>4. m - 1 \in 0..n /\ m - 1 \in G
  BY <1>2, <1>3 DEF Bad
<1> QED
  BY <1>3, <1>4

\* after is what is collected of the fills, one by one.
IsCollection(after, book, fills, k) ==
  after = [i \in 0..k |-> IF i = 0 THEN book ELSE Counted(after[i - 1], fills[i])]

LEMMA CollectionExists ==
  ASSUME NEW book, NEW fills, NEW n \in Nat
  PROVE  \E after : IsCollection(after, book, fills, n)
<1> DEFINE G == {k \in 0..n : \E after : IsCollection(after, book, fills, k)}
<1>1. 0 \in G
  <2>1. IsCollection([k \in 0..0 |-> book], book, fills, 0)
    <3>1. \A k \in 0..0 : k = 0
      OBVIOUS
    <3> QED
      BY <3>1 DEF IsCollection
  <2> QED
    BY <2>1
<1>2. ASSUME NEW k \in 1..n, k - 1 \in G PROVE k \in G
  <2>1. PICK f : IsCollection(f, book, fills, k - 1)
    BY <1>2
  <2> DEFINE g == [i \in 0..k |-> IF i = k THEN Counted(f[k - 1], fills[k]) ELSE f[i]]
  <2>2. ASSUME NEW i \in 0..k PROVE g[i] = IF i = 0 THEN book ELSE Counted(g[i - 1], fills[i])
    <3>1. CASE i = k
      <4>1. k - 1 \in 0..k /\ k - 1 # k /\ i # 0
        BY <3>1
      <4> QED
        BY <3>1, <4>1
    <3>2. CASE i # k
      <4>1. i \in 0..(k - 1) /\ g[i] = f[i]
        BY <3>2
      <4>2. f[i] = IF i = 0 THEN book ELSE Counted(f[i - 1], fills[i])
        BY <2>1, <4>1 DEF IsCollection
      <4>3. i # 0 => g[i - 1] = f[i - 1]
        BY <4>1
      <4> QED
        BY <4>1, <4>2, <4>3
    <3> QED
      BY <3>1, <3>2
  <2>3. g = [i \in 0..k |-> g[i]]
    OBVIOUS
  <2> HIDE DEF g
  <2>4. [i \in 0..k |-> g[i]] = [i \in 0..k |-> IF i = 0 THEN book ELSE Counted(g[i - 1], fills[i])]
    BY <2>2
  <2>5. g = [i \in 0..k |-> IF i = 0 THEN book ELSE Counted(g[i - 1], fills[i])]
    BY <2>3, <2>4
  <2>6. IsCollection(g, book, fills, k)
    BY <2>5 DEF IsCollection
  <2> QED
    BY <2>6
<1> HIDE DEF G
<1>3. n \in G
  BY <1>1, <1>2, Climb
<1> QED
  BY <1>3 DEF G

\* A snapshot is taken in: each trade it lists is counted, if it was not before.
LEMMA CollectedKeeps ==
  ASSUME NEW book, NEW taken, NEW n \in Nat, Remembers(book, taken, n)
  PROVE  Remembers(Collected(book, n), taken \cup ToSet(Listed(n)), n)
<1>1. PICK fills \in Seq(Nat) : /\ fills = Listed(n)
                                /\ \A i \in 1..Len(fills) : fills[i] \in 1..n /\ fills[i] > n - Window
  BY ListedIs
<1>2. PICK k \in Nat : k = Len(fills)
  BY <1>1
<1>3. PICK some : IsCollection(some, book, fills, Len(fills))
  BY <1>2, CollectionExists
<1>4. PICK after : /\ after = [i \in 0..Len(fills) |->
                                 IF i = 0 THEN book ELSE Counted(after[i - 1], fills[i])]
                   /\ Collected(book, n) = after[Len(fills)]
  <2>1. \E f : f = [i \in 0..Len(fills) |-> IF i = 0 THEN book ELSE Counted(f[i - 1], fills[i])]
    BY <1>3 DEF IsCollection
  <2> QED
    BY <1>1, <2>1 DEF Collected
<1>5. \A i \in 0..k : after[i] = IF i = 0 THEN book ELSE Counted(after[i - 1], fills[i])
  BY <1>2, <1>4
<1> DEFINE T(i) == taken \cup {fills[j] : j \in 1..i}
           G == {i \in 0..k : Remembers(after[i], T(i), n)}
<1>6. 0 \in G
  <2>1. after[0] = book /\ T(0) = taken
    BY <1>5
  <2> HIDE DEF T
  <2> QED
    BY <2>1
<1>7. ASSUME NEW i \in 1..k, i - 1 \in G PROVE i \in G
  <2>1. after[i] = Counted(after[i - 1], fills[i])
    BY <1>5
  <2>2. T(i) = T(i - 1) \cup {fills[i]}
    OBVIOUS
  <2>3. fills[i] \in 1..n /\ fills[i] > n - Window
    BY <1>1, <1>2
  <2> HIDE DEF T
  <2>4. Remembers(after[i - 1], T(i - 1), n)
    BY <1>7
  <2>5. Remembers(Counted(after[i - 1], fills[i]), T(i - 1) \cup {fills[i]}, n)
    BY <2>3, <2>4, CountedKeeps
  <2>6. Remembers(after[i], T(i), n)
    BY ONLY <2>1, <2>2, <2>5
  <2> QED
    BY <2>6
<1>8. T(k) = taken \cup ToSet(Listed(n))
  BY <1>1, <1>2 DEF ToSet
<1> HIDE DEF T, G
<1>9. k \in G
  <2>1. \A i \in 1..k : i - 1 \in G => i \in G
    BY <1>7
  <2>2. \A i \in 0..k : i \in G
    BY <1>6, <2>1, Climb
  <2> QED
    BY <2>2
<1> QED
  BY <1>2, <1>4, <1>8, <1>9 DEF G

-----------------------------------------------------------------------------
(* The accounting of every venue *)

\* The trades a snapshot covers; none covers none.
Covered(l) == IF l = none THEN 0 ELSE l

FeesInv ==
  /\ trades \in [Venues -> Nat]
  /\ latest \in [Venues -> Nat \cup {none}]
  /\ \A v \in Venues : latest[v] <= trades[v]
  /\ DOMAIN books = Venues /\ DOMAIN ingested = Venues
  /\ \A v \in Venues : Remembers(books[v], ingested[v], Covered(latest[v]))

LEMMA FeesInit == Init => FeesInv
<1> SUFFICES ASSUME Init PROVE FeesInv
  OBVIOUS
<1>1. /\ trades \in [Venues -> Nat] /\ latest \in [Venues -> Nat \cup {none}]
      /\ \A v \in Venues : trades[v] = 0 /\ latest[v] = none
      /\ DOMAIN books = Venues /\ DOMAIN ingested = Venues
      /\ \A v \in Venues : books[v] = [fees |-> 0, seen |-> << >>] /\ ingested[v] = {}
  BY DEF Init
<1>2. Remembers([fees |-> 0, seen |-> << >>], {}, 0)
  <2>1. IsFiniteSet({}) /\ Cardinality({}) = 0
    BY FS_EmptySet
  <2>2. [fees |-> 0, seen |-> << >>] \in [fees : Nat, seen : Seq(Nat)] /\ Len(<< >>) = 0
    OBVIOUS
  <2> QED
    BY <2>1, <2>2, ReconciliationAssumption DEF Remembers
<1>3. \A v \in Venues : latest[v] <= trades[v] /\ Covered(latest[v]) = 0
  BY <1>1 DEF none, Covered
<1> QED
  BY <1>1, <1>2, <1>3 DEF FeesInv

\* A snapshot arrives: it covers at least what the one before it did.
LEMMA FetchedKeepsFees ==
  ASSUME FeesInv, NEW v \in Venues, Fetched(v), UNCHANGED <<trades, books, ingested>>
  PROVE  FeesInv'
<1>1. PICK l : l = latest'
  OBVIOUS
<1>2. l = [latest EXCEPT ![v] = trades[v]]
  BY <1>1 DEF Fetched
<1>3. /\ l \in [Venues -> Nat \cup {none}]
      /\ \A u \in Venues : l[u] \in {latest[u], trades[u]} /\ l[u] <= trades[u]
  BY <1>2 DEF FeesInv
<1>4. ASSUME NEW u \in Venues PROVE Remembers(books[u], ingested[u], Covered(l[u]))
  <2>1. /\ trades[u] \in Nat /\ latest[u] \in Nat \cup {none} /\ latest[u] <= trades[u]
        /\ Remembers(books[u], ingested[u], Covered(latest[u]))
    BY DEF FeesInv
  <2>2. CASE l[u] = latest[u]
    BY <2>1, <2>2
  <2>3. CASE l[u] = trades[u]
    <3>1. Covered(latest[u]) \in Nat /\ Covered(l[u]) = trades[u] /\ Covered(latest[u]) <= trades[u]
      BY <2>1, <2>3 DEF Covered, none
    <3> QED
      BY <2>1, <3>1, RemembersLater
  <2> QED
    BY <1>3, <2>2, <2>3
<1> QED
  BY <1>1, <1>3, <1>4 DEF FeesInv

\* The accounting takes in the snapshots of a periodic cycle.
LEMMA CycleEndsKeepsFees ==
  ASSUME FeesInv, CycleEnds
  PROVE  FeesInv'
<1>1. PICK bs, is : bs = books' /\ is = ingested'
  OBVIOUS
<1>2. PICK F : F = {v \in Venues : ~cycle.reconnect /\ latest[v] # none}
  OBVIOUS
<1>3. /\ bs = [v \in Venues |-> IF v \in F THEN Collected(books[v], latest[v]) ELSE books[v]]
      /\ is = [v \in Venues |-> IF v \in F THEN ingested[v] \cup ToSet(Listed(latest[v])) ELSE ingested[v]]
      /\ UNCHANGED <<latest, trades>>
  BY <1>1, <1>2 DEF CycleEnds
<1>4. ASSUME NEW v \in Venues PROVE Remembers(bs[v], is[v], Covered(latest[v]))
  <2>1. Remembers(books[v], ingested[v], Covered(latest[v])) /\ latest[v] \in Nat \cup {none}
    BY DEF FeesInv
  <2>2. CASE v \in F
    <3>1. latest[v] \in Nat /\ Covered(latest[v]) = latest[v]
      BY <1>2, <2>1, <2>2 DEF Covered
    <3>2. bs[v] = Collected(books[v], latest[v]) /\ is[v] = ingested[v] \cup ToSet(Listed(latest[v]))
      BY <1>3, <2>2
    <3> QED
      BY <2>1, <3>1, <3>2, CollectedKeeps
  <2>3. CASE v \notin F
    BY <1>3, <2>1, <2>3
  <2> QED
    BY <2>2, <2>3
<1>5. DOMAIN bs = Venues /\ DOMAIN is = Venues
  BY <1>3
<1> QED
  BY <1>1, <1>3, <1>4, <1>5 DEF FeesInv

LEMMA FeesStep == FeesInv /\ [Next]_vars => FeesInv'
<1> SUFFICES ASSUME FeesInv, [Next]_vars PROVE FeesInv'
  OBVIOUS
<1>1. CASE CycleEnds
  BY <1>1, CycleEndsKeepsFees
<1>2. ASSUME NEW v \in Venues, Fetched(v), UNCHANGED <<trades, books, ingested>> PROVE FeesInv'
  BY <1>2, FetchedKeepsFees
<1>3. ASSUME NEW v \in Venues, Condemned(v) \/ Spurious(v) \/ Accepted(v) \/ Drifted(v) \/ fill_gap_detected(v)
      PROVE  FeesInv'
  BY <1>2, <1>3 DEF Condemned, Spurious, Accepted, Drifted, fill_gap_detected, Differs
<1>4. CASE UNCHANGED <<trades, latest, books, ingested>>
  BY <1>4 DEF FeesInv
<1>5. ASSUME NEW v \in Venues, Trade(v) PROVE FeesInv'
  <2>1. PICK t : t = trades'
    OBVIOUS
  <2>2. t = [trades EXCEPT ![v] = @ + 1] /\ UNCHANGED <<latest, books, ingested>>
    BY <1>5, <2>1 DEF Trade, money
  <2>3. t \in [Venues -> Nat] /\ \A u \in Venues : trades[u] \in Nat /\ t[u] >= trades[u]
    BY <2>2 DEF FeesInv
  <2>4. \A u \in Venues : latest[u] <= t[u]
    BY <2>3 DEF FeesInv, none
  <2> QED
    BY <2>1, <2>2, <2>3, <2>4 DEF FeesInv
<1>6. ASSUME \/ Reconnect \/ Periodic \/ UNCHANGED vars
             \/ \E v \in Venues : Skip(v) \/ \E res \in fetch_reconciliation_snapshot : Fails(v, res)
      PROVE  UNCHANGED <<trades, latest, books, ingested>>
  BY <1>6 DEF Reconnect, Periodic, Skip, Fails, money, vars
<1> QED
  BY <1>1, <1>3, <1>4, <1>5, <1>6 DEF Next, Cycle, VisitStep

\* However often a snapshot is taken in and however the venue orders its list,
\* the fee of a trade is counted once: for every length of the list and a ring
\* that is all but as long as two lists (live_session_accounting.hpp:273).
THEOREM FeesAreCountedOnce == Spec => []FeesCountedOnce
<1>1. FeesInv => FeesCountedOnce
  BY DEF FeesInv, FeesCountedOnce, Remembers
<1> QED
  BY <1>1, FeesInit, FeesStep, PTL DEF Spec
=============================================================================
