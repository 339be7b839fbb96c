------------------------ MODULE TradingEngineProofs ------------------------
(***************************************************************************)
(* Theorems about TradingEngine, for every set of venues, every limit and    *)
(* every length of a pass.                                                  *)
(***************************************************************************)
EXTENDS TradingEngine, FiniteSetTheorems, TLAPS

\* The result of Abs, and of adding an order to a notional.
LEMMA AbsType == \A n \in Int : Abs(n) \in Nat
BY DEF Abs

LEMMA ChildParts ==
  ASSUME NEW c \in Child
  PROVE  c.v \in Venues /\ c.n \in Int
<1> DEFINE Sells == {-n : n \in Notionals}
<1>1. \A x \in Notionals : x \in Int
  BY EngineAssumption
<1>2. \A x \in Sells : x \in Int
  BY <1>1
<1>3. c.v \in Venues /\ c.n \in Notionals \cup Sells
  BY DEF Child
<1> HIDE DEF Sells
<1> QED
  BY <1>1, <1>2, <1>3

LEMMA AddedType ==
  ASSUME NEW r \in Notional, NEW c \in Child
  PROVE  Added(r, c) \in Notional
<1>1. c.v \in Venues /\ c.n \in Int
  BY ChildParts
<1>2. Abs(c.n) \in Nat
  BY <1>1, AbsType
<1>3. r.gross + Abs(c.n) \in Nat /\ r.net + c.n \in Int
  BY <1>1, <1>2 DEF Notional
<1>4. [r.venue EXCEPT ![c.v] = @ + Abs(c.n)] \in [Venues -> Nat]
  BY <1>1, <1>2 DEF Notional
<1> QED
  BY <1>3, <1>4 DEF Added, Notional

\* The head of a plan is a child order and its tail is a plan.
LEMMA PlanParts ==
  ASSUME NEW s \in Seq(Child), s # << >>
  PROVE  Head(s) \in Child /\ Tail(s) \in Seq(Child)
OBVIOUS

LEMMA PlansAreSequences == Plans \subseteq Seq(Child)
BY EngineAssumption DEF Plans

\* A rate window keeps its type when it is restarted and counted.
LEMMA WindowType ==
  ASSUME NEW length \in Nat, now \in Nat, NEW w \in [start : Int, count : Nat]
  PROVE  /\ Window(w, length) \in [start : Int, count : Nat]
         /\ Counted(Window(w, length)) \in [start : Int, count : Nat]
<1>1. Window(w, length) \in [start : Int, count : Nat]
  BY DEF Window
<1>2. \A u \in [start : Int, count : Nat] : Counted(u) \in [start : Int, count : Nat]
  BY DEF Counted
<1> QED
  BY <1>1, <1>2

LEMMA CountType ==
  ASSUME TypeOK, CountOrder
  PROVE  sec' \in [start : Int, count : Nat] /\ min' \in [start : Int, count : Nat]
<1>1. Counted(Window(sec, Second)) \in [start : Int, count : Nat]
  BY EngineAssumption, WindowType DEF TypeOK
<1>2. Counted(Window(min, Minute)) \in [start : Int, count : Nat]
  BY EngineAssumption, WindowType DEF TypeOK
<1> QED
  BY <1>1, <1>2 DEF TypeOK, CountOrder, SecWindow, MinWindow

LEMMA IssueType ==
  ASSUME TypeOK, NEW on, IssueCancels(on)
  PROVE  issued' \in BOOLEAN /\ cancelled' \in Int
<1>1. Len(times) \in Int
  BY DEF TypeOK
<1>2. CASE on /\ ~issued
  BY <1>1, <1>2 DEF IssueCancels
<1>3. CASE ~(on /\ ~issued)
  BY <1>3, Zenon DEF IssueCancels, TypeOK
<1> QED
  BY <1>2, <1>3

LEMMA InitTypeOK == Init => TypeOK
<1> SUFFICES ASSUME Init PROVE TypeOK
  OBVIOUS
<1>1. NoNotional \in Notional
  BY DEF NoNotional, Notional
<1>2. /\ [start |-> -Second, count |-> 0] \in [start : Int, count : Nat]
      /\ [start |-> -Minute, count |-> 0] \in [start : Int, count : Nat]
  BY EngineAssumption
<1>3. children \in Seq(Child) /\ times \in Seq(Nat) /\ cancelled \in Int
  BY DEF Init
<1>4. running \in BOOLEAN /\ kill \in BOOLEAN /\ issued \in BOOLEAN
  BY DEF Init
<1>5. now \in Nat /\ beat \in Nat
      /\ pc \in {"top", "beat", "plan", "children", "exit", "stopped"}
  BY DEF Init
<1> QED
  BY <1>1, <1>2, <1>3, <1>4, <1>5, Zenon DEF Init, TypeOK

LEMMA TypeStep ==
  ASSUME TypeOK, [Next]_vars
  PROVE  TypeOK'
<1> USE DEF TypeOK
<1>1. CASE LoopEnds
  BY <1>1 DEF LoopEnds, clockVars, history
<1>2. CASE LoopKilled
  BY <1>2, IssueType DEF LoopKilled, clockVars
<1>3. CASE Heartbeat
  BY <1>3 DEF Heartbeat, clockVars, history
<1>4. CASE CheckHeartbeat
  BY <1>4 DEF CheckHeartbeat, clockVars, history
<1>5. ASSUME NEW cs \in Plans, Plan(cs) PROVE TypeOK'
  BY <1>5, PlansAreSequences DEF Plan, clockVars, history
<1>6. CASE ChildKilled
  BY <1>6, IssueType DEF ChildKilled, Break, Submitting, clockVars
<1>7. CASE ChildRateLimited
  <2>1. CountOrder
    BY <1>7 DEF ChildRateLimited
  <2>2. issued' \in BOOLEAN /\ cancelled' \in Int
    BY <1>7, IssueType DEF ChildRateLimited
  <2> QED
    BY <1>7, <2>1, <2>2, CountType DEF ChildRateLimited, Break, Submitting, clockVars
<1>8. CASE ChildSkipped
  <2>1. CountOrder
    BY <1>8 DEF ChildSkipped
  <2>2. children' \in Seq(Child)
    BY <1>8, PlanParts DEF ChildSkipped, Continue, Submitting
  <2> QED
    BY <1>8, <2>1, <2>2, CountType DEF ChildSkipped, clockVars, history
<1>9. CASE ChildBreach
  <2>1. CountOrder
    BY <1>9 DEF ChildBreach
  <2>2. children' \in Seq(Child)
    BY <1>9, PlanParts DEF ChildBreach, Continue, Submitting
  <2>3. kill' \in BOOLEAN
    BY <1>9 DEF ChildBreach
  <2> QED
    BY <1>9, <2>1, <2>2, <2>3, CountType DEF ChildBreach, clockVars, history
<1>10. CASE ChildDrawdown
  <2>1. CountOrder
    BY <1>10 DEF ChildDrawdown
  <2>2. risk' \in Notional
    BY <1>10, PlanParts, AddedType DEF ChildDrawdown, Submitting
  <2>3. issued' \in BOOLEAN /\ cancelled' \in Int
    BY <1>10, IssueType DEF ChildDrawdown
  <2> QED
    BY <1>10, <2>1, <2>2, <2>3, CountType DEF ChildDrawdown, Break, clockVars
<1>11. CASE ChildSent
  <2>1. CountOrder
    BY <1>11 DEF ChildSent
  <2>2. risk' \in Notional /\ sent' \in Notional /\ children' \in Seq(Child)
    BY <1>11, PlanParts, AddedType DEF ChildSent, Submitting, Continue
  <2> QED
    BY <1>11, <2>1, <2>2, CountType DEF ChildSent, clockVars
<1>12. CASE EndPass
  BY <1>12 DEF EndPass, clockVars, history
<1>13. CASE Exit
  BY <1>13 DEF Exit, clockVars, history
<1>14. ASSUME NEW c \in Child, ExitOrder(c) PROVE TypeOK'
  BY <1>14, AddedType DEF ExitOrder, clockVars
<1>15. CASE stop_handler
  BY <1>15 DEF stop_handler, history
<1>16. CASE Tick
  BY <1>16 DEF Tick, history
<1>17. CASE UNCHANGED vars
  BY <1>17 DEF vars
<1> QED
  BY <1>1, <1>2, <1>3, <1>4, <1>5, <1>6, <1>7, <1>8, <1>9, <1>10, <1>11, <1>12,
     <1>13, <1>14, <1>15, <1>16, <1>17 DEF Next, Loop, Submit

\* EngineTypeCorrect: every reachable state of the engine is well typed, which
\* the proofs below rest on; the counts of the rate windows have no bound, as
\* the fetch_add of circuit_breaker.hpp:55 has none.
THEOREM EngineTypeCorrect == Spec => []TypeOK
BY InitTypeOK, TypeStep, PTL DEF Spec

-----------------------------------------------------------------------------
(* The limits.  SentWithinCaps is not inductive: check_order tests what is    *)
(* committed, not what is sent.  The two agree until the kill switch is       *)
(* pulled, which is what the strengthening adds, and after that nothing is    *)
(* sent.                                                                     *)

InLoop == pc \notin {"exit", "stopped"}

CapsInv ==
  InLoop =>
    /\ Within(sent.gross, Cap.gross)
    /\ Within(Abs(sent.net), Cap.net)
    /\ \A v \in Venues : Within(sent.venue[v], Cap.venue)
    /\ ~kill => sent = risk

\* An order that passes the test leaves the committed notional within the
\* limits, when it was within them before.
LEMMA CheckedStaysWithin ==
  ASSUME TypeOK, NEW c \in Child, check_order(c),
         \A v \in Venues : Within(risk.venue[v], Cap.venue)
  PROVE  /\ Within(Added(risk, c).gross, Cap.gross)
         /\ Within(Abs(Added(risk, c).net), Cap.net)
         /\ \A v \in Venues : Within(Added(risk, c).venue[v], Cap.venue)
<1>1. c.v \in Venues /\ c.n \in Int /\ Abs(c.n) \in Nat
  BY ChildParts, AbsType
<1>2. /\ risk.gross \in Nat /\ risk.net \in Int
      /\ risk.venue \in [Venues -> Nat] /\ risk \in Notional
  BY DEF TypeOK, Notional
<1>3. /\ Added(risk, c).gross = risk.gross + Abs(c.n)
      /\ Added(risk, c).net = risk.net + c.n
      /\ \A v \in Venues : Added(risk, c).venue[v] =
           IF v = c.v THEN risk.venue[v] + Abs(c.n) ELSE risk.venue[v]
  BY <1>1, <1>2 DEF Added, Notional
<1>4. Cap.gross \in Nat /\ Cap.net \in Nat /\ Cap.venue \in Nat
  BY EngineAssumption
<1>5. Abs(risk.net + c.n) \in Nat
  BY <1>1, <1>2, AbsType
<1>6. Within(Added(risk, c).gross, Cap.gross)
  BY <1>1, <1>2, <1>3, <1>4 DEF check_order, Exceeds, Within
<1>7. Within(Abs(Added(risk, c).net), Cap.net)
  BY <1>3, <1>4, <1>5 DEF check_order, Exceeds, Within
<1>8. ASSUME NEW v \in Venues PROVE Within(Added(risk, c).venue[v], Cap.venue)
  BY <1>1, <1>2, <1>3, <1>4 DEF check_order, Exceeds, Within
<1> QED
  BY <1>6, <1>7, <1>8

LEMMA InitCapsInv == Init => CapsInv
BY EngineAssumption DEF Init, CapsInv, NoNotional, Within, Abs

LEMMA CapsStep ==
  ASSUME TypeOK, CapsInv, [Next]_vars
  PROVE  CapsInv'
<1> USE DEF CapsInv, InLoop
<1>1. CASE LoopEnds
  BY <1>1 DEF LoopEnds
<1>2. CASE LoopKilled
  BY <1>2 DEF LoopKilled
<1>3. CASE Heartbeat
  BY <1>3 DEF Heartbeat, history
<1>4. CASE CheckHeartbeat
  BY <1>4 DEF CheckHeartbeat, history
<1>5. ASSUME NEW cs \in Plans, Plan(cs) PROVE CapsInv'
  BY <1>5 DEF Plan, history
<1>6. CASE ChildKilled
  BY <1>6 DEF ChildKilled
<1>7. CASE ChildRateLimited
  BY <1>7 DEF ChildRateLimited
<1>8. CASE ChildSkipped
  BY <1>8 DEF ChildSkipped, history
<1>9. CASE ChildBreach
  BY <1>9 DEF ChildBreach, history
<1>10. CASE ChildDrawdown
  BY <1>10 DEF ChildDrawdown
<1>11. CASE ChildSent
  <2>1. Head(children) \in Child /\ check_order(Head(children))
    BY <1>11, PlanParts DEF ChildSent, Submitting, TypeOK
  <2>2. InLoop /\ ~kill
    BY <1>11 DEF ChildSent, Submitting, Halted
  <2>3. sent' = Added(risk, Head(children)) /\ risk' = sent'
    BY <1>11, <2>2 DEF ChildSent
  <2> QED
    BY <2>1, <2>2, <2>3, CheckedStaysWithin
<1>12. CASE EndPass
  BY <1>12 DEF EndPass, history
<1>13. CASE Exit
  BY <1>13 DEF Exit
<1>14. ASSUME NEW c \in Child, ExitOrder(c) PROVE CapsInv'
  BY <1>14 DEF ExitOrder
<1>15. CASE stop_handler
  BY <1>15 DEF stop_handler, history
<1>16. CASE Tick
  BY <1>16 DEF Tick, history
<1>17. CASE UNCHANGED vars
  BY <1>17 DEF vars
<1> QED
  BY <1>1, <1>2, <1>3, <1>4, <1>5, <1>6, <1>7, <1>8, <1>9, <1>10, <1>11, <1>12,
     <1>13, <1>14, <1>15, <1>16, <1>17 DEF Next, Loop, Submit

\* EngineSentWithinCaps: while the loop runs, what was sent is within the
\* gross, net and venue limits (global_risk_controls.hpp:134).
THEOREM EngineSentWithinCaps == Spec => []SentWithinCaps
<1>1. CapsInv => SentWithinCaps
  BY DEF CapsInv, InLoop, SentWithinCaps
<1> QED
  BY <1>1, InitCapsInv, CapsStep, EngineTypeCorrect, PTL DEF Spec

-----------------------------------------------------------------------------
(* The kill switch *)

\* Once the cancels are out the switch is on, so nothing is sent any more; and
\* a loop that no signal ended was left through the cancels.
KillInv ==
  ~mode.shadow =>
    /\ issued => kill /\ cancelled = Len(times)
    /\ pc \in {"exit", "stopped"} /\ running => issued

LEMMA InitKillInv == Init => KillInv
BY DEF Init, KillInv

LEMMA KillStep ==
  ASSUME TypeOK, KillInv, [Next]_vars
  PROVE  KillInv'
<1> USE DEF KillInv
<1>1. CASE LoopEnds
  BY <1>1 DEF LoopEnds, clockVars, history
<1>2. CASE LoopKilled
  BY <1>2 DEF LoopKilled, IssueCancels, clockVars
<1>3. CASE Heartbeat
  BY <1>3 DEF Heartbeat, clockVars, history
<1>4. CASE CheckHeartbeat
  BY <1>4 DEF CheckHeartbeat, clockVars, history
<1>5. ASSUME NEW cs \in Plans, Plan(cs) PROVE KillInv'
  BY <1>5 DEF Plan, clockVars, history
<1>6. CASE ChildKilled
  BY <1>6 DEF ChildKilled, IssueCancels, Halted, Submitting, clockVars
<1>7. CASE ChildRateLimited
  BY <1>7 DEF ChildRateLimited, IssueCancels, Submitting, clockVars
<1>8. CASE ChildSkipped
  BY <1>8 DEF ChildSkipped, clockVars, history
<1>9. CASE ChildBreach
  BY <1>9 DEF ChildBreach, clockVars, history
<1>10. CASE ChildDrawdown
  BY <1>10 DEF ChildDrawdown, IssueCancels, Submitting, clockVars
<1>11. CASE ChildSent
  BY <1>11 DEF ChildSent, Halted, Submitting, clockVars
<1>12. CASE EndPass
  BY <1>12 DEF EndPass, clockVars, history
<1>13. CASE Exit
  BY <1>13 DEF Exit, clockVars, history
<1>14. ASSUME NEW c \in Child, ExitOrder(c) PROVE KillInv'
  BY <1>14 DEF ExitOrder, clockVars
<1>15. CASE stop_handler
  BY <1>15 DEF stop_handler, history
<1>16. CASE Tick
  BY <1>16 DEF Tick, history
<1>17. CASE UNCHANGED vars
  BY <1>17 DEF vars
<1> QED
  BY <1>1, <1>2, <1>3, <1>4, <1>5, <1>6, <1>7, <1>8, <1>9, <1>10, <1>11, <1>12,
     <1>13, <1>14, <1>15, <1>16, <1>17 DEF Next, Loop, Submit

\* EngineKillCancelsLast: an engine stopped by the kill switch has asked every
\* venue to cancel all, after its last order (trading_engine_main.cpp:718).
THEOREM EngineKillCancelsLast == Spec => []KillCancelsLast
<1>1. KillInv => KillCancelsLast
  BY DEF KillInv, KillCancelsLast
<1> QED
  BY <1>1, InitKillInv, KillStep, EngineTypeCorrect, PTL DEF Spec

\* EngineNoOrderAfterKill: no step sends an order once the kill switch is on,
\* but the exit of paper trading (trading_engine_main.cpp:768).
THEOREM EngineNoOrderAfterKill == Spec => NoOrderAfterKill
<1> DEFINE Quiet == kill /\ times' # times => pc = "exit" /\ mode.shadow
<1>1. ASSUME [Next]_vars PROVE [Quiet]_vars
  <2>1. ASSUME NEW c \in Child, ExitOrder(c) PROVE Quiet
    BY <2>1 DEF ExitOrder
  <2>2. CASE ChildSent
    BY <2>2 DEF ChildSent, Halted
  <2>3. CASE ChildKilled \/ ChildRateLimited \/ ChildSkipped \/ ChildBreach \/ ChildDrawdown
    BY <2>3 DEF ChildKilled, ChildRateLimited, ChildSkipped, ChildBreach, ChildDrawdown, history
  <2>4. CASE LoopEnds \/ LoopKilled \/ Heartbeat \/ CheckHeartbeat \/ EndPass \/ Exit
    BY <2>4 DEF LoopEnds, LoopKilled, Heartbeat, CheckHeartbeat, EndPass, Exit, history
  <2>5. ASSUME NEW cs \in Plans, Plan(cs) PROVE Quiet
    BY <2>5 DEF Plan, history
  <2>6. CASE stop_handler \/ Tick
    BY <2>6 DEF stop_handler, Tick, history
  <2>7. CASE UNCHANGED vars
    BY <2>7
  <2> QED
    BY <1>1, <2>1, <2>2, <2>3, <2>4, <2>5, <2>6, <2>7 DEF Next, Loop, Submit
<1> QED
  BY <1>1, PTL DEF Spec, NoOrderAfterKill
-----------------------------------------------------------------------------
(* The order rate.  A span of one second overlaps at most two of the windows  *)
(* the breaker counts in, since a window begins no sooner than one second     *)
(* after the one before.  The invariant says how many orders the window under *)
(* way holds, and how many a span may hold that reaches back before it.       *)

\* The orders of s sent from time a on and before time b.
SentBetween(s, a, b) == {i \in 1..Len(s) : s[i] >= a /\ s[i] < b}

\* s may be the history of a breaker whose window began at start and counted
\* count orders, at time n.
RateKept(s, n, start, count) ==
  /\ start <= n
  /\ \A i \in 1..Len(s) : s[i] < start + Second
  /\ Cardinality(SentBetween(s, start, start + Second)) <= count
  /\ Cardinality(SentBetween(s, start, start + Second)) <= MaxPerSec
  /\ \A t \in Int : t > start - Second => Cardinality(SentBetween(s, t, start)) <= MaxPerSec
  /\ \A t \in Int : Cardinality(SentBetween(s, t, t + Second)) <= MaxPerSec + MaxPerSec

RateInv == InLoop => RateKept(times, now, sec.start, sec.count)

LEMMA SentFinite ==
  ASSUME NEW s \in Seq(Nat), NEW a \in Int, NEW b \in Int
  PROVE  IsFiniteSet(SentBetween(s, a, b)) /\ Cardinality(SentBetween(s, a, b)) \in Nat
<1>1. IsFiniteSet(1..Len(s)) /\ SentBetween(s, a, b) \subseteq 1..Len(s)
  BY FS_Interval DEF SentBetween
<1> QED
  BY <1>1, FS_Subset, FS_CardinalityType

\* A span that holds no other order holds no more orders.
LEMMA SentSubset ==
  ASSUME NEW s \in Seq(Nat), NEW a \in Int, NEW b \in Int, NEW c \in Int, NEW d \in Int,
         SentBetween(s, a, b) \subseteq SentBetween(s, c, d)
  PROVE  Cardinality(SentBetween(s, a, b)) <= Cardinality(SentBetween(s, c, d))
BY SentFinite, FS_Subset

\* An order appended now counts once, in the spans around now.
LEMMA SentAppended ==
  ASSUME NEW s \in Seq(Nat), NEW n \in Nat, NEW a \in Int, NEW b \in Int
  PROVE  /\ a <= n /\ n < b =>
              Cardinality(SentBetween(Append(s, n), a, b)) = Cardinality(SentBetween(s, a, b)) + 1
         /\ ~(a <= n /\ n < b) => SentBetween(Append(s, n), a, b) = SentBetween(s, a, b)
<1>1. /\ Len(Append(s, n)) = Len(s) + 1 /\ Len(s) \in Nat
      /\ \A i \in 1..Len(s) : Append(s, n)[i] = s[i]
      /\ Append(s, n)[Len(s) + 1] = n
  OBVIOUS
<1>2. CASE a <= n /\ n < b
  <2>1. SentBetween(Append(s, n), a, b) = SentBetween(s, a, b) \cup {Len(s) + 1}
    BY <1>1, <1>2 DEF SentBetween
  <2>2. Len(s) + 1 \notin SentBetween(s, a, b)
    BY <1>1 DEF SentBetween
  <2> QED
    BY <1>2, <2>1, <2>2, SentFinite, FS_AddElement
<1>3. CASE ~(a <= n /\ n < b)
  BY <1>1, <1>3 DEF SentBetween
<1> QED
  BY <1>2, <1>3

\* A span is no fuller than its two parts.
LEMMA SentSplit ==
  ASSUME NEW s \in Seq(Nat), NEW a \in Int, NEW b \in Int, NEW c \in Int
  PROVE  Cardinality(SentBetween(s, a, c))
           <= Cardinality(SentBetween(s, a, b)) + Cardinality(SentBetween(s, b, c))
<1> DEFINE L == SentBetween(s, a, b)
           R == SentBetween(s, b, c)
<1>1. IsFiniteSet(L) /\ IsFiniteSet(R) /\ Cardinality(L) \in Nat /\ Cardinality(R) \in Nat
  BY SentFinite
<1>2. SentBetween(s, a, c) \subseteq L \cup R
  BY DEF SentBetween
<1> HIDE DEF L, R
<1>3. IsFiniteSet(L \cup R) /\ Cardinality(L \cup R) = Cardinality(L) + Cardinality(R) - Cardinality(L \cap R)
  BY <1>1, FS_Union
<1>4. IsFiniteSet(L \cap R) /\ Cardinality(L \cap R) \in Nat
  BY <1>1, FS_Intersection, FS_CardinalityType
<1>5. Cardinality(SentBetween(s, a, c)) <= Cardinality(L \cup R)
  BY <1>2, <1>3, FS_Subset
<1>6. Cardinality(SentBetween(s, a, c)) \in Nat
  BY SentFinite
<1> QED
  BY <1>1, <1>3, <1>4, <1>5, <1>6 DEF L, R

\* A window that is over gives way to one that begins now: what it held is
\* then what a span may hold that reaches back before now.
LEMMA RateRestarted ==
  ASSUME NEW s \in Seq(Nat), NEW n \in Nat, NEW start \in Int, NEW count \in Nat,
         RateKept(s, n, start, count), n - start >= Second
  PROVE  RateKept(s, n, n, 0)
<1>0. Second \in Nat \ {0} /\ MaxPerSec \in Nat
  BY EngineAssumption
<1>1. \A i \in 1..Len(s) : s[i] \in Nat /\ s[i] < start + Second
  BY DEF RateKept
<1>2. \A i \in 1..Len(s) : s[i] < n
  BY <1>0, <1>1
<1>3. SentBetween(s, n, n + Second) = {}
  BY <1>0, <1>1, <1>2 DEF SentBetween
<1>4. Cardinality(SentBetween(s, n, n + Second)) = 0
  BY <1>3, FS_EmptySet
<1>5. ASSUME NEW t \in Int, t > n - Second PROVE Cardinality(SentBetween(s, t, n)) <= MaxPerSec
  <2>1. SentBetween(s, t, n) \subseteq SentBetween(s, start, start + Second)
    BY <1>0, <1>1, <1>5 DEF SentBetween
  <2>2. Cardinality(SentBetween(s, t, n)) <= Cardinality(SentBetween(s, start, start + Second))
    BY <1>0, <2>1, SentSubset
  <2>3. Cardinality(SentBetween(s, start, start + Second)) <= MaxPerSec
    BY DEF RateKept
  <2> QED
    BY <1>0, <2>2, <2>3, SentFinite
<1>6. \A i \in 1..Len(s) : s[i] < n + Second
  BY <1>0, <1>1, <1>2
<1>7. \A t \in Int : Cardinality(SentBetween(s, t, t + Second)) <= MaxPerSec + MaxPerSec
  BY DEF RateKept
<1>8. /\ n <= n
      /\ Cardinality(SentBetween(s, n, n + Second)) <= 0
      /\ Cardinality(SentBetween(s, n, n + Second)) <= MaxPerSec
  BY <1>0, <1>4
<1> QED
  BY <1>5, <1>6, <1>7, <1>8, Zenon DEF RateKept

\* An order sent now, in a window with room for it.
LEMMA RateSent ==
  ASSUME NEW s \in Seq(Nat), NEW n \in Nat, NEW start \in Int, NEW count \in Nat,
         RateKept(s, n, start, count), n < start + Second, count < MaxPerSec
  PROVE  RateKept(Append(s, n), n, start, count + 1)
<1> DEFINE S == Append(s, n)
<1>0. Second \in Nat \ {0} /\ MaxPerSec \in Nat /\ start <= n /\ S \in Seq(Nat)
  BY EngineAssumption DEF RateKept
<1>1. \A i \in 1..Len(S) : S[i] < start + Second
  <2>1. /\ Len(S) = Len(s) + 1 /\ Len(s) \in Nat /\ S[Len(s) + 1] = n
        /\ \A i \in 1..Len(s) : S[i] = s[i]
    OBVIOUS
  <2> QED
    BY <2>1 DEF RateKept
<1>2. Cardinality(SentBetween(S, start, start + Second)) <= count + 1
  <2>1. Cardinality(SentBetween(S, start, start + Second))
          = Cardinality(SentBetween(s, start, start + Second)) + 1
    BY <1>0, SentAppended
  <2>2. Cardinality(SentBetween(s, start, start + Second)) <= count
    BY DEF RateKept
  <2> QED
    BY <1>0, <2>1, <2>2, SentFinite
<1>3. Cardinality(SentBetween(S, start, start + Second)) <= MaxPerSec
  <2>1. start + Second \in Int
    BY <1>0
  <2>2. Cardinality(SentBetween(S, start, start + Second)) \in Nat
    BY <1>0, <2>1, SentFinite
  <2> QED
    BY <1>0, <1>2, <2>2
<1>4. ASSUME NEW t \in Int, t > start - Second PROVE Cardinality(SentBetween(S, t, start)) <= MaxPerSec
  <2>1. SentBetween(S, t, start) = SentBetween(s, t, start)
    BY <1>0, SentAppended
  <2> QED
    BY <1>4, <2>1 DEF RateKept
<1>5. ASSUME NEW t \in Int PROVE Cardinality(SentBetween(S, t, t + Second)) <= MaxPerSec + MaxPerSec
  <2>1. CASE ~(t <= n /\ n < t + Second)
    <3>1. SentBetween(S, t, t + Second) = SentBetween(s, t, t + Second)
      BY <1>0, <2>1, SentAppended
    <3> QED
      BY <3>1 DEF RateKept
  <2>2. CASE t <= n /\ n < t + Second
    <3>1. t > start - Second /\ t + Second \in Int /\ start + Second \in Int
      BY <1>0, <2>2
    <3>2. Cardinality(SentBetween(S, t, start)) <= MaxPerSec
      BY <1>4, <3>1
    <3>3. Cardinality(SentBetween(S, start, t + Second)) <= Cardinality(SentBetween(S, start, start + Second))
      <4>1. SentBetween(S, start, t + Second) \subseteq SentBetween(S, start, start + Second)
        BY <1>1 DEF SentBetween
      <4> HIDE DEF S
      <4> QED
        BY <1>0, <3>1, <4>1, SentSubset
    <3>4. Cardinality(SentBetween(S, t, t + Second))
            <= Cardinality(SentBetween(S, t, start)) + Cardinality(SentBetween(S, start, t + Second))
      BY <1>0, <3>1, SentSplit
    <3>5. /\ Cardinality(SentBetween(S, t, start)) \in Nat
          /\ Cardinality(SentBetween(S, start, t + Second)) \in Nat
          /\ Cardinality(SentBetween(S, start, start + Second)) \in Nat
          /\ Cardinality(SentBetween(S, t, t + Second)) \in Nat
      BY <1>0, <3>1, SentFinite
    <3> HIDE DEF S
    <3> QED
      BY <1>0, <1>3, <3>2, <3>3, <3>4, <3>5
  <2> QED
    BY <2>1, <2>2
<1> QED
  BY <1>0, <1>1, <1>2, <1>3, <1>4, <1>5 DEF RateKept

\* A larger count, or a later time, is as good.
LEMMA RateLater ==
  ASSUME NEW s \in Seq(Nat), NEW n \in Nat, NEW m \in Nat, NEW start \in Int, NEW count \in Nat,
         NEW more \in Nat, RateKept(s, n, start, count), n <= m, count <= more
  PROVE  RateKept(s, m, start, more)
<1>1. Cardinality(SentBetween(s, start, start + Second)) \in Nat
  BY EngineAssumption, SentFinite
<1> QED
  BY <1>1 DEF RateKept

\* The window an order is counted in, begun anew when the last one is over.
LEMMA RateWindow ==
  ASSUME TypeOK, RateInv, InLoop
  PROVE  /\ SecWindow.start \in Int /\ SecWindow.count \in Nat
         /\ now < SecWindow.start + Second
         /\ RateKept(times, now, SecWindow.start, SecWindow.count)
<1>0. /\ Second \in Nat \ {0} /\ now \in Nat /\ times \in Seq(Nat)
      /\ sec.start \in Int /\ sec.count \in Nat
      /\ RateKept(times, now, sec.start, sec.count)
  BY EngineAssumption DEF TypeOK, RateInv
<1>1. CASE now - sec.start >= Second
  <2>1. SecWindow = [start |-> now, count |-> 0]
    BY <1>1 DEF SecWindow, Window
  <2>2. SecWindow.start = now /\ SecWindow.count = 0
    BY <2>1
  <2> QED
    BY <1>0, <1>1, <2>2, RateRestarted
<1>2. CASE ~(now - sec.start >= Second)
  <2>1. SecWindow = sec
    BY <1>2 DEF SecWindow, Window
  <2> QED
    BY <1>0, <1>2, <2>1
<1> QED
  BY <1>1, <1>2

\* An order that is counted, and not sent, ...
LEMMA RateCounted ==
  ASSUME TypeOK, RateInv, InLoop, CountOrder, now' = now, times' = times
  PROVE  RateKept(times', now', sec'.start, sec'.count)
<1>0. MaxPerSec \in Nat /\ now \in Nat /\ times \in Seq(Nat)
  BY EngineAssumption DEF TypeOK
<1>1. /\ SecWindow.start \in Int /\ SecWindow.count \in Nat
      /\ RateKept(times, now, SecWindow.start, SecWindow.count)
  BY RateWindow
<1>2. /\ sec'.start = SecWindow.start
      /\ sec'.count = SecWindow.count + 1
  BY DEF CountOrder, Counted, SecWindow, Window, TypeOK
<1>3. sec'.count \in Nat /\ SecWindow.count <= sec'.count
  BY <1>1, <1>2
<1> QED
  BY <1>0, <1>1, <1>2, <1>3, RateLater

\* ... and one that is sent as well.
LEMMA RateCountedSent ==
  ASSUME TypeOK, RateInv, InLoop, CountOrder, UnderRate, now' = now, times' = Append(times, now)
  PROVE  RateKept(times', now', sec'.start, sec'.count)
<1>0. MaxPerSec \in Nat /\ now \in Nat /\ times \in Seq(Nat)
  BY EngineAssumption DEF TypeOK
<1>1. /\ SecWindow.start \in Int /\ SecWindow.count \in Nat
      /\ now < SecWindow.start + Second
      /\ RateKept(times, now, SecWindow.start, SecWindow.count)
  BY RateWindow
<1>2. SecWindow.count < MaxPerSec
  BY DEF UnderRate
<1>3. sec'.start = SecWindow.start /\ sec'.count = SecWindow.count + 1
  BY <1>0, <1>1, <1>2 DEF CountOrder, Counted, SecWindow, Window, TypeOK
<1> QED
  BY <1>0, <1>1, <1>2, <1>3, RateSent

LEMMA InitRateInv == Init => RateInv
<1> SUFFICES ASSUME Init PROVE RateKept(times, now, sec.start, sec.count)
  BY DEF RateInv
<1>1. \A a, b \in Int : Cardinality(SentBetween(times, a, b)) = 0
  <2>1. \A a, b \in Int : SentBetween(times, a, b) = {}
    BY DEF Init, SentBetween
  <2> QED
    BY <2>1, FS_EmptySet
<1> QED
  BY <1>1, EngineAssumption DEF Init, RateKept

LEMMA RateStep ==
  ASSUME TypeOK, RateInv, [Next]_vars
  PROVE  RateInv'
<1> SUFFICES ASSUME InLoop' PROVE RateKept(times', now', sec'.start, sec'.count)
  BY DEF RateInv, RateKept, SentBetween
<1>0. /\ MaxPerSec \in Nat /\ now \in Nat /\ times \in Seq(Nat)
      /\ sec.start \in Int /\ sec.count \in Nat
  BY EngineAssumption DEF TypeOK
<1>1. CASE InLoop /\ UNCHANGED <<times, now, sec>>
  BY <1>1 DEF RateInv
<1>2. CASE ChildRateLimited \/ ChildSkipped \/ ChildBreach \/ ChildDrawdown
  <2>1. InLoop /\ CountOrder /\ now' = now /\ times' = times
    BY <1>2 DEF ChildRateLimited, ChildSkipped, ChildBreach, ChildDrawdown, Submitting, InLoop,
                clockVars, history
  <2> QED
    BY <2>1, RateCounted
<1>3. CASE ChildSent
  <2>1. InLoop /\ CountOrder /\ UnderRate /\ now' = now /\ times' = Append(times, now)
    BY <1>3 DEF ChildSent, Submitting, InLoop, clockVars
  <2> QED
    BY <2>1, RateCountedSent
<1>4. CASE Tick
  <2>1. InLoop /\ now' = now + 1 /\ times' = times /\ sec' = sec
    BY <1>4 DEF Tick, InLoop, history
  <2>2. RateKept(times, now, sec.start, sec.count)
    BY <2>1 DEF RateInv
  <2>3. now' \in Nat /\ now <= now'
    BY <1>0, <2>1
  <2>4. RateKept(times, now', sec.start, sec.count)
    BY <1>0, <2>2, <2>3, RateLater
  <2> QED
    BY <2>1, <2>4
<1>5. CASE LoopEnds \/ LoopKilled \/ Exit \/ \E c \in Child : ExitOrder(c)
  BY <1>5 DEF LoopEnds, LoopKilled, Exit, ExitOrder, InLoop
<1>6. CASE \/ Heartbeat \/ CheckHeartbeat \/ (\E cs \in Plans : Plan(cs)) \/ ChildKilled
           \/ EndPass \/ stop_handler \/ UNCHANGED vars
  <2>1. InLoop /\ UNCHANGED <<times, now, sec>>
    BY <1>6 DEF Heartbeat, CheckHeartbeat, Plan, ChildKilled, EndPass, stop_handler, vars,
                clockVars, history, InLoop, Submitting
  <2> QED
    BY <1>1, <2>1
<1> QED
  BY <1>2, <1>3, <1>4, <1>5, <1>6 DEF Next, Loop, Submit

\* EngineRatePerSpan: for all limits and lengths of a second, and wherever the
\* second begins, the loop sends at most twice the orders the limit allows in
\* it (circuit_breaker.hpp:44).
THEOREM EngineRatePerSpan == Spec => []RatePerSpan
<1>1. TypeOK /\ RateInv => RatePerSpan
  <2> SUFFICES ASSUME TypeOK, RateInv, InLoop, NEW t \in 0..MaxNow
               PROVE  Cardinality(SentIn(t)) <= 2 * MaxPerSec
    BY DEF RatePerSpan, InLoop
  <2>1. t \in Int /\ MaxPerSec \in Nat
    BY EngineAssumption
  <2>2. SentIn(t) = SentBetween(times, t, t + Second)
    BY DEF SentIn, SentBetween
  <2>3. Cardinality(SentBetween(times, t, t + Second)) <= MaxPerSec + MaxPerSec
    BY <2>1 DEF RateInv, RateKept
  <2>4. MaxPerSec + MaxPerSec = 2 * MaxPerSec
    BY <2>1
  <2> QED
    BY <2>2, <2>3, <2>4
<1> QED
  BY <1>1, InitRateInv, RateStep, EngineTypeCorrect, PTL DEF Spec
=============================================================================
