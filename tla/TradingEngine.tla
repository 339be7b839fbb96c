---------------------------- MODULE TradingEngine ----------------------------
(***************************************************************************)
(* The main loop of the trading engine and the risk controls on its submit  *)
(* path: kill switch, circuit breaker and global risk                       *)
(* (core/engine/trading_engine_main.cpp and core/risk/).                    *)
(*                                                                         *)
(* The loop is one thread.  The signal handler, the clock and what the      *)
(* planner, the accounting and the venues answer are its environment: each  *)
(* child order of a pass may be unpriced, unaffordable or rejected by the   *)
(* futures gate, and the drawdown may be breached whenever it is looked at. *)
(* The engine trades one symbol, so the symbol's notional is the whole      *)
(* notional and the concentration test never applies.                      *)
(***************************************************************************)
EXTENDS Integers, Sequences, FiniteSets

CONSTANTS
  Venues,            \* the venues enabled
  Notionals,         \* what a child order may be worth
  Cap,               \* the limits gross, net, venue and cross; 0 is no limit
  Primary,           \* the venue of futures trading (Binance)
  MaxPerSec, MaxPerMin,
  Second, Minute,    \* the two rate windows, in ticks of the clock
  HeartbeatTimeout,
  MaxChildren,       \* child orders of one pass
  MaxNow, MaxSent,   \* bounds of the model: ticks, orders sent,
  MaxCounted         \* and orders that meet one rate window

ASSUME EngineAssumption ==
  /\ IsFiniteSet(Venues) /\ Primary \in Venues
  /\ Notionals \subseteq Nat \ {0}
  /\ Cap \in [gross : Nat, net : Nat, venue : Nat, cross : Nat]
  /\ MaxPerSec \in Nat /\ MaxPerMin \in Nat
  /\ Second \in Nat \ {0} /\ Minute \in Nat \ {0}
  /\ HeartbeatTimeout \in Nat /\ MaxChildren \in Nat
  /\ MaxNow \in Nat /\ MaxSent \in Nat /\ MaxCounted \in Nat

VARIABLES
  mode,       \* of the session: paper trading (shadow), futures_only, and
              \* whether a breach of a limit pulls the kill switch
  running,    \* g_running
  kill,       \* active_ of the kill switch
  issued,     \* kill_switch_cancel_issued
  now,        \* the steady clock
  beat,       \* last_heartbeat_ns_
  sec, min,   \* the rate windows: when each began and what it counted
  risk,       \* the notional committed: gross, net, and gross by venue
  pc,         \* where the loop is
  children,   \* the child orders of this pass still to be submitted
  sent,       \* history: the same notionals, of the orders really sent
  times,      \* history: when each was sent
  cancelled   \* history: how many had been sent when cancel_all went out

vars == <<mode, running, kill, issued, now, beat, sec, min, risk, pc, children,
          sent, times, cancelled>>
clockVars == <<mode, running, now>>
history == <<sent, times, cancelled>>

Abs(n) == IF n < 0 THEN -n ELSE n
Child == [v : Venues, n : Notionals \cup {-n : n \in Notionals}]
NoNotional == [gross |-> 0, net |-> 0, venue |-> [v \in Venues |-> 0]]

Modes == [shadow : BOOLEAN, futures : BOOLEAN, killOnBreach : BOOLEAN]

\* Both rate windows begin at time 0 of a clock that has run for long.
Init ==
  /\ mode \in Modes
  /\ running = TRUE /\ kill = FALSE /\ issued = FALSE
  /\ now = 0 /\ beat = 0
  /\ sec = [start |-> -Second, count |-> 0]
  /\ min = [start |-> -Minute, count |-> 0]
  /\ risk = NoNotional
  /\ pc = "top" /\ children = << >>
  /\ sent = NoNotional /\ times = << >> /\ cancelled = -1

-----------------------------------------------------------------------------
(* GlobalRiskControls *)

Exceeds(x, limit) == limit > 0 /\ x > limit

\* Mutant of check_order: the venue's limit is not tested.
CheckWithoutVenue(c) ==
  /\ ~Exceeds(risk.gross + Abs(c.n), Cap.gross)
  /\ ~Exceeds(Abs(risk.net + c.n), Cap.net)
  /\ risk.gross > 0 => ~Exceeds(Abs(risk.net + c.n), Cap.cross)

check_order(c) ==
  /\ ~Exceeds(risk.gross + Abs(c.n), Cap.gross)
  /\ ~Exceeds(Abs(risk.net + c.n), Cap.net)
  /\ ~Exceeds(risk.venue[c.v] + Abs(c.n), Cap.venue)
  /\ risk.gross > 0 => ~Exceeds(Abs(risk.net + c.n), Cap.cross)

Added(r, c) ==
  [r EXCEPT !.gross = @ + Abs(c.n), !.net = @ + c.n, !.venue[c.v] = @ + Abs(c.n)]

\* Does the gate of a futures order let it pass?  It looks at collateral,
\* prices and funding, which are not modelled; a spot order has no gate.
GateOutcomes == IF mode.futures THEN BOOLEAN ELSE {TRUE}

-----------------------------------------------------------------------------
(* CircuitBreaker::check_order_rate.  A window that is over begins anew with  *)
(* this order; a refused order is counted like any other.                    *)

Window(w, length) == IF now - w.start >= length THEN [start |-> now, count |-> 0] ELSE w

Counted(w) == [w EXCEPT !.count = @ + 1]

SecWindow == Window(sec, Second)
MinWindow == Window(min, Minute)

\* Mutant of UnderRate: one order too many per window.
UnderRateOffByOne == SecWindow.count <= MaxPerSec /\ MinWindow.count < MaxPerMin

UnderRate == SecWindow.count < MaxPerSec /\ MinWindow.count < MaxPerMin

CountOrder ==
  /\ sec' = Counted(SecWindow)
  /\ min' = IF SecWindow.count < MaxPerSec THEN Counted(MinWindow) ELSE min

-----------------------------------------------------------------------------
(* The loop.  issue_kill_switch_cancels asks every venue once, and only when  *)
(* the switch is on.                                                         *)

\* Mutant of IssueCancels: the switch is not looked at.
IssueAnyway(on) ==
  IF ~issued
  THEN issued' = TRUE /\ cancelled' = Len(times)
  ELSE UNCHANGED <<issued, cancelled>>

IssueCancels(on) ==
  IF on /\ ~issued
  THEN issued' = TRUE /\ cancelled' = Len(times)
  ELSE UNCHANGED <<issued, cancelled>>

LoopEnds ==
  /\ pc = "top"
  /\ ~running
  /\ pc' = "exit"
  /\ UNCHANGED <<clockVars, kill, issued, beat, sec, min, risk, children, history>>

\* Mutant of LoopKilled: the cancels go out but the loop does not end.
LoopKilledStays ==
  /\ pc = "top"
  /\ running /\ kill
  /\ IssueCancels(kill)
  /\ UNCHANGED <<clockVars, kill, beat, sec, min, risk, pc, children, sent, times>>

LoopKilled ==
  /\ pc = "top"
  /\ running /\ kill
  /\ IssueCancels(kill)
  /\ pc' = "exit"
  /\ UNCHANGED <<clockVars, kill, beat, sec, min, risk, children, sent, times>>

Heartbeat ==
  /\ pc = "top"
  /\ running /\ ~kill
  /\ beat' = now
  /\ pc' = "beat"
  /\ UNCHANGED <<clockVars, kill, issued, sec, min, risk, children, history>>

\* The pass goes on when the switch was pulled here.
CheckHeartbeat ==
  /\ pc = "beat"
  /\ kill' = (kill \/ now - beat > HeartbeatTimeout)
  /\ pc' = "plan"
  /\ UNCHANGED <<clockVars, issued, beat, sec, min, risk, children, history>>

\* Intent, parent plan, scheduler and router decide on the child orders (module
\* Planner); futures trading enables one venue alone.  MaxCounted bounds what
\* the rate windows come to count.
Plan(cs) ==
  /\ pc = "plan"
  /\ cs # << >> => /\ SecWindow.count + Len(cs) <= MaxCounted
                    /\ MinWindow.count + Len(cs) <= MaxCounted
  /\ mode.futures => \A i \in DOMAIN cs : cs[i].v = Primary
  /\ children' = cs
  /\ pc' = "children"
  /\ UNCHANGED <<clockVars, kill, issued, beat, sec, min, risk, history>>

-----------------------------------------------------------------------------
(* submit_decision, one child order per step *)

\* Mutant of Halted: the switch is not looked at between two child orders.
NeverHalted == FALSE

Halted == kill

Submitting == pc = "children" /\ children # << >>
Continue == children' = Tail(children)
Break == children' = << >>

ChildKilled ==
  /\ Submitting /\ Halted
  /\ IssueCancels(kill)
  /\ Break
  /\ UNCHANGED <<clockVars, kill, beat, sec, min, risk, pc, sent, times>>

ChildRateLimited ==
  /\ Submitting /\ ~Halted /\ ~UnderRate
  /\ CountOrder
  /\ IssueCancels(kill)
  /\ Break
  /\ UNCHANGED <<clockVars, kill, beat, risk, pc, sent, times>>

\* No price, or (in live trading) not enough capital: the next one.
ChildSkipped ==
  /\ Submitting /\ ~Halted /\ UnderRate
  /\ CountOrder
  /\ Continue
  /\ UNCHANGED <<clockVars, kill, issued, beat, risk, pc, history>>

\* commit_order or commit_futures_order refuses.
ChildBreach ==
  /\ Submitting /\ ~Halted /\ UnderRate
  /\ \E gate \in GateOutcomes : ~(gate /\ check_order(Head(children)))
  /\ CountOrder
  /\ kill' = (kill \/ mode.killOnBreach)
  /\ Continue
  /\ UNCHANGED <<clockVars, issued, beat, risk, pc, history>>

\* The notional is committed before the drawdown is looked at.
ChildDrawdown ==
  /\ Submitting /\ ~Halted /\ UnderRate
  /\ check_order(Head(children))
  /\ CountOrder
  /\ risk' = Added(risk, Head(children))
  /\ kill' = TRUE
  /\ IssueCancels(TRUE)
  /\ Break
  /\ UNCHANGED <<clockVars, beat, pc, sent, times>>

ChildSent ==
  /\ Submitting /\ ~Halted /\ UnderRate
  /\ check_order(Head(children))
  /\ Len(times) < MaxSent
  /\ CountOrder
  /\ risk' = Added(risk, Head(children))
  /\ sent' = Added(sent, Head(children))
  /\ times' = Append(times, now)
  /\ Continue
  /\ UNCHANGED <<clockVars, kill, issued, beat, pc, cancelled>>

\* Reconnects and reconciliation, then sleep.
EndPass ==
  /\ pc = "children" /\ children = << >>
  /\ pc' = "top"
  /\ UNCHANGED <<clockVars, kill, issued, beat, sec, min, risk, children, history>>

-----------------------------------------------------------------------------
(* After the loop.  Paper trading sells what it holds, past every control. *)

ExitOrder(c) ==
  /\ pc = "exit" /\ mode.shadow
  /\ c.n < 0
  /\ Len(times) < MaxSent
  /\ sent' = Added(sent, c)
  /\ times' = Append(times, now)
  /\ UNCHANGED <<clockVars, kill, issued, beat, sec, min, risk, pc, children, cancelled>>

Exit ==
  /\ pc = "exit"
  /\ pc' = "stopped"
  /\ UNCHANGED <<clockVars, kill, issued, beat, sec, min, risk, children, history>>

-----------------------------------------------------------------------------
stop_handler ==
  /\ running /\ pc # "stopped"
  /\ running' = FALSE
  /\ UNCHANGED <<mode, now, kill, issued, beat, sec, min, risk, pc, children, history>>

Tick ==
  /\ now < MaxNow /\ pc # "stopped"
  /\ now' = now + 1
  /\ UNCHANGED <<mode, running, kill, issued, beat, sec, min, risk, pc, children, history>>

Plans == UNION {[1..k -> Child] : k \in 0..MaxChildren}

Submit == ChildKilled \/ ChildRateLimited \/ ChildSkipped \/ ChildBreach
          \/ ChildDrawdown \/ ChildSent

Loop == \/ LoopEnds \/ LoopKilled \/ Heartbeat \/ CheckHeartbeat
        \/ \E cs \in Plans : Plan(cs)
        \/ Submit \/ EndPass \/ Exit

Next == Loop \/ (\E c \in Child : ExitOrder(c)) \/ stop_handler \/ Tick

Spec == Init /\ [][Next]_vars

\* The main thread is never blocked for good: every call it makes returns.
FairSpec == Spec /\ WF_vars(Loop)

-----------------------------------------------------------------------------
(* What the engine promises *)

Notional == [gross : Nat, net : Int, venue : [Venues -> Nat]]

TypeOK ==
  /\ mode \in Modes
  /\ running \in BOOLEAN /\ kill \in BOOLEAN /\ issued \in BOOLEAN
  /\ now \in Nat /\ beat \in Nat
  /\ sec \in [start : Int, count : Nat] /\ min \in [start : Int, count : Nat]
  /\ risk \in Notional /\ sent \in Notional
  /\ pc \in {"top", "beat", "plan", "children", "exit", "stopped"}
  /\ children \in Seq(Child)
  /\ times \in Seq(Nat)
  /\ cancelled \in Int

\* NoOrderAfterKill: from the step that pulls the kill switch on, no order is
\* sent, not even a later child of the pass that pulled it; only paper
\* trading's exit still sells (trading_engine_main.cpp:768).
NoOrderAfterKill ==
  [][kill /\ times' # times => pc = "exit" /\ mode.shadow]_vars

\* SentWithinCaps: what is really sent stays within the gross, net and venue
\* limits at all times, although limits are tested against what is committed,
\* commitments of orders that were not sent are never taken back, and buys
\* and sells cancel out in the net (global_risk_controls.hpp:134).
Within(x, limit) == limit > 0 => x <= limit

SentWithinCaps ==
  pc \notin {"exit", "stopped"} =>
    /\ Within(sent.gross, Cap.gross)
    /\ Within(Abs(sent.net), Cap.net)
    /\ \A v \in Venues : Within(sent.venue[v], Cap.venue)

\* KillCancelsLast: an engine that stops on the kill switch, and not on a
\* signal, has asked every venue to cancel all, after its last order
\* (trading_engine_main.cpp:718 and :735).
KillCancelsLast ==
  pc = "stopped" /\ kill /\ running /\ ~mode.shadow => cancelled = Len(times)

\* RatePerSpan: no second, wherever it begins, sees more than twice the orders
\* the limit allows: each overlaps two windows (circuit_breaker.hpp:44).
SentIn(t) == {i \in 1..Len(times) : times[i] >= t /\ times[i] < t + Second}

RatePerSpan ==
  pc \notin {"exit", "stopped"} =>
    \A t \in 0..MaxNow : Cardinality(SentIn(t)) <= 2 * MaxPerSec

\* KillStopsEngine: once the kill switch is on the engine comes to a stop,
\* whatever the pass was doing (trading_engine_main.cpp:735).
KillStopsEngine == kill ~> pc = "stopped"
=============================================================================
