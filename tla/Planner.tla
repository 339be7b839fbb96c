------------------------------- MODULE Planner -------------------------------
(***************************************************************************)
(* From a signal to child orders: the portfolio intent                     *)
(* (portfolio_intent_engine.hpp), the parent plan                          *)
(* (parent_order_manager.hpp) and its split over the venues                *)
(* (child_order_scheduler.hpp, scored by smart_order_router.cpp), as the   *)
(* engine's loop runs them on every pass (trading_engine_main.cpp).         *)
(*                                                                         *)
(* Quantities are in lots.  What the signals, the scores and the horizons   *)
(* decide is an input: the wanted target, the urgency, which venue ranks    *)
(* first.  Fills and cancels arrive from the venues; the plan never hears   *)
(* of them (the engine calls neither on_child_fill nor on_child_cancel).    *)
(***************************************************************************)
EXTENDS Integers, FiniteSets

CONSTANTS
  Venues,       \* the routed venues
  MaxPosition,  \* PortfolioIntentConfig::max_position
  Thresholds,   \* replace_qty_threshold; the engine's manager has 0
  Persistence,  \* regime_persistence_ticks
  Depths,       \* depth_qty of a usable quote
  MaxExposure   \* bound: position and working quantity of a behaviour

ASSUME PlannerAssumption ==
  /\ MaxPosition \in Nat \ {0} /\ Persistence \in Nat \ {0}
  /\ Thresholds \subseteq Nat /\ Depths \subseteq Nat \ {0} /\ MaxExposure \in Nat

VARIABLES
  paper,      \* shadow mode: the position is the simulator's own
  threshold,  \* cfg_.replace_qty_threshold
  pos,        \* the position really held
  buys, sells,\* quantity sent and still working
  shock, illiquid,  \* regime hysteresis: active and ticks
  plan,       \* plan_ of the parent order manager
  pass,       \* where the pass is: its step, the position it starts
              \* from, intent, style, what is left, used venues
  over        \* history: most that was working on a side when more was routed to it

vars == <<paper, threshold, pos, buys, sells, shock, illiquid, plan, pass, over>>

Urgencies == {"PASSIVE", "BALANCED", "AGGRESSIVE"}
Calm == [active |-> FALSE, ticks |-> 0]
NoPlan == [active |-> FALSE, side |-> "BID", total |-> 0, remaining |-> 0, urgency |-> "PASSIVE"]
IdlePass == [at |-> "idle", from |-> 0, delta |-> 0, urgency |-> "PASSIVE", sweep |-> FALSE, left |-> 0, used |-> {}]

Abs(n) == IF n < 0 THEN -n ELSE n
Least(m, n) == IF m < n THEN m ELSE n
Largest(m, n) == IF m < n THEN n ELSE m
Side(delta) == IF delta > 0 THEN "BID" ELSE "ASK"

Init ==
  /\ paper \in BOOLEAN /\ threshold \in Thresholds
  /\ pos = 0 /\ buys = 0 /\ sells = 0 /\ over = 0
  /\ shock = Calm /\ illiquid = Calm
  /\ plan = NoPlan /\ pass = IdlePass

-----------------------------------------------------------------------------
(* PortfolioIntentEngine *)

\* _update_regime_hysteresis: a tick counts when the probability is at or above
\* the enter threshold while inactive, below the exit threshold while active.
Hysteresis(regime, counts) ==
  LET ticks == IF counts THEN regime.ticks + 1 ELSE 0
  IN  IF ticks >= Persistence THEN [active |-> ~regime.active, ticks |-> 0]
                              ELSE [regime EXCEPT !.ticks = ticks]

clamp_position(n) ==
  IF n > MaxPosition THEN MaxPosition ELSE IF n < -MaxPosition THEN -MaxPosition ELSE n

\* Half of a position, towards zero.
Half(n) == IF n < 0 THEN -((-n) \div 2) ELSE n \div 2

clamp_reduce_target(current, target) ==
  IF current = 0 THEN target
  ELSE IF (current > 0 /\ target < 0) \/ (current < 0 /\ target > 0) THEN 0
  ELSE IF Abs(target) > Abs(current) THEN Half(current) ELSE target

\* choose_urgency: a stale inventory or a single healthy venue hurries.
choose_urgency(stale, healthy) == IF stale \/ healthy <= 1 THEN {"AGGRESSIVE"} ELSE Urgencies

\* Mutant of Intents: a shock is a reason and no longer flattens.
IntentsIgnoreShock(current, off, shocked, slow, wanted, stale, strong, healthy) ==
  IF healthy = 0 \/ off
  THEN {[delta |-> -current, urgency |-> "AGGRESSIVE"]}
  ELSE LET target == IF slow \/ (stale /\ ~strong) THEN clamp_reduce_target(current, wanted) ELSE wanted
       IN  {[delta |-> clamp_position(target) - current, urgency |-> u] : u \in choose_urgency(stale, healthy)}

\* evaluate: without a healthy venue, or when a risk reason holds, the position
\* is closed; otherwise it goes to the wanted target, or is only reduced.
Intents(current, off, shocked, slow, wanted, stale, strong, healthy) ==
  IF healthy = 0 \/ off \/ shocked
  THEN {[delta |-> -current, urgency |-> "AGGRESSIVE"]}
  ELSE LET target == IF slow \/ (stale /\ ~strong) THEN clamp_reduce_target(current, wanted) ELSE wanted
       IN  {[delta |-> clamp_position(target) - current, urgency |-> u] : u \in choose_urgency(stale, healthy)}

\* make_quote: the size at the other side's touch; a book that is not ready, and
\* a venue that is switched off, show nothing.
make_quote == Depths \cup {0}

\* build_live_portfolio_snapshot adds the reconciled positions to a
\* global_position that nothing has set: the sum may be anything.
build_live_portfolio_snapshot == -MaxPosition - 1..MaxPosition + 1

\* The pass reads the signals, the quotes and the position, and evaluates them.
\* off stands for the risk score, both reversals, a stale signal and the basis.
Evaluate ==
  /\ pass.at = "idle"
  /\ \E position \in IF paper THEN {pos} ELSE build_live_portfolio_snapshot :
     LET current == clamp_position(position)
     IN  /\ \E countsShock, countsIlliquid \in BOOLEAN :
              /\ shock' = Hysteresis(shock, countsShock)
              /\ illiquid' = Hysteresis(illiquid, countsIlliquid)
         /\ \E off, stale, strong \in BOOLEAN, healthy \in 0..2, wanted \in -MaxPosition..MaxPosition :
              /\ stale => current # 0
              /\ \E intent \in Intents(current, off, shock'.active, illiquid'.active, wanted, stale, strong, healthy) :
                   pass' = [IdlePass EXCEPT !.at = "plan", !.from = current, !.delta = intent.delta, !.urgency = intent.urgency]
  /\ UNCHANGED <<paper, threshold, pos, buys, sells, plan, over>>

-----------------------------------------------------------------------------
(* ParentOrderManager *)

build_plan(side, qty, urgency) ==
  [active |-> TRUE, side |-> side, total |-> qty, remaining |-> qty, urgency |-> urgency]

\* update_target, after maybe_expire (expired says whether the deadline was
\* over): the plan it leaves, and whether it reports an action.  filled_qty is
\* never initialised, so a plan that is kept takes garbage for its fills.
Updated(expired, extended, garbage) ==
  LET qty == Abs(pass.delta)
      old == IF expired THEN NoPlan ELSE plan
      replaced == old.side # Side(pass.delta) \/ Abs(old.total - qty) >= threshold
      left == Least(old.remaining, qty)
  IN  IF qty = 0
      THEN [plan |-> NoPlan, acted |-> old.active]
      ELSE IF ~old.active \/ replaced
      THEN [plan |-> build_plan(Side(pass.delta), qty, pass.urgency), acted |-> TRUE]
      ELSE [plan |-> [old EXCEPT !.total = Largest(garbage, qty),
                                 !.remaining = left, !.urgency = pass.urgency],
            acted |-> old.urgency # pass.urgency \/ extended \/ old.total # qty \/ old.remaining # left]

\* choose_style: a plan is swept over the venues or sent to one of them.
Sweeps(urgency) == IF urgency = "PASSIVE" THEN {FALSE} ELSE BOOLEAN

UpdateTarget ==
  /\ pass.at = "plan"
  /\ \E expired, extended \in BOOLEAN, garbage \in {0, 2 * MaxPosition} :
       /\ expired => plan.active
       /\ LET result == Updated(expired, extended, garbage) IN
          /\ plan' = result.plan
          /\ IF result.acted /\ result.plan.active /\ result.plan.remaining > 0
             THEN /\ \E sweep \in Sweeps(pass.urgency) :
                       pass' = [IdlePass EXCEPT !.at = "route", !.from = pass.from,
                                                !.delta = pass.delta, !.sweep = sweep, !.left = result.plan.remaining]
                  /\ over' = Largest(over, IF pass.delta > 0 THEN buys ELSE sells)
             ELSE pass' = IdlePass /\ UNCHANGED over
  /\ UNCHANGED <<paper, threshold, pos, buys, sells, shock, illiquid>>

-----------------------------------------------------------------------------
(* ChildOrderScheduler and submit_decision: one venue after the other *)

\* Mutant of Clip: the whole depth is taken.
ClipDepth(left, depth) == depth

Clip(left, depth) == Least(left, depth)

\* select_best_venue: a venue that shows something and is not used yet; the
\* scores may rank them in any order.
select_best_venue(v, depth) == v \notin pass.used /\ depth > 0

\* The best venue not used yet gets what is left or what it shows; an order
\* that is not a sweep goes to one venue only.  The order may be refused:
\* by the risk checks, for want of a price or of funds, or by the venue.
Child(v, depth, accepted) ==
  /\ pass.at = "route" /\ select_best_venue(v, depth)
  /\ LET qty == Clip(pass.left, depth)
         buying == pass.delta > 0
     IN  /\ accepted => Abs(pos) + buys + sells + qty <= MaxExposure
         /\ buys' = IF accepted /\ buying THEN buys + qty ELSE buys
         /\ sells' = IF accepted /\ ~buying THEN sells + qty ELSE sells
         /\ pass' = IF pass.sweep /\ qty < pass.left
                    THEN [pass EXCEPT !.left = @ - qty, !.used = @ \cup {v}]
                    ELSE IdlePass
  /\ UNCHANGED <<paper, threshold, pos, shock, illiquid, plan, over>>

\* No venue is left that shows anything, or the kill switch or the order rate
\* stopped the children.
RouteEnds ==
  /\ pass.at = "route"
  /\ pass' = IdlePass
  /\ UNCHANGED <<paper, threshold, pos, buys, sells, shock, illiquid, plan, over>>

-----------------------------------------------------------------------------
(* The venues.  In paper mode fills are simulated between two passes. *)

Between == paper => pass.at = "idle"

FillBuy ==
  /\ Between /\ buys > 0
  /\ pos' = pos + 1 /\ buys' = buys - 1
  /\ UNCHANGED <<paper, threshold, sells, shock, illiquid, plan, pass, over>>

FillSell ==
  /\ Between /\ sells > 0
  /\ pos' = pos - 1 /\ sells' = sells - 1
  /\ UNCHANGED <<paper, threshold, buys, shock, illiquid, plan, pass, over>>

\* What is left of an IOC order dies; a kill switch cancels the rest.
Dies ==
  /\ Between
  /\ \E b \in 0..buys, s \in 0..sells : /\ b + s > 0
                                        /\ buys' = buys - b /\ sells' = sells - s
  /\ UNCHANGED <<paper, threshold, pos, shock, illiquid, plan, pass, over>>

Next ==
  \/ Evaluate
  \/ UpdateTarget
  \/ \E v \in Venues, depth \in make_quote, accepted \in BOOLEAN : Child(v, depth, accepted)
  \/ RouteEnds
  \/ FillBuy \/ FillSell \/ Dies

Spec == Init /\ [][Next]_vars

-----------------------------------------------------------------------------
(* What the planner promises *)

\* OvershootIsWhatWasWorking: with a current position, the intent and the plan
\* keep position and working orders within the maximum; what they can exceed it
\* by is what was still working, and not counted, when more was sent: every pass
\* sends the whole difference again (trading_engine_main.cpp:1090).
OvershootIsWhatWasWorking ==
  paper => /\ pos + buys <= MaxPosition + over
           /\ pos - sells >= -(MaxPosition + over)

\* ShockOnlyReduces: from the tick that makes the shock regime active to the one
\* that ends it, an order is only sent against the position that was read, and
\* for no more than it (portfolio_intent_engine.hpp:151).
Reducing ==
  /\ shock.active /\ pass.at = "route" /\ buys' > buys => pass.from < 0 /\ buys' - buys <= -pass.from
  /\ shock.active /\ pass.at = "route" /\ sells' > sells => pass.from > 0 /\ sells' - sells <= pass.from

ShockOnlyReduces == [][Reducing]_vars
=============================================================================
