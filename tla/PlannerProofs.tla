---------------------------- MODULE PlannerProofs ----------------------------
(***************************************************************************)
(* For every maximum, number of venues and depth: in paper trading the      *)
(* planner exceeds its maximum position by no more than what was already    *)
(* working when it sent more, and a shock only reduces the position read.   *)
(*                                                                         *)
(* The bound is not inductive alone.  Between the evaluation and the last    *)
(* child order the pass carries a difference that was computed from a        *)
(* position: Planned says it still leads into the limits, Routed that what   *)
(* is left to send still fits, whatever the venues before took.              *)
(***************************************************************************)
EXTENDS Planner, TLAPS

Sides == {"BID", "ASK"}

PlanType == plan \in [active : BOOLEAN, side : Sides, total : Nat, remaining : Nat, urgency : Urgencies]

PassType == pass \in [at : {"idle", "plan", "route"}, from : Int, delta : Int, urgency : Urgencies,
                      sweep : BOOLEAN, left : Nat, used : SUBSET Venues]

\* The quantities are whole lots.
QuantityType ==
  /\ paper \in BOOLEAN /\ threshold \in Nat
  /\ pos \in Int /\ buys \in Nat /\ sells \in Nat /\ over \in Nat

TypeOK == QuantityType /\ PlanType /\ PassType

\* A pass that was evaluated leads from the clamped position into the limits.
Planned ==
  paper /\ pass.at = "plan" =>
    /\ pass.from = clamp_position(pos)
    /\ -MaxPosition <= pass.from + pass.delta
    /\ pass.from + pass.delta <= MaxPosition

\* What a pass has left to send fits on top of what is working.
Routed ==
  paper /\ pass.at = "route" =>
    /\ pass.delta > 0 => pos + buys + pass.left <= MaxPosition + over
    /\ ~(pass.delta > 0) => pos - sells - pass.left >= -(MaxPosition + over)

Inv == TypeOK /\ OvershootIsWhatWasWorking /\ Planned /\ Routed

-----------------------------------------------------------------------------

\* clamp_position keeps a position within the limits, and one that is within.
LEMMA Clamps ==
  ASSUME NEW n \in Int
  PROVE  /\ clamp_position(n) \in Int
         /\ -MaxPosition <= clamp_position(n) /\ clamp_position(n) <= MaxPosition
BY PlannerAssumption, SMT DEF clamp_position

\* clamp_reduce_target gives a whole number of lots.
LEMMA Reduces ==
  ASSUME NEW m \in Int, NEW n \in Int
  PROVE  clamp_reduce_target(m, n) \in Int
<1>1. Half(m) \in Int
  BY SMT DEF Half
<1> QED
  BY <1>1, SMT DEF clamp_reduce_target

\* Whatever the signals say, the intent leads into the limits.
LEMMA IntentsFit ==
  ASSUME NEW current \in Int, -MaxPosition <= current, current <= MaxPosition,
         NEW off \in BOOLEAN, NEW shocked, NEW slow, NEW stale \in BOOLEAN,
         NEW strong \in BOOLEAN, NEW healthy \in 0..2, NEW wanted \in Int,
         NEW intent \in Intents(current, off, shocked, slow, wanted, stale, strong, healthy)
  PROVE  /\ intent.delta \in Int /\ intent.urgency \in Urgencies
         /\ -MaxPosition <= current + intent.delta /\ current + intent.delta <= MaxPosition
<1>1. CASE healthy = 0 \/ off \/ shocked
  <2>1. intent = [delta |-> -current, urgency |-> "AGGRESSIVE"]
    BY <1>1 DEF Intents
  <2> QED
    BY <2>1, PlannerAssumption, SMT DEF Urgencies
<1>2. CASE ~(healthy = 0 \/ off \/ shocked)
  <2> DEFINE target == IF slow \/ (stale /\ ~strong) THEN clamp_reduce_target(current, wanted) ELSE wanted
  <2>1. target \in Int
    BY Reduces
  <2>2. PICK u \in choose_urgency(stale, healthy) : intent = [delta |-> clamp_position(target) - current, urgency |-> u]
    BY <1>2 DEF Intents
  <2>3. u \in Urgencies
    BY DEF choose_urgency, Urgencies
  <2> HIDE DEF target
  <2>4. /\ clamp_position(target) \in Int
        /\ -MaxPosition <= clamp_position(target) /\ clamp_position(target) <= MaxPosition
    BY <2>1, Clamps
  <2> DEFINE c == clamp_position(target)
  <2>5. intent.delta = c - current /\ intent.urgency = u
    BY <2>2
  <2> HIDE DEF c
  <2>6. c \in Int /\ -MaxPosition <= c /\ c <= MaxPosition
    BY <2>4 DEF c
  <2> QED
    BY <2>3, <2>5, <2>6, PlannerAssumption, SMT
<1> QED
  BY <1>1, <1>2

\* The plan an update leaves has no more to send than the intent asks for.
LEMMA UpdatesFit ==
  ASSUME PlanType, PassType, threshold \in Nat,
         NEW expired \in BOOLEAN, NEW extended \in BOOLEAN, NEW garbage \in Nat
  PROVE  LET result == Updated(expired, extended, garbage)
         IN  /\ result.plan \in [active : BOOLEAN, side : Sides, total : Nat, remaining : Nat, urgency : Urgencies]
             /\ result.plan.remaining <= Abs(pass.delta)
<1> DEFINE qty == Abs(pass.delta)
           old == IF expired THEN NoPlan ELSE plan
           Plans == [active : BOOLEAN, side : Sides, total : Nat, remaining : Nat, urgency : Urgencies]
           replaced == old.side # Side(pass.delta) \/ Abs(old.total - qty) >= threshold
           built == build_plan(Side(pass.delta), qty, pass.urgency)
           kept == [old EXCEPT !.total = Largest(garbage, qty), !.remaining = Least(old.remaining, qty), !.urgency = pass.urgency]
<1>1. pass.delta \in Int /\ pass.urgency \in Urgencies
  BY DEF PassType
<1>2. qty \in Nat
  BY <1>1, SMT DEF Abs
<1>3. NoPlan \in Plans /\ NoPlan.remaining = 0
  BY DEF NoPlan, Sides, Urgencies
<1>4. old \in Plans
  BY <1>3 DEF PlanType
<1>5. Side(pass.delta) \in Sides
  BY DEF Side, Sides
<1>r. Updated(expired, extended, garbage).plan \in {NoPlan, built, kept}
  BY Zenon DEF Updated
<1> HIDE DEF qty, old
<1>6. built \in Plans /\ built.remaining = qty
  BY <1>1, <1>2, <1>5 DEF build_plan
<1>7. Least(old.remaining, qty) \in Nat /\ Least(old.remaining, qty) <= qty /\ Largest(garbage, qty) \in Nat
  <2>1. old.remaining \in Nat
    BY <1>4
  <2> QED
    BY <2>1, <1>2, SMT DEF Least, Largest
<1>8. kept \in Plans /\ kept.remaining = Least(old.remaining, qty)
  BY <1>1, <1>4, <1>7
<1>9. NoPlan.remaining <= qty /\ built.remaining <= qty /\ kept.remaining <= qty
  BY <1>2, <1>3, <1>6, <1>7, <1>8, SMT
<1> HIDE DEF built, kept, Plans
<1>10. \A p \in {NoPlan, built, kept} : p \in Plans /\ p.remaining <= qty
  BY <1>3, <1>6, <1>8, <1>9
<1> QED
  BY <1>r, <1>10, Zenon DEF Plans, qty

\* Limits hold all the more when more is known to be working.
LEMMA LimitsGrow ==
  ASSUME NEW p \in Int, NEW b \in Nat, NEW s \in Nat, NEW o \in Nat, NEW more \in Nat, o <= more
  PROVE  /\ p + b <= MaxPosition + o => p + b <= MaxPosition + more
         /\ p - s >= -(MaxPosition + o) => p - s >= -(MaxPosition + more)
BY PlannerAssumption, SMT

\* A difference that leads into the limits fits on top of what is working, when
\* that is what the limits are stretched by.
LEMMA DifferenceFits ==
  ASSUME NEW p \in Int, NEW b \in Nat, NEW s \in Nat, NEW o \in Nat, NEW d \in Int, NEW r \in Nat \ {0}, r <= Abs(d),
         -MaxPosition <= clamp_position(p) + d, clamp_position(p) + d <= MaxPosition
  PROVE  /\ d > 0 /\ b <= o => p + b + r <= MaxPosition + o
         /\ ~(d > 0) /\ s <= o => p - s - r >= -(MaxPosition + o)
BY PlannerAssumption, SMT DEF Abs, clamp_position

-----------------------------------------------------------------------------

LEMMA InitInv == Init => Inv
<1> SUFFICES ASSUME Init PROVE Inv
  OBVIOUS
<1>1. TypeOK
  BY PlannerAssumption DEF Init, TypeOK, QuantityType, PlanType, PassType, NoPlan, IdlePass, Sides, Urgencies
<1>2. OvershootIsWhatWasWorking
  BY PlannerAssumption, SMT DEF Init, OvershootIsWhatWasWorking
<1>3. Planned /\ Routed
  BY DEF Init, Planned, Routed, IdlePass
<1> QED
  BY <1>1, <1>2, <1>3 DEF Inv

\* The evaluation: Planned begins to hold.
LEMMA EvaluateStep == Inv /\ Evaluate => Inv'
<1> SUFFICES ASSUME Inv, Evaluate PROVE Inv'
  OBVIOUS
<1>1. PICK position \in (IF paper THEN {pos} ELSE build_live_portfolio_snapshot) :
        LET current == clamp_position(position)
        IN  /\ \E countsShock, countsIlliquid \in BOOLEAN :
                 /\ shock' = Hysteresis(shock, countsShock)
                 /\ illiquid' = Hysteresis(illiquid, countsIlliquid)
            /\ \E off, stale, strong \in BOOLEAN, healthy \in 0..2, wanted \in -MaxPosition..MaxPosition :
                 /\ stale => current # 0
                 /\ \E intent \in Intents(current, off, shock'.active, illiquid'.active, wanted, stale, strong, healthy) :
                      pass' = [IdlePass EXCEPT !.at = "plan", !.from = current, !.delta = intent.delta, !.urgency = intent.urgency]
  BY DEF Evaluate
<1>2. position \in Int
  BY PlannerAssumption DEF Inv, TypeOK, QuantityType, build_live_portfolio_snapshot
<1> DEFINE current == clamp_position(position)
<1>3. current \in Int /\ -MaxPosition <= current /\ current <= MaxPosition
  BY <1>2, Clamps
<1>4a. PICK off \in BOOLEAN, stale \in BOOLEAN, strong \in BOOLEAN, healthy \in 0..2, wanted \in -MaxPosition..MaxPosition :
        /\ stale => current # 0
        /\ \E intent \in Intents(current, off, shock'.active, illiquid'.active, wanted, stale, strong, healthy) :
             pass' = [IdlePass EXCEPT !.at = "plan", !.from = current, !.delta = intent.delta, !.urgency = intent.urgency]
  BY <1>1
<1>4. PICK intent \in Intents(current, off, shock'.active, illiquid'.active, wanted, stale, strong, healthy) :
        pass' = [IdlePass EXCEPT !.at = "plan", !.from = current, !.delta = intent.delta, !.urgency = intent.urgency]
  BY <1>4a
<1>5. paper => current = clamp_position(pos)
  BY <1>1
<1> HIDE DEF current
<1>6. wanted \in Int
  BY PlannerAssumption
<1>7. /\ intent.delta \in Int /\ intent.urgency \in Urgencies
      /\ -MaxPosition <= current + intent.delta /\ current + intent.delta <= MaxPosition
  BY <1>3, <1>6, IntentsFit, Zenon
<1>8. /\ pass'.at = "plan" /\ pass'.from = current /\ pass'.delta = intent.delta
      /\ PassType'
  BY <1>3, <1>4, <1>7 DEF IdlePass, PassType
<1>9. UNCHANGED <<paper, threshold, pos, buys, sells, plan, over>>
  BY DEF Evaluate
<1>10. TypeOK'
  BY <1>8, <1>9 DEF Inv, TypeOK, QuantityType, PlanType
<1>11. OvershootIsWhatWasWorking'
  BY <1>9 DEF Inv, OvershootIsWhatWasWorking
<1>12. Planned'
  BY <1>5, <1>7, <1>8, <1>9 DEF Planned, clamp_position
<1>13. Routed'
  BY <1>8 DEF Routed
<1> QED
  BY <1>10, <1>11, <1>12, <1>13 DEF Inv

\* The plan: what was to go into the limits now fits into them.
LEMMA UpdateTargetStep == Inv /\ UpdateTarget => Inv'
<1> SUFFICES ASSUME Inv, UpdateTarget PROVE Inv'
  OBVIOUS
<1> USE DEF Inv, TypeOK
<1>1. PICK expired \in BOOLEAN, extended \in BOOLEAN, garbage \in {0, 2 * MaxPosition} :
        /\ expired => plan.active
        /\ LET result == Updated(expired, extended, garbage) IN
          /\ plan' = result.plan
          /\ IF result.acted /\ result.plan.active /\ result.plan.remaining > 0
             THEN /\ \E sweep \in Sweeps(pass.urgency) :
                       pass' = [IdlePass EXCEPT !.at = "route", !.from = pass.from,
                                                !.delta = pass.delta, !.sweep = sweep, !.left = result.plan.remaining]
                  /\ over' = Largest(over, IF pass.delta > 0 THEN buys ELSE sells)
             ELSE pass' = IdlePass /\ UNCHANGED over
  BY DEF UpdateTarget
<1>2. garbage \in Nat
  BY PlannerAssumption
<1>3. /\ plan' \in [active : BOOLEAN, side : Sides, total : Nat, remaining : Nat, urgency : Urgencies]
      /\ plan'.remaining <= Abs(pass.delta)
  BY <1>1, <1>2, UpdatesFit, Zenon DEF QuantityType
<1>4. /\ UNCHANGED <<paper, threshold, pos, buys, sells>> /\ pass.at = "plan"
  BY DEF UpdateTarget
<1>5. CASE pass' = IdlePass /\ UNCHANGED over
  <2>1. pass'.at = "idle" /\ PassType'
    BY <1>5 DEF IdlePass, PassType, Urgencies
  <2> QED
    BY <1>3, <1>4, <1>5, <2>1 DEF QuantityType, PlanType, OvershootIsWhatWasWorking, Planned, Routed
<1>6. CASE /\ plan'.remaining > 0
           /\ \E sweep \in Sweeps(pass.urgency) :
                pass' = [IdlePass EXCEPT !.at = "route", !.from = pass.from,
                                         !.delta = pass.delta, !.sweep = sweep, !.left = plan'.remaining]
           /\ over' = Largest(over, IF pass.delta > 0 THEN buys ELSE sells)
  <2>1. PICK sweep \in Sweeps(pass.urgency) :
          pass' = [IdlePass EXCEPT !.at = "route", !.from = pass.from,
                                   !.delta = pass.delta, !.sweep = sweep, !.left = plan'.remaining]
    BY <1>6
  <2>2. plan'.remaining \in Nat /\ plan'.remaining \in Nat \ {0}
    BY <1>3, <1>6
  <2>3. sweep \in BOOLEAN
    BY DEF Sweeps
  <2>4. /\ pass'.at = "route" /\ pass'.delta = pass.delta /\ pass'.left = plan'.remaining
        /\ PassType'
    BY <2>1, <2>2, <2>3 DEF IdlePass, PassType, Urgencies
  <2>g. over' \in Nat /\ over <= over'
    BY <1>6, SMT DEF Largest, QuantityType
  <2>5. /\ pass.delta > 0 => buys <= over'
        /\ ~(pass.delta > 0) => sells <= over'
    BY <1>6, SMT DEF Largest, QuantityType
  <2>6. TypeOK'
    BY <1>3, <1>4, <2>4, <2>g DEF QuantityType, PlanType
  <2>7. OvershootIsWhatWasWorking'
    <3>1. /\ pos \in Int /\ buys \in Nat /\ sells \in Nat /\ over \in Nat /\ MaxPosition \in Nat
          /\ paper => pos + buys <= MaxPosition + over /\ pos - sells >= -(MaxPosition + over)
      BY PlannerAssumption DEF QuantityType, OvershootIsWhatWasWorking
    <3>2. paper' = paper /\ pos' = pos /\ buys' = buys /\ sells' = sells
      BY <1>4
    <3>3. paper => pos + buys <= MaxPosition + over' /\ pos - sells >= -(MaxPosition + over')
      BY <2>g, <3>1, LimitsGrow
    <3> QED
      BY <3>2, <3>3 DEF OvershootIsWhatWasWorking
  <2>8. Planned'
    BY <2>4 DEF Planned
  <2>9. Routed'
    <3>1. pass.delta \in Int
      BY DEF PassType
    <3>2. SUFFICES ASSUME paper
                   PROVE  /\ pass.delta > 0 => pos + buys + plan'.remaining <= MaxPosition + over'
                          /\ ~(pass.delta > 0) => pos - sells - plan'.remaining >= -(MaxPosition + over')
      BY <1>4, <2>4 DEF Routed
    <3>3. -MaxPosition <= clamp_position(pos) + pass.delta /\ clamp_position(pos) + pass.delta <= MaxPosition
      BY <3>2, <1>4 DEF Planned
    <3>4. pos \in Int /\ buys \in Nat /\ sells \in Nat
      BY DEF QuantityType
    <3> QED
      BY <1>3, <2>2, <2>5, <2>g, <3>1, <3>3, <3>4, DifferenceFits
  <2> QED
    BY <2>6, <2>7, <2>8, <2>9
<1> QED
  BY <1>1, <1>5, <1>6, Zenon

\* A child order: what it adds to the working quantity leaves what is left.
LEMMA ChildStep ==
  ASSUME NEW v \in Venues, NEW depth \in make_quote, NEW accepted \in BOOLEAN
  PROVE  Inv /\ Child(v, depth, accepted) => Inv'
<1> SUFFICES ASSUME Inv, Child(v, depth, accepted) PROVE Inv'
  OBVIOUS
<1> USE DEF Inv, TypeOK
<1> DEFINE qty == Clip(pass.left, depth)
<1>1. pass.left \in Nat /\ pass.delta \in Int /\ pass.at = "route"
  BY DEF PassType, Child
<1>2. depth \in Nat
  BY PlannerAssumption DEF make_quote
<1>3. qty \in Nat /\ qty <= pass.left
  BY <1>1, <1>2, SMT DEF Clip, Least
<1>4. /\ buys' = IF accepted /\ pass.delta > 0 THEN buys + qty ELSE buys
      /\ sells' = IF accepted /\ ~(pass.delta > 0) THEN sells + qty ELSE sells
      /\ pass' = IF pass.sweep /\ qty < pass.left
                 THEN [pass EXCEPT !.left = @ - qty, !.used = @ \cup {v}]
                 ELSE IdlePass
      /\ UNCHANGED <<paper, threshold, pos, plan, over>>
  BY DEF Child
<1> HIDE DEF qty
<1>5. QuantityType' /\ PlanType'
  BY <1>3, <1>4 DEF QuantityType, PlanType
<1>6. pass'.at \in {"idle", "route"} /\ PassType'
  <2>1. CASE pass' = IdlePass
    BY <2>1 DEF IdlePass, PassType, Urgencies
  <2>2. CASE qty < pass.left /\ pass' = [pass EXCEPT !.left = @ - qty, !.used = @ \cup {v}]
    <3>1. pass.left - qty \in Nat
      BY <1>1, <1>3, <2>2, SMT
    <3> QED
      BY <1>1, <2>2, <3>1 DEF PassType
  <2> QED
    BY <1>4, <2>1, <2>2
<1>7. OvershootIsWhatWasWorking'
  BY <1>1, <1>3, <1>4, PlannerAssumption, SMT DEF OvershootIsWhatWasWorking, Routed, QuantityType
<1>8. Planned'
  BY <1>6 DEF Planned
<1>9. Routed'
  <2>1. CASE pass' = IdlePass
    BY <2>1 DEF Routed, IdlePass
  <2>2. CASE pass' = [pass EXCEPT !.left = @ - qty, !.used = @ \cup {v}]
    <3>1. pass'.left = pass.left - qty /\ pass'.delta = pass.delta
      BY <2>2 DEF PassType
    <3> QED
      BY <1>1, <1>3, <1>4, <3>1, PlannerAssumption, SMT DEF Routed, QuantityType
  <2> QED
    BY <1>4, <2>1, <2>2
<1> QED
  BY <1>5, <1>6, <1>7, <1>8, <1>9

\* The venues: a fill moves quantity from working to held, what dies is gone.
LEMMA VenueStep == Inv /\ (FillBuy \/ FillSell \/ Dies) => Inv'
<1> SUFFICES ASSUME Inv, FillBuy \/ FillSell \/ Dies PROVE Inv'
  OBVIOUS
<1> USE DEF Inv, TypeOK
<1>1. /\ UNCHANGED <<paper, threshold, plan, pass, over>> /\ (paper => pass.at = "idle")
  BY DEF FillBuy, FillSell, Dies, Between
<1>2. PlanType' /\ PassType' /\ Planned' /\ Routed'
  BY <1>1 DEF PlanType, PassType, Planned, Routed
<1>3. CASE FillBuy
  BY <1>1, <1>2, <1>3, PlannerAssumption, SMT DEF FillBuy, QuantityType, OvershootIsWhatWasWorking
<1>4. CASE FillSell
  BY <1>1, <1>2, <1>4, PlannerAssumption, SMT DEF FillSell, QuantityType, OvershootIsWhatWasWorking
<1>5. CASE Dies
  BY <1>1, <1>2, <1>5, PlannerAssumption, SMT DEF Dies, QuantityType, OvershootIsWhatWasWorking
<1> QED
  BY <1>3, <1>4, <1>5

\* The end of a pass, and a stutter.
LEMMA OtherStep == Inv /\ (RouteEnds \/ UNCHANGED vars) => Inv'
<1>1. Inv /\ RouteEnds => Inv'
  BY DEF RouteEnds, Inv, TypeOK, QuantityType, PlanType, PassType, IdlePass, Urgencies,
         OvershootIsWhatWasWorking, Planned, Routed
<1>2. Inv /\ UNCHANGED vars => Inv'
  BY DEF vars, Inv, TypeOK, QuantityType, PlanType, PassType, OvershootIsWhatWasWorking, Planned, Routed, clamp_position
<1> QED
  BY <1>1, <1>2

\* In every reachable state of the planner, for every maximum, threshold,
\* number of venues and depth, position and working orders exceed the maximum by
\* no more than what was working, uncounted, when more was sent: the loop sends
\* the whole difference on every pass (trading_engine_main.cpp:1090).
THEOREM OvershootIsBounded == Spec => []OvershootIsWhatWasWorking
<1>1. Inv /\ [Next]_vars => Inv'
  BY EvaluateStep, UpdateTargetStep, ChildStep, VenueStep, OtherStep DEF Next
<1>2. Inv => OvershootIsWhatWasWorking
  BY DEF Inv
<1> QED
  BY InitInv, <1>1, <1>2, PTL DEF Spec
-----------------------------------------------------------------------------
(* A shock only reduces.  The regime is read when a pass begins and does not  *)
(* move before it ends, so the pass still carries the whole position that was *)
(* read, turned round, and what is left to send is part of it.                *)

Flattens ==
  /\ shock.active /\ pass.at # "idle" => pass.delta = -pass.from
  /\ pass.at = "route" => pass.left <= Abs(pass.delta)

ShockInv == Inv /\ Flattens

\* One child order of a pass that flattens goes against the position.
LEMMA FlatteningChild ==
  ASSUME NEW d \in Int, NEW from \in Int, d = -from, NEW left \in Nat, left <= Abs(d),
         NEW qty \in Nat, qty <= left, qty > 0
  PROVE  /\ d > 0 => from < 0 /\ qty <= -from
         /\ ~(d > 0) => from > 0 /\ qty <= from
BY SMT DEF Abs

LEMMA FlattensEvaluate == ShockInv /\ Evaluate => Flattens'
<1> SUFFICES ASSUME ShockInv, Evaluate PROVE Flattens'
  OBVIOUS
<1>1. PICK position \in (IF paper THEN {pos} ELSE build_live_portfolio_snapshot) :
        LET current == clamp_position(position)
        IN  /\ \E countsShock, countsIlliquid \in BOOLEAN :
                 /\ shock' = Hysteresis(shock, countsShock)
                 /\ illiquid' = Hysteresis(illiquid, countsIlliquid)
            /\ \E off, stale, strong \in BOOLEAN, healthy \in 0..2, wanted \in -MaxPosition..MaxPosition :
                 /\ stale => current # 0
                 /\ \E intent \in Intents(current, off, shock'.active, illiquid'.active, wanted, stale, strong, healthy) :
                      pass' = [IdlePass EXCEPT !.at = "plan", !.from = current, !.delta = intent.delta, !.urgency = intent.urgency]
  BY DEF Evaluate
<1> DEFINE current == clamp_position(position)
<1>2. PICK off \in BOOLEAN, stale \in BOOLEAN, strong \in BOOLEAN, healthy \in 0..2, wanted \in -MaxPosition..MaxPosition :
        \E intent \in Intents(current, off, shock'.active, illiquid'.active, wanted, stale, strong, healthy) :
          pass' = [IdlePass EXCEPT !.at = "plan", !.from = current, !.delta = intent.delta, !.urgency = intent.urgency]
  BY <1>1
<1>3. PICK intent \in Intents(current, off, shock'.active, illiquid'.active, wanted, stale, strong, healthy) :
        pass' = [IdlePass EXCEPT !.at = "plan", !.from = current, !.delta = intent.delta, !.urgency = intent.urgency]
  BY <1>2
<1> HIDE DEF current
<1>4. ASSUME shock'.active PROVE intent.delta = -current
  <2> DEFINE flat == {[delta |-> -current, urgency |-> "AGGRESSIVE"]}
  <2>1. Intents(current, off, shock'.active, illiquid'.active, wanted, stale, strong, healthy) = flat
    BY <1>4 DEF Intents
  <2>2. intent \in flat
    BY <2>1
  <2> QED
    BY <2>2
<1>5. pass'.at = "plan" /\ pass'.from = current /\ pass'.delta = intent.delta
  BY <1>3 DEF IdlePass
<1> QED
  BY <1>4, <1>5 DEF Flattens

LEMMA FlattensUpdate == ShockInv /\ UpdateTarget => Flattens'
<1> SUFFICES ASSUME ShockInv, UpdateTarget PROVE Flattens'
  OBVIOUS
<1>1. PICK expired \in BOOLEAN, extended \in BOOLEAN, garbage \in {0, 2 * MaxPosition} :
        /\ expired => plan.active
        /\ LET result == Updated(expired, extended, garbage) IN
          /\ plan' = result.plan
          /\ IF result.acted /\ result.plan.active /\ result.plan.remaining > 0
             THEN /\ \E sweep \in Sweeps(pass.urgency) :
                       pass' = [IdlePass EXCEPT !.at = "route", !.from = pass.from,
                                                !.delta = pass.delta, !.sweep = sweep, !.left = result.plan.remaining]
                  /\ over' = Largest(over, IF pass.delta > 0 THEN buys ELSE sells)
             ELSE pass' = IdlePass /\ UNCHANGED over
  BY DEF UpdateTarget
<1>2. garbage \in Nat
  BY PlannerAssumption
<1>3. plan'.remaining <= Abs(pass.delta)
  BY <1>1, <1>2, UpdatesFit, Zenon DEF ShockInv, Inv, TypeOK, QuantityType
<1>4. shock' = shock /\ pass.at = "plan"
  BY DEF UpdateTarget
<1>5. CASE pass' = IdlePass
  BY <1>5 DEF IdlePass, Flattens
<1>6. CASE \E sweep \in Sweeps(pass.urgency) :
             pass' = [IdlePass EXCEPT !.at = "route", !.from = pass.from,
                                      !.delta = pass.delta, !.sweep = sweep, !.left = plan'.remaining]
  <2>1. pass'.from = pass.from /\ pass'.delta = pass.delta /\ pass'.left = plan'.remaining
    BY <1>6 DEF IdlePass
  <2>2. shock.active => pass.delta = -pass.from
    BY <1>4 DEF ShockInv, Flattens
  <2> QED
    BY <1>3, <1>4, <2>1, <2>2 DEF Flattens
<1> QED
  BY <1>1, <1>5, <1>6, Zenon

\* A child order leaves less to send, or ends the pass.
LEMMA FlattensChild ==
  ASSUME ShockInv, NEW v \in Venues, NEW depth \in make_quote, NEW accepted \in BOOLEAN,
         Child(v, depth, accepted)
  PROVE  /\ Flattens'
         /\ shock.active /\ buys' > buys => pass.from < 0 /\ buys' - buys <= -pass.from
         /\ shock.active /\ sells' > sells => pass.from > 0 /\ sells' - sells <= pass.from
<1> DEFINE qty == Clip(pass.left, depth)
<1>1. /\ pass.left \in Nat /\ pass.delta \in Int /\ pass.from \in Int /\ pass.at = "route"
      /\ buys \in Nat /\ sells \in Nat /\ pass.left <= Abs(pass.delta)
      /\ shock.active => pass.delta = -pass.from
  BY DEF ShockInv, Flattens, Inv, TypeOK, QuantityType, PassType, Child
<1>2. depth \in Nat
  BY PlannerAssumption DEF make_quote
<1>3. qty \in Nat /\ qty <= pass.left
  BY <1>1, <1>2, SMT DEF Clip, Least
<1>4. /\ buys' = IF accepted /\ pass.delta > 0 THEN buys + qty ELSE buys
      /\ sells' = IF accepted /\ ~(pass.delta > 0) THEN sells + qty ELSE sells
      /\ pass' = IF pass.sweep /\ qty < pass.left
                 THEN [pass EXCEPT !.left = @ - qty, !.used = @ \cup {v}]
                 ELSE IdlePass
      /\ shock' = shock
  BY DEF Child
<1> HIDE DEF qty
<1>5. Flattens'
  <2>1. CASE pass' = IdlePass
    BY <2>1 DEF IdlePass, Flattens
  <2>2. CASE pass' = [pass EXCEPT !.left = @ - qty, !.used = @ \cup {v}]
    <3>1. pass'.left = pass.left - qty /\ pass'.delta = pass.delta /\ pass'.from = pass.from
      BY <2>2 DEF ShockInv, Inv, TypeOK, PassType
    <3>2. Abs(pass.delta) \in Int
      BY <1>1, SMT DEF Abs
    <3>3. pass.left - qty <= Abs(pass.delta)
      BY <1>1, <1>3, <3>2, SMT
    <3> QED
      BY <1>1, <1>4, <3>1, <3>3 DEF Flattens
  <2> QED
    BY <1>4, <2>1, <2>2
<1>6. ASSUME shock.active, qty > 0
      PROVE  /\ pass.delta > 0 => pass.from < 0 /\ qty <= -pass.from
             /\ ~(pass.delta > 0) => pass.from > 0 /\ qty <= pass.from
  BY <1>1, <1>3, <1>6, FlatteningChild, Zenon
<1>7. /\ buys' > buys => pass.delta > 0 /\ qty > 0 /\ buys' - buys = qty
      /\ sells' > sells => ~(pass.delta > 0) /\ qty > 0 /\ sells' - sells = qty
  BY <1>1, <1>3, <1>4
<1> QED
  BY <1>5, <1>6, <1>7

\* For every maximum, depth and number of venues: while the shock regime is
\* active no order is sent except against the position that was read, and for
\* no more than it, also when the plan or the route began in an earlier step
\* (portfolio_intent_engine.hpp:151).
THEOREM ShocksFlatten == Spec => ShockOnlyReduces
<1>1. Init => ShockInv
  BY InitInv DEF Init, ShockInv, Flattens, IdlePass
<1>2. Inv /\ [Next]_vars => Inv'
  BY EvaluateStep, UpdateTargetStep, ChildStep, VenueStep, OtherStep DEF Next
<1>3. ASSUME ShockInv, RouteEnds \/ FillBuy \/ FillSell \/ Dies \/ UNCHANGED vars
      PROVE  /\ Flattens'
             /\ buys' <= buys /\ sells' <= sells
  <2>1. (pass' = pass /\ shock' = shock) \/ RouteEnds
    BY <1>3 DEF FillBuy, FillSell, Dies, vars
  <2>2. Flattens'
    BY <2>1, <1>3 DEF ShockInv, Flattens, RouteEnds, IdlePass, Abs
  <2>3. buys \in Nat /\ sells \in Nat
    BY <1>3 DEF ShockInv, Inv, TypeOK, QuantityType
  <2>4. buys' <= buys /\ sells' <= sells
    BY <1>3, <2>3 DEF RouteEnds, FillBuy, FillSell, Dies, vars
  <2> QED
    BY <2>2, <2>4
<1>4. ShockInv /\ [Next]_vars => ShockInv'
  BY <1>2, <1>3, FlattensEvaluate, FlattensUpdate, FlattensChild DEF Next, ShockInv
<1>5. ShockInv /\ [Next]_vars => [Reducing]_vars
  <2> SUFFICES ASSUME ShockInv, [Next]_vars PROVE [Reducing]_vars
    OBVIOUS
  <2>0. buys \in Nat /\ sells \in Nat
    BY DEF ShockInv, Inv, TypeOK, QuantityType
  <2>1. CASE \E v \in Venues, depth \in make_quote, accepted \in BOOLEAN : Child(v, depth, accepted)
    BY <2>1, FlattensChild DEF Child, Reducing
  <2>2. CASE Evaluate \/ UpdateTarget
    BY <2>2 DEF Evaluate, UpdateTarget, Reducing
  <2>3. CASE RouteEnds \/ FillBuy \/ FillSell \/ Dies \/ UNCHANGED vars
    <3>1. buys' <= buys /\ sells' <= sells
      BY <1>3, <2>3
    <3>2. buys' \in Int /\ sells' \in Int
      BY <2>0, <2>3 DEF RouteEnds, FillBuy, FillSell, Dies, vars
    <3>3. ~(buys' > buys) /\ ~(sells' > sells)
      BY <2>0, <3>1, <3>2
    <3> QED
      BY <3>3 DEF Reducing
  <2> QED
    BY <2>1, <2>2, <2>3 DEF Next
<1> QED
  BY <1>1, <1>4, <1>5, PTL DEF Spec, ShockOnlyReduces
=============================================================================
