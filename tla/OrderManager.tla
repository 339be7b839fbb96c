---------------------------- MODULE OrderManager ----------------------------
(***************************************************************************)
(* The OrderManager: a pool of working orders, the fills that reach it from *)
(* the connector's thread through a bounded queue, the net position and the *)
(* PositionLedger (core/execution/common/orders/order_manager.hpp and       *)
(* core/execution/common/portfolio/position_ledger.hpp).                    *)
(*                                                                         *)
(* Two threads: the strategy's submits orders and drains the queue; the     *)
(* connector's executes orders and queues what happened to them, also while *)
(* a submit has not returned yet.  The queue is the one BoundedQueue        *)
(* specifies and SpscQueue implements.  The connector is external here:     *)
(* LiveConnector shows that it may answer a submit with an error although   *)
(* the order is at the venue or still reaches it.                           *)
(*                                                                         *)
(* Quantities are integers; prices and profit are left out.                 *)
(***************************************************************************)
EXTENDS Integers, Sequences, FiniteSets, Functions

CONSTANTS
  Venues,             \* (exchange, symbol) pairs traded through the manager
  MaxVenues,          \* PositionLedger::MAX_VENUES (4 in the code)
  MaxSlots,           \* OrderManager::MAX_ORDERS (64 in the code)
  QueueCap,           \* FILL_QUEUE_DEPTH - 1 (127 in the code)
  Quantities,         \* order sizes
  InitialPosition,    \* what the uninitialised position_ happens to hold
  MaxId               \* bound of the model: orders ever submitted

ASSUME ManagerAssumption == /\ IsFiniteSet(Venues) /\ MaxVenues \in Nat
                            /\ MaxSlots \in Nat /\ QueueCap \in Nat
                            /\ Quantities \subseteq Nat \ {0}
                            /\ InitialPosition \in Int
                            /\ MaxId \in Nat

VARIABLES
  slots,     \* slots_
  next_id,   \* next_id_
  position,  \* position_
  ledger,    \* ledger_: by venue, tracked or not, pending quantities, position
  q,         \* fill_queue_
  strat,     \* where the strategy thread is, and the slot it is submitting
  orders,    \* the connector's side of every order, by client id
  dropped,   \* history: the updates a full queue refused
  refused    \* history: the ids whose submit returned an error

vars == <<slots, next_id, position, ledger, q, strat, orders, dropped, refused>>

Ids == 1..MaxId
Sides == {"BID", "ASK"}
Update == [id : Ids, qty : Nat, cum : Nat, done : BOOLEAN]
FreeSlot == [id |-> 0, v |-> CHOOSE v \in Venues : TRUE, side |-> "BID",
             qty |-> 0, filled |-> 0, active |-> FALSE]
Untracked == [active |-> FALSE, pending |-> [s \in Sides |-> 0], position |-> 0]
Signed(side, n) == IF side = "BID" THEN n ELSE -n
MinusToZero(a, b) == IF a > b THEN a - b ELSE 0

Init ==
  /\ slots = [i \in 1..MaxSlots |-> FreeSlot]
  /\ next_id = 1
  /\ position = InitialPosition
  /\ ledger = [v \in Venues |-> Untracked]
  /\ q = << >>
  /\ strat = [pc |-> "idle", slot |-> 0]
  /\ orders = << >>
  /\ dropped = {}
  /\ refused = {}

-----------------------------------------------------------------------------
(* PositionLedger.  A venue that finds no room is ignored from then on. *)

Tracked(l) == {v \in Venues : l[v].active}
find_or_create_venue(l, v) ==
  IF Cardinality(Tracked(l)) < MaxVenues THEN [l EXCEPT ![v].active = TRUE] ELSE l

on_order_submitted(l, o) ==
  LET m == find_or_create_venue(l, o.v) IN
  IF m[o.v].active THEN [m EXCEPT ![o.v].pending[o.side] = @ + o.qty] ELSE m

\* Mutant of on_order_closed: the order's whole quantity is taken off.
ClosedInFull(l, o, remaining) ==
  [l EXCEPT ![o.v].pending[o.side] = MinusToZero(@, o.qty)]

on_order_closed(l, o, remaining) ==
  IF l[o.v].active
  THEN [l EXCEPT ![o.v].pending[o.side] = MinusToZero(@, remaining)] ELSE l

\* The position of the venue; its entry price, profit and age are left out.
apply_inventory_fill(held, side, n) == held + Signed(side, n)

ledger_on_fill(l, o, n) ==
  LET m == find_or_create_venue(l, o.v) IN
  IF m[o.v].active
  THEN [m EXCEPT ![o.v].pending[o.side] = MinusToZero(@, n),
                 ![o.v].position = apply_inventory_fill(@, o.side, n)] ELSE m

-----------------------------------------------------------------------------
(* submit, on the strategy's thread: a slot is taken before the connector is *)
(* called, the ledger hears of the order after the call.                     *)

FreeSlots == {i \in 1..MaxSlots : ~slots[i].active}
find_free_slot == CHOOSE i \in FreeSlots : \A j \in FreeSlots : i <= j

Submit(v, side, n) ==
  /\ strat.pc = "idle"
  /\ FreeSlots # {}
  /\ next_id <= MaxId
  /\ slots' = [slots EXCEPT ![find_free_slot] =
                 [id |-> next_id, v |-> v, side |-> side, qty |-> n,
                  filled |-> 0, active |-> TRUE]]
  /\ strat' = [pc |-> "submit", slot |-> find_free_slot]
  /\ orders' = Append(orders, [v |-> v, side |-> side, qty |-> n,
                               filled |-> 0, status |-> "SENT"])
  /\ next_id' = next_id + 1
  /\ UNCHANGED <<position, ledger, q, dropped, refused>>

SubmitOk ==
  /\ strat.pc = "submit"
  /\ orders[slots[strat.slot].id].status # "SENT"
  /\ ledger' = on_order_submitted(ledger, slots[strat.slot])
  /\ strat' = [pc |-> "idle", slot |-> 0]
  /\ UNCHANGED <<slots, next_id, position, q, orders, dropped, refused>>

SubmitFailed ==
  /\ strat.pc = "submit"
  /\ slots' = [slots EXCEPT ![strat.slot].active = FALSE]
  /\ strat' = [pc |-> "idle", slot |-> 0]
  /\ refused' = refused \cup {slots[strat.slot].id}
  /\ UNCHANGED <<next_id, position, ledger, q, orders, dropped>>

-----------------------------------------------------------------------------
(* The connector: on_fill pushes, and a full queue drops the update. *)

Push(u) ==
  IF Len(q) < QueueCap
  THEN q' = Append(q, u) /\ dropped' = dropped
  ELSE q' = q /\ dropped' = dropped \cup {u}

\* The order reaches the venue, perhaps after its submit was given up.
Accept(id) ==
  /\ orders[id].status = "SENT"
  /\ orders' = [orders EXCEPT ![id].status = "LIVE"]
  /\ UNCHANGED <<slots, next_id, position, ledger, q, strat, dropped, refused>>

Fill(id, n) ==
  LET cum == orders[id].filled + n IN
  /\ orders[id].status = "LIVE"
  /\ cum <= orders[id].qty
  /\ orders' = [orders EXCEPT ![id].filled = cum,
                              ![id].status = IF cum = orders[id].qty THEN "CLOSED" ELSE "LIVE"]
  /\ Push([id |-> id, qty |-> n, cum |-> cum, done |-> cum = orders[id].qty])
  /\ UNCHANGED <<slots, next_id, position, ledger, strat, refused>>

\* The order is cancelled, by the strategy or not, or rejected.
\* emit_cancel and emit_reject leave the cumulative fill 0.
Close(id) ==
  /\ orders[id].status = "LIVE"
  /\ orders' = [orders EXCEPT ![id].status = "CLOSED"]
  /\ Push([id |-> id, qty |-> 0, cum |-> 0, done |-> TRUE])
  /\ UNCHANGED <<slots, next_id, position, ledger, strat, refused>>

-----------------------------------------------------------------------------
(* drain_fills, on the strategy's thread: pop and apply until empty *)

DrainFills ==
  /\ strat.pc = "idle"
  /\ strat' = [strat EXCEPT !.pc = "drain"]
  /\ UNCHANGED <<slots, next_id, position, ledger, q, orders, dropped, refused>>

find_order(id) == {i \in 1..MaxSlots : slots[i].active /\ slots[i].id = id}

\* Mutant of PositionAfter: the cumulative fill is added each time.
PositionAfterCumulative(o, u) == position + Signed(o.side, u.cum)

PositionAfter(o, u) == position + Signed(o.side, u.qty)

\* Mutant of SlotAfter: a cancel does not end the order.
SlotAfterOpen(o, u) == [o EXCEPT !.filled = u.cum, !.active = ~(u.done /\ u.qty > 0)]

SlotAfter(o, u) == [o EXCEPT !.filled = u.cum, !.active = ~u.done]

LedgerAfter(o, u) ==
  LET l == IF u.qty > 0 THEN ledger_on_fill(ledger, o, u.qty) ELSE ledger IN
  IF u.done THEN on_order_closed(l, o, MinusToZero(o.qty, u.cum)) ELSE l

\* An update whose order holds no active slot is ignored.
ApplyFill ==
  /\ strat.pc = "drain"
  /\ q # << >>
  /\ q' = Tail(q)
  /\ LET u == Head(q) IN
       \/ /\ find_order(u.id) = {}
          /\ UNCHANGED <<slots, position, ledger>>
       \/ \E i \in find_order(u.id) :
            /\ slots' = [slots EXCEPT ![i] = SlotAfter(@, u)]
            /\ position' = PositionAfter(slots[i], u)
            /\ ledger' = LedgerAfter(slots[i], u)
  /\ UNCHANGED <<next_id, strat, orders, dropped, refused>>

DrainDone ==
  /\ strat.pc = "drain"
  /\ q = << >>
  /\ strat' = [strat EXCEPT !.pc = "idle"]
  /\ UNCHANGED <<slots, next_id, position, ledger, q, orders, dropped, refused>>

\* update_mid_price may be the first the ledger hears of a venue.
UpdateMidPrice(v) ==
  /\ strat.pc = "idle"
  /\ ledger' = find_or_create_venue(ledger, v)
  /\ UNCHANGED <<slots, next_id, position, q, strat, orders, dropped, refused>>

-----------------------------------------------------------------------------
Strategy == SubmitOk \/ SubmitFailed \/ DrainFills \/ ApplyFill \/ DrainDone

Next ==
  \/ \E v \in Venues : \/ UpdateMidPrice(v)
                       \/ \E side \in Sides, n \in Quantities : Submit(v, side, n)
  \/ Strategy
  \/ \E id \in 1..Len(orders) : \/ Accept(id) \/ Close(id)
                                \/ \E n \in 1..orders[id].qty : Fill(id, n)

Spec == Init /\ [][Next]_vars

\* The strategy drains at every book update; a submit returns (CallReturns of
\* LiveConnector).
FairSpec == Spec /\ WF_vars(SubmitOk \/ SubmitFailed)
                 /\ WF_vars(DrainFills) /\ WF_vars(ApplyFill \/ DrainDone)

-----------------------------------------------------------------------------
(* What the manager promises *)

\* PositionConserved: the position is the executions of the orders the manager
\* took on, less what is still queued and what a full queue dropped: a fill is
\* never applied twice, to another order that took over the slot, or lost
\* anywhere else (order_manager.hpp:135, apply_fill).
QtyOf(us, id) == SumFunction([u \in {u \in us : u.id = id} |-> u.qty])
QueuedUpdates == {q[i] : i \in 1..Len(q)}

PositionConserved ==
  position = InitialPosition +
    SumFunction([id \in (1..Len(orders)) \ refused |->
                   Signed(orders[id].side,
                          orders[id].filled - QtyOf(QueuedUpdates \cup dropped, id))])

\* PendingTracksOpenOrders: the pending quantity of a tracked venue is exactly
\* what its working orders can still execute, although the ledger hears of an
\* order only after its first fills may be queued.  Two events break this, each
\* one way only: an update dropped by a full queue leaves it too large, and an
\* order closed after a partial fill, whose update says 0 was filled, takes the
\* filled part off twice and leaves it too small
\* (position_ledger.hpp:47, :58 and :69, order_manager.hpp:150).
OpenQty(v, side) ==
  SumFunction([i \in {i \in 1..MaxSlots : /\ slots[i].active /\ slots[i].v = v
                                          /\ slots[i].side = side /\ i # strat.slot} |->
                 slots[i].qty - slots[i].filled])

ClosedHalfFilled(v, side) ==
  \E id \in (1..Len(orders)) \ refused :
    /\ orders[id].v = v /\ orders[id].side = side /\ orders[id].status = "CLOSED"
    /\ orders[id].filled > 0 /\ orders[id].filled < orders[id].qty

PendingTracksOpenOrders ==
  \A v \in Tracked(ledger), side \in Sides :
    /\ dropped = {} => ledger[v].pending[side] <= OpenQty(v, side)
    /\ ~ClosedHalfFilled(v, side) => ledger[v].pending[side] >= OpenQty(v, side)

\* SlotsTrackOrders: an order that is live and was not refused has its slot,
\* only one, and a slot whose order is over waits for an update that is in the
\* queue, unless a full queue dropped it (order_manager.hpp:66 and :156).
Ending(us, id) == \E u \in us : u.id = id /\ u.done

SlotsTrackOrders ==
  /\ \A id \in 1..Len(orders) :
       orders[id].status = "LIVE" /\ id \notin refused => Cardinality(find_order(id)) = 1
  /\ \A i \in 1..MaxSlots :
       slots[i].active /\ orders[slots[i].id].status = "CLOSED"
         => Ending(QueuedUpdates \cup dropped, slots[i].id)

\* SlotsAreFreed: an order that is over gives its slot back, unless the update
\* that says so was dropped (order_manager.hpp:101, drain_fills).
SlotsAreFreed ==
  \A id \in Ids :
    (id <= Len(orders) /\ orders[id].status = "CLOSED" /\ ~Ending(dropped, id))
      ~> find_order(id) = {}
=============================================================================
