--------------------------- MODULE ShadowConnector ---------------------------
(***************************************************************************)
(* Paper trading at one venue (core/shadow/shadow_engine.hpp): a pool of    *)
(* simulated orders matched against the live book, and the position, cash   *)
(* and profit they make.                                                    *)
(*                                                                         *)
(* submit, cancel and check_fills run on the engine's thread; the feed      *)
(* thread moves the book between any two reads of it, so check_fills looks  *)
(* whether an order can fill, reads the size and reads the price in three   *)
(* steps.  Money is exact: the average entry price is a quotient, so it and  *)
(* the realized profit are kept over a common denominator.                  *)
(***************************************************************************)
EXTENDS Integers, FiniteSets, FiniteSetsExt, Functions

CONSTANTS
  PoolSize,    \* slots of the order pool (MAX_SHADOW_ORDERS, 256)
  ClientIds,   \* client order ids, 1..n
  PaperQuantities,   \* what an order may ask for
  Prices,      \* prices of the book and of orders
  Sizes,       \* sizes at the top of the book
  Impact,      \* slippage of an order as large as the top of the book
  MakerFee, TakerFee   \* fees, in money for each unit traded

ASSUME ShadowAssumption ==
  /\ PoolSize \in Nat \ {0} /\ ClientIds \subseteq Nat \ {0} /\ IsFiniteSet(ClientIds)
  /\ PaperQuantities \subseteq Nat \ {0} /\ Prices \subseteq Nat \ {0} /\ Sizes \subseteq Nat \ {0}
  /\ Impact \in Nat /\ MakerFee \in Nat /\ TakerFee \in Nat

VARIABLES
  book,    \* best prices and their sizes; price 0 is an empty side
  pool,   \* the order pool
  acct,    \* net_position_, total_fees_, net_cashflow_, and over the denominator
           \* den: avg_entry_price_ = avg / den, realized_pnl_ = realized / den
  check,   \* where check_fills is: its slot, its step and the quantity decided
  nextId,  \* the next client order id
  asked,   \* history: the order submitted under each id
  report   \* history: what its listener was told

shadowVars == <<book, pool, acct, check, nextId, asked, report>>

Slots == 1..PoolSize
BookSides == {"BID", "ASK"}
Kinds == {"MARKET", "IOC", "GTX"}
PaperOrder == {r \in [id : ClientIds, side : BookSides, kind : Kinds, price : Prices, qty : PaperQuantities] :
            r.kind = "MARKET" => r.price = Min(Prices)}
NoOrder == [active |-> FALSE]
NotAsked == [side |-> "BID", kind |-> "none", qty |-> 0]
Idle == [at |-> 0, step |-> "idle", qty |-> 0]

Opposite(side) == IF side = "BID" THEN book.ask ELSE book.bid
OppositeSize(side) == IF side = "BID" THEN book.askSize ELSE book.bidSize

\* is_immediately_fillable
Fillable(o) ==
  o.kind = "MARKET" \/ (Opposite(o.side) > 0 /\ IF o.side = "BID" THEN o.price >= book.ask
                                                                 ELSE o.price <= book.bid)

ShadowInit ==
  /\ book = [bid |-> 0, ask |-> 0, bidSize |-> 0, askSize |-> 0]
  /\ pool = [s \in Slots |-> NoOrder]
  /\ acct = [pos |-> 0, den |-> 1, avg |-> 0, realized |-> 0, fees |-> 0, cash |-> 0]
  /\ check = Idle
  /\ nextId = 1
  /\ asked = [i \in ClientIds |-> NotAsked]
  /\ report = [i \in ClientIds |-> [filled |-> 0, final |-> "none"]]

-----------------------------------------------------------------------------
(* apply_position_fill_locked *)

Abs(n) == IF n < 0 THEN -n ELSE n
Sign(n) == IF n > 0 THEN 1 ELSE IF n < 0 THEN -1 ELSE 0

\* Mutant of Filled: a fill that turns the position keeps the old entry price.
FilledKeepsEntry(a, side, qty, px) ==
  LET signed == IF side = "BID" THEN qty ELSE -qty
      pos == a.pos + signed
      held == Abs(a.pos) + qty
      closing == IF Abs(a.pos) < qty THEN Abs(a.pos) ELSE qty
  IN  IF a.pos = 0 \/ Sign(a.pos) = Sign(signed)
      THEN [a EXCEPT !.pos = pos, !.den = @ * held, !.realized = @ * held,
                     !.avg = @ * Abs(a.pos) + px * qty * a.den]
      ELSE [a EXCEPT !.pos = pos, !.realized = @ + Sign(a.pos) * (px * a.den - a.avg) * closing,
                     !.avg = IF pos = 0 THEN 0 ELSE @]

\* Opening or adding averages the entry price; closing realizes a part, and what
\* turns the position starts a new entry price.
Filled(a, side, qty, px) ==
  LET signed == IF side = "BID" THEN qty ELSE -qty
      pos == a.pos + signed
      held == Abs(a.pos) + qty
      closing == IF Abs(a.pos) < qty THEN Abs(a.pos) ELSE qty
  IN  IF a.pos = 0 \/ Sign(a.pos) = Sign(signed)
      THEN [a EXCEPT !.pos = pos, !.den = @ * held, !.realized = @ * held,
                     !.avg = @ * Abs(a.pos) + px * qty * a.den]
      ELSE [a EXCEPT !.pos = pos, !.realized = @ + Sign(a.pos) * (px * a.den - a.avg) * closing,
                     !.avg = IF pos = 0 THEN 0 ELSE IF Sign(pos) # Sign(a.pos) THEN px * a.den ELSE @]

\* The rest of apply_fill: the fee, and the cash.
Booked(a, o, qty, px) ==
  LET fee == (IF o.maker THEN MakerFee ELSE TakerFee) * qty
      b == Filled(a, o.side, qty, px)
  IN  [b EXCEPT !.fees = @ + fee,
                !.cash = @ + (IF o.side = "ASK" THEN px * qty ELSE -px * qty) - fee]

\* Mutant of BookFill: an order filled to the end keeps its slot.
BookFillStays(s, o, qty, px) ==
  /\ pool' = [pool EXCEPT ![s] = [o EXCEPT !.filled = @ + qty]]
  /\ acct' = Booked(acct, o, qty, px)
  /\ report' = [report EXCEPT ![o.id].filled = @ + qty,
                              ![o.id].final = IF o.filled + qty >= o.qty THEN "FILLED" ELSE @]

\* apply_fill of slot s, whose order is o: the fill is booked and reported.
BookFill(s, o, qty, px) ==
  /\ pool' = [pool EXCEPT ![s] = IF o.filled + qty < o.qty THEN [o EXCEPT !.filled = @ + qty] ELSE NoOrder]
  /\ acct' = Booked(acct, o, qty, px)
  /\ report' = [report EXCEPT ![o.id].filled = @ + qty,
                              ![o.id].final = IF o.filled + qty >= o.qty THEN "FILLED" ELSE @]

\* emit_cancel or emit_reject, and the slot is given up.
CloseOrder(s, o, final) ==
  /\ pool' = [pool EXCEPT ![s] = NoOrder]
  /\ report' = [report EXCEPT ![o.id].final = final]
  /\ UNCHANGED acct

\* fill_at_best: at the opposite best price, worse by the slippage.
FillAtBest(s, o, qty) ==
  \/ /\ Opposite(o.side) > 0
     /\ LET slip == (Impact * qty) \div OppositeSize(o.side) IN
        BookFill(s, o, qty, IF o.side = "BID" THEN book.ask + slip ELSE book.bid - slip)
  \/ /\ Opposite(o.side) = 0
     /\ CloseOrder(s, o, "REJECTED")

-----------------------------------------------------------------------------
(* submit_order, cancel_order, replace_order and cancel_all *)

Free == {s \in Slots : ~pool[s].active}

Placed(r, queue, due, maker) ==
  [active |-> TRUE, id |-> r.id, side |-> r.side, kind |-> r.kind, price |-> r.price, qty |-> r.qty,
   filled |-> 0, queue |-> queue, due |-> due, maker |-> maker]

\* The first free slot is taken.  An order whose latency is over (due) and that
\* can fill takes all it wants at the price read next; any other one rests.
submit_order(r) ==
  /\ check = Idle /\ r.id = nextId
  /\ nextId' = nextId + 1
  /\ Free # {}
  /\ asked' = [asked EXCEPT ![r.id] = r]
  /\ \E due \in BOOLEAN, queue \in {0, 1} :
       LET s == Min(Free)
           crosses == due /\ Fillable(r)
       IN  /\ pool' = [pool EXCEPT ![s] = Placed(r, queue, due, ~crosses)]
           /\ check' = IF crosses THEN [at |-> s, step |-> "cross", qty |-> r.qty] ELSE Idle
  /\ UNCHANGED <<book, acct, report>>

\* The price of a crossing order is read.
SubmitFills(s) ==
  /\ check.step = "cross" /\ check.at = s
  /\ FillAtBest(s, pool[s], check.qty)
  /\ check' = Idle
  /\ UNCHANGED <<book, nextId, asked>>

submit_refused ==
  /\ check = Idle /\ nextId \in ClientIds
  /\ Free = {}
  /\ nextId' = nextId + 1
  /\ UNCHANGED <<book, pool, acct, check, asked, report>>

cancel_order(s) ==
  /\ check = Idle
  /\ pool[s].active
  /\ CloseOrder(s, pool[s], "CANCELED")
  /\ UNCHANGED <<book, check, nextId, asked>>

cancel_all ==
  /\ check = Idle /\ Free # Slots
  /\ pool' = [s \in Slots |-> NoOrder]
  /\ report' = [i \in ClientIds |-> IF \E s \in Slots : pool[s].active /\ pool[s].id = i
                                    THEN [report[i] EXCEPT !.final = "CANCELED"] ELSE report[i]]
  /\ UNCHANGED <<book, acct, check, nextId, asked>>

-----------------------------------------------------------------------------
(* check_fills: the slots one after the other *)

Advance == check' = IF check.at = PoolSize THEN Idle ELSE [at |-> check.at + 1, step |-> "look", qty |-> 0]

CheckStart ==
  /\ check = Idle
  /\ check' = [at |-> 1, step |-> "look", qty |-> 0]
  /\ UNCHANGED <<book, pool, acct, nextId, asked, report>>

Looking(s) == check.step = "look" /\ check.at = s

CheckSkip(s) ==
  /\ Looking(s)
  /\ pool[s].active => ~pool[s].due
  /\ Advance
  /\ UNCHANGED <<book, pool, acct, nextId, asked, report>>

\* Mutant of CheckUnfillable: an IOC order waits like any other one.
CheckUnfillableWaits(s) ==
  /\ Looking(s)
  /\ pool[s].active /\ pool[s].due /\ ~Fillable(pool[s])
  /\ Advance
  /\ UNCHANGED <<book, pool, acct, nextId, asked, report>>

\* An IOC order that cannot fill any more is cancelled; any other one waits.
CheckUnfillable(s) ==
  /\ Looking(s)
  /\ pool[s].active /\ pool[s].due /\ ~Fillable(pool[s])
  /\ IF pool[s].kind = "IOC"
     THEN CloseOrder(s, pool[s], "CANCELED")
     ELSE UNCHANGED <<pool, acct, report>>
  /\ Advance
  /\ UNCHANGED <<book, nextId, asked>>

\* A market order takes all it still wants; the others look at the size first.
CheckFillable(s) ==
  /\ Looking(s)
  /\ pool[s].active /\ pool[s].due /\ Fillable(pool[s])
  /\ check' = [check EXCEPT !.step = IF pool[s].kind = "MARKET" THEN "price" ELSE "size",
                            !.qty = pool[s].qty - pool[s].filled]
  /\ UNCHANGED <<book, pool, acct, nextId, asked, report>>

\* fill_passive_or_cross: what is at the top, less the queue ahead.  The share
\* matched in one check is a setting of the configuration.
CheckSize(s) ==
  /\ check.step = "size" /\ check.at = s
  /\ \/ /\ OppositeSize(pool[s].side) = 0
        /\ CloseOrder(s, pool[s], "REJECTED")
        /\ Advance
     \/ \E share \in 1..OppositeSize(pool[s].side) :
          LET queue == pool[s].queue
              available == IF share > queue THEN share - queue ELSE 0
          IN  /\ pool' = [pool EXCEPT ![s].queue = IF share > queue THEN 0 ELSE queue - share]
              /\ IF available = 0
                 THEN Advance
                 ELSE check' = [check EXCEPT !.step = "price",
                                             !.qty = IF available > @ THEN @ ELSE available]
              /\ UNCHANGED <<acct, report>>
  /\ UNCHANGED <<book, nextId, asked>>

CheckPrice(s) ==
  /\ check.step = "price" /\ check.at = s
  /\ FillAtBest(s, pool[s], check.qty)
  /\ Advance
  /\ UNCHANGED <<book, nextId, asked>>

-----------------------------------------------------------------------------
(* The feed thread moves the book; the clock makes orders due *)

Market ==
  /\ \E bid, ask \in Prices \cup {0}, bidSize, askSize \in Sizes :
       /\ (bid > 0 /\ ask > 0) => bid < ask
       /\ book' = [bid |-> bid, ask |-> ask, bidSize |-> IF bid = 0 THEN 0 ELSE bidSize,
                   askSize |-> IF ask = 0 THEN 0 ELSE askSize]
  /\ UNCHANGED <<pool, acct, check, nextId, asked, report>>

Elapse(s) ==
  /\ pool[s].active /\ ~pool[s].due
  /\ pool' = [pool EXCEPT ![s].due = TRUE]
  /\ UNCHANGED <<book, acct, check, nextId, asked, report>>

CheckStep(s) == CheckSkip(s) \/ CheckUnfillable(s) \/ CheckFillable(s) \/ CheckSize(s) \/ CheckPrice(s)
Check == CheckStart \/ \E s \in Slots : CheckStep(s)
SubmitStep ==
  (\E r \in PaperOrder : submit_order(r)) \/ submit_refused \/ \E s \in Slots : SubmitFills(s)
Cancel == (\E s \in Slots : cancel_order(s)) \/ cancel_all

ShadowNext == SubmitStep \/ Cancel \/ Check \/ Market \/ \E s \in Slots : Elapse(s)

ShadowSpec == ShadowInit /\ [][ShadowNext]_shadowVars

\* The loop calls check_fills on every pass, and latencies are finite.
ShadowFairSpec ==
  /\ ShadowSpec
  /\ WF_shadowVars(Check \/ \E s \in Slots : SubmitFills(s))
  /\ \A s \in Slots : WF_shadowVars(Elapse(s))

-----------------------------------------------------------------------------
(* What paper trading promises *)

\* BooksBalance: what was paid and received, before fees, is what was earned
\* less what the open position cost, over any sequence of opening, adding,
\* closing in part and turning the position (shadow_engine.hpp:423).
BooksBalance == acct.den * (acct.cash + acct.fees) = acct.realized - acct.avg * acct.pos

SignedFill(i) == IF asked[i].side = "ASK" THEN -report[i].filled ELSE report[i].filled
InPool(i) == \E s \in Slots : pool[s].active /\ pool[s].id = i

\* ReportsMatchPosition: the fills reported to the listener add up to the net
\* position, no order is filled beyond its quantity, and an order is in the
\* pool exactly as long as it has no final report (shadow_engine.hpp:513).
ReportsMatchPosition ==
  /\ acct.pos = SumFunction([i \in ClientIds |-> SignedFill(i)])
  /\ \A i \in ClientIds : asked[i].qty > 0 =>
       /\ report[i].filled <= asked[i].qty
       /\ InPool(i) <=> report[i].final = "none"

IsIoc(i) == asked[i].kind = "IOC"

\* IocEnds: an immediate-or-cancel order does not stay in the pool for ever,
\* however the book moves under it (shadow_engine.hpp:322).
IocEnds == \A i \in ClientIds : IsIoc(i) ~> (report[i].final # "none")
=============================================================================
