----------------------------- MODULE OrderBook -----------------------------
(***************************************************************************)
(* The order book of one venue (core/orderbook/orderbook.hpp) behind its    *)
(* BookManager: a grid of active_levels ticks above base_price, moved when  *)
(* the market leaves it.  Prices are whole ticks.                           *)
(*                                                                         *)
(* truth is the exchange's book; an update reaches the grid in order, is    *)
(* lost (the feed handler notices and asks for a snapshot) or arrives once  *)
(* more.  Sizes are kept, order counts move with them.                      *)
(***************************************************************************)
EXTENDS Integers, Sequences, FiniteSetsExt

CONSTANTS
  Prices,         \* the prices of the exchange, in ticks
  Sizes,          \* sizes of a level; 0 removes it
  MaxLevels,      \* max_levels
  MinLevels,      \* k_min_active_levels_ (1024)
  RecenterStreak, \* k_recenter_streak_trigger_ (4)
  Opening,        \* the exchange's book at the start
  MaxSeq          \* bound: updates of the exchange

Sides == {"BID", "ASK"}
TruthOf == [Sides -> [Prices -> Sizes]]

ASSUME BookAssumption ==
  /\ Prices \subseteq Nat \ {0}
  /\ Sizes \subseteq Nat /\ 0 \in Sizes
  /\ MaxLevels \in Nat /\ MaxLevels >= 2
  /\ MinLevels \in Nat \ {0} /\ RecenterStreak \in Nat /\ MaxSeq \in Nat
  /\ Opening \in TruthOf

VARIABLES
  truth,   \* the exchange: side -> price -> size
  log,     \* its updates; update i has sequence number i
  synced,  \* every update since the last snapshot the grid took has reached it
  init,    \* initialized_
  base,    \* base_price_
  levels,  \* active_levels_
  cells,   \* bid_sizes_ and ask_sizes_, by index
  seq,     \* sequence_
  streak   \* out_of_range_streak_

bookVars == <<init, base, levels, cells, seq, streak>>
vars == <<truth, log, synced, bookVars>>

Index == 0..(MaxLevels - 1)
Update == [side : Sides, price : Prices, size : Sizes]
Empty == [s \in Sides |-> [i \in Index |-> 0]]

Init ==
  /\ truth = Opening
  /\ log = << >>
  /\ synced = FALSE
  /\ init = FALSE /\ base = 0 /\ levels = MaxLevels
  /\ cells = Empty /\ seq = 0 /\ streak = 0

-----------------------------------------------------------------------------
(* The grid *)

\* price_to_index succeeds
InGrid(p, b, n) == b <= p /\ p < b + n

\* compute_snapshot_active_levels
ActiveLevels(bid) ==
  IF bid <= 2 THEN Min({MaxLevels, MinLevels})
  ELSE Max({2, Min({MaxLevels, Max({MinLevels, Min({MaxLevels, 2 * (bid - 1)})})})})

\* compute_snapshot_base_price
BasePrice(bid, n) == IF bid - n \div 2 > 0 THEN bid - n \div 2 ELSE 1

\* The cells of a fresh grid after the levels of the snapshot are stored.
Placed(b, n) ==
  [s \in Sides |-> [i \in Index |->
     IF i < n /\ b + i \in Prices THEN truth[s][b + i] ELSE 0]]

\* get_best_bid, get_best_ask; 0 when the side is empty
BestBid ==
  LET some == {i \in Index : i < levels /\ cells["BID"][i] > 0}
  IN  IF some = {} THEN 0 ELSE base + Max(some)
BestAsk ==
  LET some == {i \in Index : i < levels /\ cells["ASK"][i] > 0}
  IN  IF some = {} THEN 0 ELSE base + Min(some)

\* delta_improves_touch
ImprovesTouch(u) ==
  IF u.side = "BID" THEN BestBid <= 0 \/ u.price >= BestBid
                    ELSE BestAsk <= 0 \/ u.price <= BestAsk

\* The ticks by which a price misses the grid.
Breach(p) == IF p < base THEN base - p ELSE p - (base + levels - 1)

\* should_recenter, once the price is known to be outside: a breach of 0.6 of
\* the grid, or the RecenterStreak-th in a row.
ShouldRecenter(u) ==
  /\ ImprovesTouch(u)
  /\ 10 * Breach(u.price) >= 6 * levels \/ streak + 1 >= RecenterStreak

\* Mutant of Recentered: the levels move the wrong way.
RecenteredBackwards(newBase) ==
  [s \in Sides |-> [i \in Index |->
     LET j == i - (newBase - base) IN IF i < levels /\ j \in Index /\ j < levels THEN cells[s][j] ELSE 0]]

\* recenter_grid: every level keeps its price, those outside are forgotten.
Recentered(newBase) ==
  [s \in Sides |-> [i \in Index |->
     LET j == i + (newBase - base) IN IF i < levels /\ j \in Index /\ j < levels THEN cells[s][j] ELSE 0]]

Stored(c, b, u) == [c EXCEPT ![u.side][u.price - b] = u.size]

-----------------------------------------------------------------------------
(* apply_delta on update n of the log *)

\* Mutant of TooOld: an update that was overtaken is applied again.
NeverTooOld(n) == FALSE

\* delta.sequence < sequence_: dropped, and reported as a success
TooOld(n) == n < seq

Apply(n, u) ==
  LET newBase == u.price - levels \div 2
  IN  IF ~init \/ TooOld(n) THEN UNCHANGED bookVars
      ELSE IF InGrid(u.price, base, levels)
      THEN /\ cells' = Stored(cells, base, u)
           /\ seq' = n /\ streak' = 0
           /\ UNCHANGED <<init, base, levels>>
      ELSE IF ShouldRecenter(u)
      THEN /\ base' = newBase
           /\ cells' = Stored(Recentered(newBase), newBase, u)
           /\ seq' = n /\ streak' = 0
           /\ UNCHANGED <<init, levels>>
      ELSE /\ seq' = n
           /\ streak' = IF ImprovesTouch(u) THEN streak + 1 ELSE 0
           /\ UNCHANGED <<init, base, levels, cells>>

-----------------------------------------------------------------------------
(* The exchange and the feed *)

\* An uncrossed book with both sides, as every exchange keeps it.
BidsOf(t) == {p \in Prices : t["BID"][p] > 0}
AsksOf(t) == {p \in Prices : t["ASK"][p] > 0}
Sound(t) == BidsOf(t) # {} /\ AsksOf(t) # {} /\ \A p \in BidsOf(t), q \in AsksOf(t) : p < q

ASSUME OpeningAssumption == Sound(Opening)

Change(u) ==
  /\ Len(log) < MaxSeq
  /\ truth[u.side][u.price] # u.size
  /\ Sound([truth EXCEPT ![u.side][u.price] = u.size])
  /\ truth' = [truth EXCEPT ![u.side][u.price] = u.size]
  /\ log' = Append(log, u)

\* The next update is delivered: delta_handler of the BookManager.
Delta(u) ==
  /\ synced
  /\ Change(u)
  /\ Apply(Len(log) + 1, u)
  /\ UNCHANGED synced

\* The next update is lost.
Lost(u) ==
  /\ Change(u)
  /\ synced' = FALSE
  /\ UNCHANGED bookVars

\* An old update arrives again.
Again(n) ==
  /\ synced /\ n <= Len(log)
  /\ Apply(n, log[n])
  /\ UNCHANGED <<truth, log, synced>>

\* The spread test of apply_snapshot: at most a quarter of the grid, or a tick.
SpreadOk(bid, ask, n) == ask - bid <= 1 \/ 4 * (ask - bid) <= n

Skipped(t, b, n) ==
  Cardinality({p \in BidsOf(t) : ~InGrid(p, b, n)}) + Cardinality({p \in AsksOf(t) : ~InGrid(p, b, n)})

\* apply_snapshot.  A spread that is too wide leaves the old book in place; a
\* grid that misses most levels leaves a book that is not ready.
Snapshot ==
  LET bid == Max(BidsOf(truth))
      ask == Min(AsksOf(truth))
      n == ActiveLevels(bid)
      b == BasePrice(bid, n)
      ok == 2 * Skipped(truth, b, n) <= Cardinality(BidsOf(truth)) + Cardinality(AsksOf(truth))
  IN  /\ IF SpreadOk(bid, ask, n)
         THEN /\ cells' = Placed(b, n)
              /\ levels' = n /\ base' = b /\ seq' = Len(log) /\ streak' = 0
              /\ init' = ok /\ synced' = ok
         ELSE /\ synced' = FALSE
              /\ UNCHANGED bookVars
      /\ UNCHANGED <<truth, log>>

Next ==
  \/ \E u \in Update : Delta(u) \/ Lost(u)
  \/ \E n \in 1..MaxSeq : Again(n)
  \/ Snapshot

Spec == Init /\ [][Next]_vars

-----------------------------------------------------------------------------
(* What the grid promises *)

\* LevelsAreCurrent: a level the grid shows is the exchange's level at that
\* price: no move of the grid, dropped update or late duplicate leaves a level
\* that no longer exists (orderbook.hpp:116, apply_delta).
LevelsAreCurrent ==
  synced => \A s \in Sides, i \in Index :
              cells[s][i] # 0 => base + i \in Prices /\ cells[s][i] = truth[s][base + i]

\* TouchIsReal: the touch the strategies read is never crossed and never better
\* than the exchange's, although the grid forgets the levels it moves away from
\* (orderbook.hpp:163, get_best_bid).
TouchIsReal ==
  synced /\ BestBid > 0 /\ BestAsk > 0 =>
    /\ BestBid < BestAsk
    /\ BestBid <= Max(BidsOf(truth)) /\ BestAsk >= Min(AsksOf(truth))
=============================================================================
