---------------------------- MODULE Reconciliation ----------------------------
(***************************************************************************)
(* The reconciliation of a live session                                    *)
(* (common/reconciliation/reconciliation_service.hpp): after a reconnection *)
(* and periodically, the venues are visited in turn, their snapshots judged *)
(* and the bad venues quarantined; after a periodic cycle the session       *)
(* accounting (live_session_accounting.hpp) takes in the latest snapshots.  *)
(*                                                                         *)
(* A snapshot is the number of trades the venue had made when it was taken; *)
(* it lists the last Window of them.  The fields of a DriftDecision that no *)
(* path assigns hold garbage: a choice.                                     *)
(***************************************************************************)
EXTENDS Integers, FiniteSets, Sequences, SequencesExt

CONSTANTS
  NumVenues,          \* registered connectors, visited in this order
  Canonical,          \* those with a canonical snapshot (main sets none)
  SnapshotBudget, DriftBudget, GapBudget,   \* RemediationPolicy (3 each)
  Traders,            \* venues that trade in the run
  Window,             \* fills a venue lists (at most the 512 a snapshot holds)
  Remembered,         \* fills the accounting remembers (4096)
  MaxTrades           \* bound: trades of a venue

ASSUME ReconciliationAssumption ==
  /\ NumVenues \in Nat \ {0} /\ Canonical \subseteq 1..NumVenues /\ Traders \subseteq 1..NumVenues
  /\ SnapshotBudget \in Nat /\ DriftBudget \in Nat /\ GapBudget \in Nat
  /\ Window \in Nat \ {0} /\ Remembered \in Nat /\ Remembered >= 2 * Window - 1
  /\ MaxTrades \in Nat

VARIABLES
  required,     \* reconnect_required_
  quarantined,  \* VenueState: quarantined
  fails, drifts, gaps,  \* snapshot_failure_retries, order_drift_retries, fill_gap_retries
  cycle,        \* the venue visited, 0 between cycles, and the kind of cycle
  trades,       \* what the venue has traded
  latest,       \* latest_snapshots_, none before the first
  ledger,       \* the position ledger has the position of the latest snapshot
  books,        \* LiveSessionAccounting: fees, and the fills it remembers, oldest first
  newestFirst,  \* the order in which the venues list their fills
  ingested,     \* history: the trades whose fee was counted
  patience      \* history: visits since the venue was last found without fault

checks == <<required, quarantined, fails, drifts, gaps, patience>>
money == <<latest, ledger, books, ingested>>
vars == <<checks, money, cycle, trades, newestFirst>>

Venues == 1..NumVenues
none == -1
Idle == [at |-> 0, reconnect |-> FALSE]
Done == NumVenues + 1

Init ==
  /\ required = [v \in Venues |-> FALSE]
  /\ quarantined = [v \in Venues |-> FALSE]
  /\ fails = [v \in Venues |-> 0] /\ drifts = [v \in Venues |-> 0] /\ gaps = [v \in Venues |-> 0]
  /\ cycle = Idle
  /\ trades = [v \in Venues |-> 0] /\ latest = [v \in Venues |-> none] /\ ledger = [v \in Venues |-> FALSE]
  /\ books = [v \in Venues |-> [fees |-> 0, seen |-> <<>>]]
  /\ newestFirst \in BOOLEAN
  /\ ingested = [v \in Venues |-> {}]
  /\ patience = [v \in Venues |-> 0]

-----------------------------------------------------------------------------
(* The engine's loop starts the cycles *)

\* connect_if_needed for every venue: those that had lost their connection and
\* are up again are marked, and a cycle follows.
Reconnect ==
  /\ cycle = Idle
  /\ \E up \in (SUBSET Venues) \ {{}} : required' = [v \in Venues |-> required[v] \/ v \in up]
  /\ cycle' = [at |-> 1, reconnect |-> TRUE]
  /\ UNCHANGED <<quarantined, fails, drifts, gaps, patience, money, trades, newestFirst>>

Periodic ==
  /\ cycle = Idle
  /\ cycle' = [at |-> 1, reconnect |-> FALSE]
  /\ UNCHANGED <<checks, money, trades, newestFirst>>

\* Between two cycles: a trade made during one is in the snapshot or after it.
Trade(v) ==
  /\ cycle = Idle
  /\ v \in Traders /\ trades[v] < MaxTrades
  /\ trades' = [trades EXCEPT ![v] = @ + 1]
  /\ UNCHANGED <<checks, money, cycle, newestFirst>>

-----------------------------------------------------------------------------
(* run_reconciliation_cycle: the visit of venue v *)

Classes == {"NONE", "ORDER", "FILL_GAP"}

\* Mutant of Apply: fill gaps are not counted.
ApplyUncounted(v, class, quarantine) ==
  LET drift == drifts[v] + (IF class = "ORDER" THEN 1 ELSE 0)
      out == quarantine \/ drift > DriftBudget
  IN  /\ quarantined' = [quarantined EXCEPT ![v] = out]
      /\ drifts' = [drifts EXCEPT ![v] = IF out THEN 0 ELSE drift]
      /\ cycle' = [cycle EXCEPT !.at = Done]
      /\ UNCHANGED gaps

\* apply_decision; the cycle ends at the first venue that fails.  The retry
\* counts of a quarantined venue are not read any more: they are 0 here.
Apply(v, class, quarantine) ==
  LET drift == drifts[v] + (IF class = "ORDER" THEN 1 ELSE 0)
      gap == gaps[v] + (IF class = "FILL_GAP" THEN 1 ELSE 0)
      out == quarantine \/ drift > DriftBudget \/ gap > GapBudget
  IN  /\ quarantined' = [quarantined EXCEPT ![v] = out]
      /\ drifts' = [drifts EXCEPT ![v] = IF out THEN 0 ELSE drift]
      /\ gaps' = [gaps EXCEPT ![v] = IF out THEN 0 ELSE gap]
      /\ cycle' = [cycle EXCEPT !.at = Done]

\* One more visit the venue failed, unless it is over with it now.
Tried(v) == patience' = [patience EXCEPT ![v] = IF quarantined'[v] THEN 0 ELSE @ + 1]

Visit(v) == cycle.at = v /\ ~quarantined[v]

\* Mutant of Skip: the cycle ends at a quarantined venue.
SkipReturns(v) ==
  /\ cycle.at = v /\ quarantined[v]
  /\ cycle' = [cycle EXCEPT !.at = Done]
  /\ UNCHANGED <<checks, money, trades, newestFirst>>

Skip(v) ==
  /\ cycle.at = v /\ quarantined[v]
  /\ cycle' = [cycle EXCEPT !.at = v + 1]
  /\ UNCHANGED <<checks, money, trades, newestFirst>>

\* fetch_reconciliation_snapshot: account, orders, trades, one request after the
\* other; the first that fails, does not parse or overflows the snapshot decides.
fetch_reconciliation_snapshot == {"OK", "AUTH_FAILED", "ERROR_UNKNOWN"}

\* classify_snapshot_failure: the fetch failed (the connector's own reconcile
\* never does).  The class is not set, the quarantine flag only where it is TRUE.
Fails(v, res) ==
  /\ Visit(v) /\ res # "OK"
  /\ required' = [required EXCEPT ![v] = @ /\ ~cycle.reconnect]
  /\ \E class \in Classes, garbage \in BOOLEAN :
       Apply(v, class, garbage \/ res = "AUTH_FAILED" \/ fails[v] + 1 > SnapshotBudget)
  /\ fails' = [fails EXCEPT ![v] = IF quarantined'[v] THEN 0 ELSE @ + 1]
  /\ Tried(v)
  /\ UNCHANGED <<money, trades, newestFirst>>

\* The snapshot arrived: it is kept, whatever is found in it afterwards.
Fetched(v) ==
  /\ Visit(v)
  /\ required' = [required EXCEPT ![v] = @ /\ ~cycle.reconnect]
  /\ latest' = [latest EXCEPT ![v] = trades[v]]
  /\ fails' = [fails EXCEPT ![v] = 0]

\* evaluate_snapshot_sanity, a failed canonical fetch, a balance or a position
\* that drifted: quarantine at once.
Condemned(v) ==
  /\ Fetched(v)
  /\ Apply(v, "NONE", TRUE) /\ Tried(v)
  /\ ledger' = [ledger EXCEPT ![v] = @ /\ latest[v] = trades[v]]
  /\ UNCHANGED <<books, ingested, trades, newestFirst>>

\* Something differs from the canonical snapshot.
Differs(v, class) ==
  /\ v \in Canonical
  /\ Fetched(v)
  /\ \E garbage \in BOOLEAN : Apply(v, class, garbage)
  /\ Tried(v)
  /\ ledger' = [ledger EXCEPT ![v] = @ /\ latest[v] = trades[v]]
  /\ UNCHANGED <<books, ingested, trades, newestFirst>>

\* evaluate_drift: an order is missing, or is not as it should be.
Drifted(v) == Differs(v, "ORDER")

\* The fills of the two snapshots, each counted once, do not add up to the same.
fill_gap_detected(v) == Differs(v, "FILL_GAP")

\* Nothing is wrong, and the mismatch flag nobody set says otherwise, on this
\* visit or on every one.
Spurious(v) ==
  /\ Fetched(v)
  /\ \E class \in Classes, garbage \in BOOLEAN : Apply(v, class, garbage)
  /\ patience' = [patience EXCEPT ![v] = 0]
  /\ ledger' = [ledger EXCEPT ![v] = @ /\ latest[v] = trades[v]]
  /\ UNCHANGED <<books, ingested, trades, newestFirst>>

reconcile_positions(v) == [ledger EXCEPT ![v] = TRUE]

\* The position ledger takes the snapshot's positions, the retries are reset.
Accepted(v) ==
  /\ Fetched(v)
  /\ ledger' = reconcile_positions(v)
  /\ drifts' = [drifts EXCEPT ![v] = 0] /\ gaps' = [gaps EXCEPT ![v] = 0]
  /\ patience' = [patience EXCEPT ![v] = 0]
  /\ cycle' = [cycle EXCEPT !.at = v + 1]
  /\ UNCHANGED <<quarantined, books, ingested, trades, newestFirst>>

-----------------------------------------------------------------------------
(* LiveSessionAccounting *)

Listed(n) ==
  LET first == IF n > Window THEN n - Window ELSE 0
      fills == [i \in 1..(n - first) |-> first + i]
  IN  IF newestFirst THEN Reverse(fills) ELSE fills

\* Mutant of Remember: the ring is one place short.
RememberFewer(seen, trade) ==
  IF Len(seen) < Remembered - 1 THEN Append(seen, trade) ELSE Append(Tail(seen), trade)

\* remember_fill: the ring gives up its oldest fill.
Remember(seen, trade) ==
  IF Len(seen) < Remembered THEN Append(seen, trade) ELSE Append(Tail(seen), trade)

\* A fee is counted for a listed fill that is not remembered.
Counted(book, trade) ==
  IF trade \in ToSet(book.seen) THEN book
  ELSE [fees |-> book.fees + 1, seen |-> Remember(book.seen, trade)]

\* collect_new_fees: the fills of the snapshot in turn
Collected(book, n) ==
  LET fills == Listed(n)
      after[i \in 0..Len(fills)] == IF i = 0 THEN book ELSE Counted(after[i - 1], fills[i])
  IN  after[Len(fills)]

\* The cycle is over; a periodic one is followed by refresh_accounting, which
\* takes in the latest snapshot of every venue, new or not.
CycleEnds ==
  /\ cycle.at = Done
  /\ cycle' = Idle
  /\ LET fresh == {v \in Venues : ~cycle.reconnect /\ latest[v] # none} IN
     /\ books' = [v \in Venues |-> IF v \in fresh THEN Collected(books[v], latest[v]) ELSE books[v]]
     /\ ingested' = [v \in Venues |-> IF v \in fresh THEN ingested[v] \cup ToSet(Listed(latest[v])) ELSE ingested[v]]
  /\ UNCHANGED <<checks, latest, ledger, trades, newestFirst>>

-----------------------------------------------------------------------------
VisitStep(v) ==
  \/ Skip(v) \/ Condemned(v) \/ Spurious(v) \/ Accepted(v)
  \/ \E res \in fetch_reconciliation_snapshot : Fails(v, res)
  \/ Drifted(v) \/ fill_gap_detected(v)

Cycle == (\E v \in Venues : VisitStep(v)) \/ CycleEnds

Next ==
  \/ Reconnect \/ Periodic \/ Cycle
  \/ \E v \in Venues : Trade(v)

Spec == Init /\ [][Next]_vars

\* The engine's loop runs a cycle to its end and starts one every interval.
FairSpec == Spec /\ WF_vars(Cycle) /\ WF_vars(Periodic)

-----------------------------------------------------------------------------
(* What reconciliation promises *)

\* FeesCountedOnce: however often a snapshot is taken in, and however the venue
\* orders its list, the fee of a trade is counted once, as long as the ring
\* is all but as long as two lists (live_session_accounting.hpp:273).
FeesCountedOnce == \A v \in Venues : books[v].fees = Cardinality(ingested[v])

\* BoundedPatience: a venue that keeps failing, in whatever mix of failed
\* fetches, drifting orders and fill gaps, is quarantined after a bounded number
\* of visits, although an arriving snapshot clears the count of failed fetches
\* (reconciliation_service.hpp:229).  Visits are counted from the last one that
\* found nothing wrong, an unset flag that says otherwise included.
BoundedPatience ==
  \A v \in Venues :
    patience[v] <= (DriftBudget + GapBudget) * (SnapshotBudget + 1) + SnapshotBudget

\* NoVenueStarves: a venue is reached again and again, or is itself quarantined:
\* a failing venue cannot end every cycle before it
\* (reconciliation_service.hpp:225).  The one thing that can is the mismatch flag
\* that evaluate_snapshot_sanity leaves unset: it may read TRUE on every visit of
\* an earlier venue, which no retry count ends.
NoVenueStarves ==
  \A v \in Venues :
    \/ []<>(quarantined[v] \/ cycle.at = v)
    \/ []<><<\E u \in 1..(v - 1) : Spurious(u)>>_vars
=============================================================================
