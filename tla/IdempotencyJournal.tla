------------------------- MODULE IdempotencyJournal -------------------------
(***************************************************************************)
(* The write-ahead journal of a live connector                             *)
(* (core/execution/common/connectors/idempotency_journal.hpp).             *)
(*                                                                         *)
(* `entries' is the in-memory table, one entry per (operation, client order *)
(* id); `log' is the append-only file that recover() reads back.  An entry  *)
(* is "used" exactly when its state is not NONE: find_or_create marks a     *)
(* slot used and every caller gives it another state before returning.      *)
(* The attempt and duplicate-ack counters are left out: no branch reads     *)
(* them.                                                                   *)
(***************************************************************************)
EXTENDS Naturals, Sequences, FiniteSets

CONSTANTS
  Ids,            \* client order ids
  MaxRecords,     \* size of the in-memory table (256 in the code)
  AppendMayFail,  \* may open()/write() of the file fail?  The code only logs it.
  MaxLog          \* bound of the model: records ever appended

ASSUME IdsAssumption == Ids \subseteq Nat \ {0} /\ IsFiniteSet(Ids)
ASSUME JournalAssumption == /\ MaxRecords \in Nat \ {0}
                            /\ AppendMayFail \in BOOLEAN
                            /\ MaxLog \in Nat

VARIABLES entries, log

journalVars == <<entries, log>>

Ops == {"SUBMIT", "CANCEL", "REPLACE"}
States == {"NONE", "IN_FLIGHT", "ACKED", "FAILED"}
Keys == Ops \X Ids

\* A journal entry: its state, the related (replacement) id and the venue's
\* order id; 0 stands for "no related id" and for the empty venue id "-".
Entry == [state : States, rel : Ids \cup {0}, vid : Nat]
NoEntry == [state |-> "NONE", rel |-> 0, vid |-> 0]

LogRecord == [key : Keys, entry : Entry]

-----------------------------------------------------------------------------
(* recover(): the file is read front to back.  A key gets a slot where it   *)
(* first appears, if one of the MaxRecords slots is left, and each later     *)
(* record of the key overwrites the slot: the last record wins.             *)

Positions(l, k) == {i \in 1..Len(l) : l[i].key = k}
FirstAt(l, k) == CHOOSE i \in Positions(l, k) : \A j \in Positions(l, k) : i <= j
LastAt(l, k) == CHOOSE i \in Positions(l, k) : \A j \in Positions(l, k) : j <= i
KeysOf(l) == {k \in Keys : Positions(l, k) # {}}

GetsSlot(l, k) ==
  /\ k \in KeysOf(l)
  /\ Cardinality({j \in KeysOf(l) : FirstAt(l, j) < FirstAt(l, k)}) < MaxRecords

\* Mutant of Replay: the first record of a key wins.
ReplayFirstWins(l) ==
  [k \in Keys |-> IF GetsSlot(l, k) THEN l[FirstAt(l, k)].entry ELSE NoEntry]

Replay(l) ==
  [k \in Keys |-> IF GetsSlot(l, k) THEN l[LastAt(l, k)].entry ELSE NoEntry]

-----------------------------------------------------------------------------
(* The operations, as pieces of the connector's actions.                    *)

Used == {k \in Keys : entries[k].state # "NONE"}

\* find_or_create(): the key's own slot, or a free one.
HasSlot(k) == k \in Used \/ Cardinality(Used) < MaxRecords

\* append_record(): open, write and fsync; a failure is only logged.
AppendRecord(k, e) ==
  \/ log' = Append(log, [key |-> k, entry |-> e])
  \/ AppendMayFail /\ log' = log

Store(k, e) ==
  /\ entries' = [entries EXCEPT ![k] = e]
  /\ AppendRecord(k, e)

\* The decision begin() returns, and what it does to the journal.  A key that
\* is in flight already is handed out again as it stands, related id included.
BeginDecision(k) ==
  IF ~HasSlot(k) THEN "NONE"
  ELSE IF entries[k].state = "ACKED" THEN "ACKED" ELSE "IN_FLIGHT"

\* Mutant of BeginWrites: an acknowledged key is opened again.
BeginReopensAcked(k) == HasSlot(k) /\ entries[k].state # "IN_FLIGHT"

BeginWrites(k) == HasSlot(k) /\ entries[k].state \in {"NONE", "FAILED"}

\* Mutant of Begin: the operation is journalled only when it is settled.
BeginInMemory(k, rel) ==
  IF BeginWrites(k)
  THEN /\ Len(log) < MaxLog
       /\ entries' = [entries EXCEPT ![k].state = "IN_FLIGHT", ![k].rel = rel]
       /\ log' = log
  ELSE UNCHANGED journalVars

Begin(k, rel) ==
  IF BeginWrites(k)
  THEN /\ Len(log) < MaxLog
       /\ Store(k, [entries[k] EXCEPT !.state = "IN_FLIGHT", !.rel = rel])
  ELSE UNCHANGED journalVars

\* Mutant of Ack: the venue's order id is not copied.
AckWithoutVenueId(k, vid, rel) ==
  Store(k, [entries[k] EXCEPT !.state = "ACKED", !.rel = rel])

\* ack() and fail(); both are only reached with the key in flight, so its
\* slot exists.
Ack(k, vid, rel) ==
  Store(k, [state |-> "ACKED", rel |-> rel, vid |-> vid])

Fail(k, rel) ==
  Store(k, [entries[k] EXCEPT !.state = "FAILED", !.rel = rel])

\* lookup() of a key that must not be open when another operation starts.
Open(k) == entries[k].state \in {"IN_FLIGHT", "ACKED"}

Recover == entries' = Replay(log) /\ log' = log

JournalInit == entries = [k \in Keys |-> NoEntry] /\ log = << >>

JournalTypeOK ==
  /\ entries \in [Keys -> Entry]
  /\ log \in Seq(LogRecord)

-----------------------------------------------------------------------------
(* What the journal promises.                                               *)

\* JournalDurable: whatever is in memory would also be read back from the
\* file, slot for slot, so a crash or reconcile() at any point loses and
\* invents nothing (idempotency_journal.hpp:122, recover).
JournalDurable == entries = Replay(log)

\* CancelReplaceExclusive: one order is never being cancelled (or cancelled)
\* and replaced (or being replaced) at once, across any crash: the lookups
\* of the other operation's key in cancel_order and replace_order
\* (live_connector_base.hpp:97 and :127).
CancelReplaceExclusive ==
  \A id \in Ids : ~(Open(<<"CANCEL", id>>) /\ Open(<<"REPLACE", id>>))
=============================================================================
