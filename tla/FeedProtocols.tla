--------------------------- MODULE FeedProtocols ---------------------------
(***************************************************************************)
(* What the feed handlers do with a market data message (core/feeds).  Each *)
(* venue has a class of its own and a synchronisation rule of its own:      *)
(*   Binance   numbered batches [first..last] bridged to a REST snapshot;   *)
(*   Kraken    no numbers: a checksum over the best levels of its book;     *)
(*   OKX       the number of the previous update, and such a checksum,      *)
(*             each of which a message may lack;                            *)
(*   Coinbase  consecutive numbers.                                         *)
(* The handler is a record h and each of its functions an operator on it.   *)
(*                                                                         *)
(* One side of the book stands for both: level 1 is the best price.  The    *)
(* size of a level is named by the update that set it.  A handler calls     *)
(* back into BookManager, whose grid may refuse a snapshot and has no cell  *)
(* for some levels; OrderBook.tla models which, here any may be missing.    *)
(***************************************************************************)
EXTENDS Integers, Sequences, FiniteSets

CONSTANTS
  Levels,           \* the price levels of a side
  Opening,          \* those that have a size before the first update
  Touched,          \* Touched[v] is the level update v changes
  Removals,         \* the updates that leave their level empty
  SubscribedDepth,  \* subscribed_depth_: the levels Kraken sends (100)
  ChecksumDepth,    \* the levels a checksum covers: Kraken 10, OKX 25
  BufCap            \* MAX_BUFFER_SIZE (8192 or 1000)

ASSUME ProtocolAssumption ==
  /\ Levels \subseteq Nat /\ IsFiniteSet(Levels) /\ Opening \subseteq Levels
  /\ Touched \in Seq(Levels) /\ Removals \subseteq DOMAIN Touched
  /\ ChecksumDepth \in Nat /\ SubscribedDepth \in Nat /\ ChecksumDepth <= SubscribedDepth
  /\ BufCap \in Nat

Versions == 0..Len(Touched)

None == -1    \* no size: the level is not in the book
Hidden == -2  \* the grid has nothing for the level, whatever its size

LastTouch(l, v) ==
  CHOOSE w \in 0..v :
    /\ w = 0 \/ Touched[w] = l
    /\ \A u \in (w + 1)..v : Touched[u] # l

Given(l, w) == IF w \in Removals \/ (w = 0 /\ l \notin Opening) THEN None ELSE w

\* The exchange's book after v updates
Content(v) == [l \in Levels |-> Given(l, LastTouch(l, v))]
NoBook == [l \in Levels |-> None]

Present(b) == {l \in Levels : b[l] # None}
Best(b, n) == {l \in Present(b) : Cardinality({j \in Present(b) : j < l}) < n}
TopOf(b, n) == {<<l, b[l]>> : l \in Best(b, n)}

\* truncate_book, of the book under Kraken's checksum only
Truncated(b) == [l \in Levels |-> IF l \in Best(b, SubscribedDepth) THEN b[l] ELSE None]

\* The levels a venue sends for the updates lo..hi.  Kraken sends those that
\* change among the best, and says nothing of a level pushed out from there.
Sent(k, lo, hi) ==
  IF k = "KRAKEN"
  THEN LET was == Truncated(Content(lo - 1))
           is == Truncated(Content(hi))
       IN  {l \in Levels : is[l] # was[l] /\ is[l] = Content(hi)[l]}
  ELSE {l \in Levels : LastTouch(l, hi) >= lo}

\* A message: a snapshot of version hi, or the updates lo..hi in one batch, with
\* the fields it lacks, and what becomes of it: "bad" for the handler, refused
\* by BookManager before ("wide") or after ("misfit") it cleared its book, and
\* the levels the grid has nothing for once it is applied.
Message == [type : {"snapshot", "update"}, lo : Versions, hi : Versions, sent : SUBSET Levels,
            lacks : SUBSET {"checksum", "prevSeqId"},
            fate : {"good", "bad", "wide", "misfit"}, out : SUBSET Levels]

\* The number the exchange gives version v; never 0, which the code takes for absent.
Num(v) == v + 1

Patch(b, m) == [l \in Levels |-> IF l \in m.sent THEN Content(m.hi)[l] ELSE b[l]]

Hide(b, out) == [l \in Levels |-> IF l \in out THEN Hidden ELSE b[l]]

-----------------------------------------------------------------------------
(* The callbacks into BookManager: the book the rest of the program reads. *)

\* A refused snapshot is logged and the handler told nothing.  refused is the
\* history of that: the last snapshot is not in the book.
snapshot_handler(h, c, seq, m) ==
  CASE m.fate = "wide"   -> [h EXCEPT !.refused = TRUE]
    [] m.fate = "misfit" -> [h EXCEPT !.book = Hide(c, m.out), !.bookSeq = seq,
                                      !.ready = FALSE, !.refused = TRUE]
    [] OTHER             -> [h EXCEPT !.book = Hide(c, m.out), !.bookSeq = seq,
                                      !.ready = TRUE, !.refused = FALSE]

\* A level outside the grid is dropped or moves the grid; the number advances.
delta_handler(h, m, seq) ==
  IF h.ready /\ seq >= h.bookSeq
  THEN [h EXCEPT !.book = Hide(Patch(@, m), m.out), !.bookSeq = seq]
  ELSE h

\* trigger_resnapshot: back to BUFFERING and ask the event loop to reconnect.
BinanceResnapshot(h) == [h EXCEPT !.buf = << >>, !.state = "BUFFERING", !.reconn = TRUE]

OkxResnapshot(h) == [h EXCEPT !.buf = << >>, !.state = "BUFFERING", !.reconn = TRUE]

CoinbaseResnapshot(h) == [h EXCEPT !.buf = << >>, !.state = "BUFFERING", !.reconn = TRUE]

KrakenResnapshot(h) ==
  [h EXCEPT !.buf = << >>, !.state = "BUFFERING", !.reconn = TRUE,
            !.local = NoBook, !.last = 0]

\* The replay of the buffered updates, shared by the four apply_buffered_deltas:
\* it skips, applies, or stops at the first update that is refused.
Replay(h, Skip(_, _), Accept(_, _), Apply(_, _)) ==
  LET step(r, m) ==
        CASE ~r.ok \/ Skip(r.h, m) -> r
          [] r.ok /\ ~Skip(r.h, m) /\ Accept(r.h, m) -> [r EXCEPT !.h = Apply(r.h, m)]
          [] OTHER -> [r EXCEPT !.ok = FALSE]
      run[n \in 0..Len(h.buf)] ==
        IF n = 0 THEN [ok |-> TRUE, h |-> [h EXCEPT !.buf = << >>]] ELSE step(run[n - 1], h.buf[n])
  IN  run[Len(h.buf)]

-----------------------------------------------------------------------------
(* Binance *)

\* Mutant of BinanceValidate: a gap before the batch goes unnoticed.
BinanceValidateNewer(h, m) == h.last < Num(m.hi)

\* validate_delta_sequence: U <= last + 1 <= u
BinanceValidate(h, m) == Num(m.lo) <= h.last + 1 /\ h.last + 1 <= Num(m.hi)

BinanceApplyDelta(h, m) ==
  [delta_handler(h, m, Num(m.hi)) EXCEPT !.last = Num(m.hi)]

\* apply_buffered_deltas: drop what the snapshot holds, then every batch must
\* continue the one before; the first of them is the bridge.
BinanceApplyBuffered(h) ==
  Replay(h, LAMBDA g, m : Num(m.hi) <= g.last, BinanceValidate, BinanceApplyDelta)

\* process_snapshot and what ws_event_loop does with it
BinanceSnapshot(h, m) ==
  LET snap == [snapshot_handler(h, Content(m.hi), Num(m.hi), m) EXCEPT !.last = Num(m.hi)]
      r == BinanceApplyBuffered(snap)
  IN  IF r.ok THEN [r.h EXCEPT !.state = "STREAMING"] ELSE BinanceResnapshot(r.h)

BinanceMessage(h, m) ==
  IF h.state = "BUFFERING"
  THEN IF Len(h.buf) >= BufCap THEN BinanceResnapshot(h) ELSE [h EXCEPT !.buf = Append(@, m)]
  ELSE IF Num(m.hi) <= h.last THEN h
  ELSE IF BinanceValidate(h, m) THEN BinanceApplyDelta(h, m)
  ELSE BinanceResnapshot(h)

-----------------------------------------------------------------------------
(* Kraken *)

\* Mutant of KrakenChecksum: the prices are hashed and the sizes are not.
KrakenChecksumOfPrices(b, m) ==
  "checksum" \in m.lacks \/ Best(b, ChecksumDepth) = Best(Content(m.hi), ChecksumDepth)

\* validate_checksum on the local book: a CRC of its best levels, or no checksum
\* to compare with.
KrakenChecksum(b, m) ==
  "checksum" \in m.lacks \/ TopOf(b, ChecksumDepth) = TopOf(Content(m.hi), ChecksumDepth)

\* apply_local_book_levels and truncate_book
KrakenPatch(b, m) == Truncated(Patch(b, m))

KrakenDelta(h, m, seq) ==
  LET local == KrakenPatch(h.local, m)
  IN  IF KrakenChecksum(local, m)
      THEN [delta_handler([h EXCEPT !.local = local], m, seq) EXCEPT !.last = seq]
      ELSE KrakenResnapshot(h)

\* apply_buffered_deltas: the updates number themselves from 1; the first that
\* fails ends the replay.
KrakenApplyBuffered(h) ==
  Replay(h, LAMBDA g, m : FALSE,
            LAMBDA g, m : KrakenChecksum(KrakenPatch(g.local, m), m),
            LAMBDA g, m : KrakenDelta(g, m, g.last + 1))

KrakenSnapshot(h, m) ==
  LET local == Truncated(Content(m.hi))
      snap == snapshot_handler([h EXCEPT !.local = local, !.last = 0], local, 0, m)
      r == KrakenApplyBuffered(snap)
  IN  CASE m.fate # "bad" /\ r.ok  -> [r.h EXCEPT !.state = "STREAMING"]
        [] m.fate # "bad" /\ ~r.ok -> KrakenResnapshot(r.h)
        [] m.fate = "bad"          -> KrakenResnapshot(h)

KrakenMessage(h, m) ==
  CASE m.type = "snapshot" -> KrakenSnapshot(h, m)
    [] m.type = "update" /\ h.state = "BUFFERING" ->
         IF Len(h.buf) < BufCap THEN [h EXCEPT !.buf = Append(@, m)] ELSE KrakenResnapshot(h)
    [] OTHER -> KrakenDelta(h, m, h.last + 1)

-----------------------------------------------------------------------------
(* OKX *)

\* validate_delta_sequence: prevSeqId is the number of the last update applied;
\* without it any newer number will do.
OkxValidate(h, m) ==
  IF "prevSeqId" \in m.lacks THEN Num(m.hi) > h.last ELSE Num(m.lo - 1) = h.last

\* validate_checksum on a copy of the local book with the update applied
OkxChecksum(h, m) ==
  "checksum" \in m.lacks
    \/ TopOf(Patch(h.local, m), ChecksumDepth) = TopOf(Content(m.hi), ChecksumDepth)

OkxAccepts(h, m) == OkxValidate(h, m) /\ OkxChecksum(h, m)

\* Mutant of OkxDelta: the book under the checksum is not updated.
OkxDeltaForgetsLocal(h, m) == delta_handler([h EXCEPT !.last = Num(m.hi)], m, Num(m.hi))

OkxDelta(h, m) ==
  delta_handler([h EXCEPT !.last = Num(m.hi), !.local = Patch(@, m)], m, Num(m.hi))

OkxApplyBuffered(h) ==
  Replay(h, LAMBDA g, m : Num(m.hi) <= g.last, OkxAccepts, OkxDelta)

OkxSnapshot(h, m) ==
  LET snap == snapshot_handler([h EXCEPT !.local = Content(m.hi), !.last = Num(m.hi)],
                               Content(m.hi), Num(m.hi), m)
      r == OkxApplyBuffered(snap)
  IN  CASE m.fate # "bad" /\ r.ok  -> [r.h EXCEPT !.state = "STREAMING"]
        [] m.fate # "bad" /\ ~r.ok -> OkxResnapshot(r.h)
        [] m.fate = "bad"          -> OkxResnapshot(h)

OkxMessage(h, m) ==
  CASE m.type = "snapshot" -> OkxSnapshot(h, m)
    [] m.type = "update" /\ h.state # "STREAMING" ->
         IF Len(h.buf) < BufCap THEN [h EXCEPT !.buf = Append(@, m)] ELSE OkxResnapshot(h)
    [] OTHER ->
         IF OkxAccepts(h, m) THEN OkxDelta(h, m) ELSE OkxResnapshot(h)

-----------------------------------------------------------------------------
(* Coinbase *)

\* Mutant of CoinbaseValidate: any newer number will do.
CoinbaseValidateNewer(h, m) == h.last < Num(m.hi)

CoinbaseValidate(h, m) == Num(m.hi) = h.last + 1

CoinbaseDelta(h, m) == delta_handler([h EXCEPT !.last = Num(m.hi)], m, Num(m.hi))

CoinbaseApplyBuffered(h) ==
  Replay(h, LAMBDA g, m : Num(m.hi) <= g.last, CoinbaseValidate, CoinbaseDelta)

CoinbaseSnapshot(h, m) ==
  LET snap == [snapshot_handler(h, Content(m.hi), Num(m.hi), m) EXCEPT !.last = Num(m.hi)]
      r == CoinbaseApplyBuffered(snap)
  IN  CASE m.fate # "bad" /\ r.ok  -> [r.h EXCEPT !.state = "STREAMING"]
        [] m.fate # "bad" /\ ~r.ok -> CoinbaseResnapshot(r.h)
        [] m.fate = "bad"          -> CoinbaseResnapshot(h)

CoinbaseMessage(h, m) ==
  CASE m.type = "snapshot" -> CoinbaseSnapshot(h, m)
    [] m.type = "update" /\ h.state # "STREAMING" ->
         IF Len(h.buf) < BufCap THEN [h EXCEPT !.buf = Append(@, m)] ELSE CoinbaseResnapshot(h)
    [] OTHER -> IF CoinbaseValidate(h, m) THEN CoinbaseDelta(h, m) ELSE CoinbaseResnapshot(h)

=============================================================================
