---------------------------- MODULE FeedHandlers ----------------------------
(***************************************************************************)
(* The feed handlers as processes: start and stop on the caller's thread,   *)
(* ws_event_loop on the handler's thread, and the libwebsockets callbacks   *)
(* it runs from lws_service.  kind chooses the venue; "MARK" is the futures *)
(* handler, which only relays the mark price.                               *)
(*                                                                         *)
(* Nothing in ws_event_loop closes a socket: a reconnect that the handler   *)
(* asked for leaves the old socket open in the same context, and its        *)
(* callbacks share the one session record with the new connection.  The     *)
(* model keeps every socket that is open.                                   *)
(***************************************************************************)
EXTENDS FeedProtocols

CONSTANTS
  Kinds,       \* the venues checked
  MaxSockets,  \* bound: sockets open at a time
  MaxFaults,   \* bound: failures of the network, the exchange, the clock and the grid
  MaxStarts    \* bound: calls of start

ASSUME HandlerAssumption ==
  /\ Kinds \subseteq {"BINANCE", "KRAKEN", "OKX", "COINBASE", "MARK"}
  /\ MaxSockets \in Nat /\ MaxFaults \in Nat /\ MaxStarts \in Nat

VARIABLES
  kind,    \* which handler this is
  lacks,   \* the fields its messages do not carry
  ver,     \* the exchange: updates so far
  socks,   \* the sockets in the lws context
  sess,    \* the session record shared by their callbacks
  h,       \* the handler (see FeedProtocols)
  pc,      \* where ws_event_loop is
  call,    \* where the caller of start and stop is
  faults, starts

vars == <<kind, lacks, ver, socks, sess, h, pc, call, faults, starts>>

Free == [st |-> "free", sub |-> FALSE, want |-> FALSE, due |-> FALSE, pos |-> 0]
Sockets == DOMAIN socks
InService == pc \in {"wait", "serve"}

Init ==
  /\ kind \in Kinds
  /\ lacks \in CASE kind = "KRAKEN" -> SUBSET {"checksum"}
                [] kind = "OKX"    -> SUBSET {"checksum", "prevSeqId"}
                [] OTHER           -> {{}}
  /\ ver = 0
  /\ socks = [s \in 1..MaxSockets |-> Free]
  /\ sess = [est |-> FALSE, closed |-> FALSE, toSend |-> FALSE]
  /\ h = [running |-> FALSE, state |-> "DISCONNECTED", reconn |-> FALSE, last |-> 0,
          buf |-> << >>, local |-> NoBook, book |-> NoBook, bookSeq |-> 0,
          ready |-> FALSE, refused |-> FALSE, hb |-> "none", mark |-> 0]
  /\ pc = "off" /\ call = "idle"
  /\ faults = 0 /\ starts = 0

Fault == faults < MaxFaults /\ faults' = faults + 1

\* What the exchange sends: its book after v updates, and the updates lo..hi
Snapshot(v) ==
  [type |-> "snapshot", lo |-> 0, hi |-> v, sent |-> {}, lacks |-> lacks,
   fate |-> "good", out |-> {}]

Update(lo, hi) ==
  [type |-> "update", lo |-> lo, hi |-> hi, sent |-> Sent(kind, lo, hi), lacks |-> lacks,
   fate |-> "good", out |-> {}]

\* The exchange changes its book.
Publish ==
  /\ ver < Len(Touched)
  /\ ver' = ver + 1
  /\ UNCHANGED <<kind, lacks, socks, sess, h, pc, call, faults, starts>>

-----------------------------------------------------------------------------
(* start and stop *)

\* What start resets before it spawns ws_event_loop depends on the venue.
BinanceStart == [h EXCEPT !.running = TRUE, !.state = "BUFFERING", !.reconn = FALSE]

KrakenStart ==
  [h EXCEPT !.running = TRUE, !.state = "BUFFERING", !.last = 0, !.buf = << >>, !.local = NoBook]

OkxStart == [h EXCEPT !.running = TRUE, !.state = "BUFFERING"]

CoinbaseStart ==
  [h EXCEPT !.running = TRUE, !.state = "BUFFERING", !.last = 0, !.buf = << >>,
            !.reconn = FALSE, !.hb = "none"]

FuturesStart == [h EXCEPT !.running = TRUE]

Start ==
  /\ call = "idle" /\ starts < MaxStarts
  /\ h' = CASE kind = "BINANCE"  -> BinanceStart
            [] kind = "KRAKEN"   -> KrakenStart
            [] kind = "OKX"      -> OkxStart
            [] kind = "COINBASE" -> CoinbaseStart
            [] kind = "MARK"     -> FuturesStart
  /\ pc' = "boot"
  /\ call' = IF kind = "MARK" THEN "up" ELSE "starting"
  /\ starts' = starts + 1
  /\ UNCHANGED <<kind, lacks, ver, socks, sess, faults>>

\* The wait in start ends because the book streams or the thread gave up;
\* Coinbase only asks whether the book streams.
StartReturns ==
  /\ call = "starting"
  /\ h.state = "STREAMING" \/ ~h.running
  /\ call' = IF h.running \/ (kind = "COINBASE" /\ h.state = "STREAMING") THEN "up" ELSE "joining"
  /\ UNCHANGED <<kind, lacks, ver, socks, sess, h, pc, faults, starts>>

\* ... or after 30 s (Coinbase 45 s).
StartTimesOut ==
  /\ call = "starting"
  /\ h.state # "STREAMING"
  /\ h' = [h EXCEPT !.running = FALSE]
  /\ call' = "joining"
  /\ UNCHANGED <<kind, lacks, ver, socks, sess, pc, faults, starts>>

BinanceStop == [h EXCEPT !.running = FALSE, !.reconn = FALSE, !.state = "DISCONNECTED"]

\* Kraken, OKX and Coinbase
BookStop == [h EXCEPT !.running = FALSE, !.state = "DISCONNECTED"]

FuturesStop == [h EXCEPT !.running = FALSE]

Stop ==
  /\ call = "up"
  /\ h' = CASE kind = "BINANCE" -> BinanceStop
            [] kind = "MARK"    -> FuturesStop
            [] OTHER            -> BookStop
  /\ call' = "joining"
  /\ UNCHANGED <<kind, lacks, ver, socks, sess, pc, faults, starts>>

Joined ==
  /\ call = "joining" /\ pc = "off"
  /\ call' = "idle"
  /\ UNCHANGED <<kind, lacks, ver, socks, sess, h, pc, faults, starts>>

-----------------------------------------------------------------------------
(* ws_event_loop *)

\* lws_create_context
Boot ==
  /\ pc = "boot"
  /\ \/ pc' = "connect" /\ UNCHANGED <<h, faults>>
     \/ Fault /\ pc' = "off" /\ h' = [h EXCEPT !.running = FALSE]
  /\ UNCHANGED <<kind, lacks, ver, socks, sess, call, starts>>

\* The top of the loop: a fresh session, and a new connection or a failed one.
Connect ==
  /\ pc = "connect" /\ h.running
  /\ sess' = [est |-> FALSE, closed |-> FALSE, toSend |-> kind \in {"KRAKEN", "COINBASE"}]
  /\ h' = IF kind = "BINANCE" THEN [h EXCEPT !.reconn = FALSE] ELSE h
  /\ \/ /\ \E s \in Sockets :
             /\ socks[s] = Free /\ \A r \in 1..(s - 1) : socks[r] # Free
             /\ socks' = [socks EXCEPT ![s].st = "connecting"]
        /\ pc' = "wait"
        /\ UNCHANGED faults
     \/ Fault /\ UNCHANGED <<socks, pc>>
  /\ UNCHANGED <<kind, lacks, ver, call, starts>>

\* What the loop resets when a connection is established; Coinbase and the
\* futures handler reset nothing.
BinanceAdopt == [h EXCEPT !.state = "BUFFERING", !.buf = << >>]

KrakenAdopt ==
  [h EXCEPT !.state = "BUFFERING", !.buf = << >>, !.local = NoBook, !.last = 0, !.reconn = FALSE]

OkxAdopt ==
  [h EXCEPT !.state = "BUFFERING", !.buf = << >>, !.local = NoBook, !.last = 0, !.reconn = FALSE]

\* The wait for the connection ends; a session marked closed is abandoned even
\* when it was another socket that closed.
WaitEnds ==
  /\ pc = "wait"
  /\ ~h.running \/ sess.est \/ sess.closed
  /\ IF ~h.running \/ sess.closed
     THEN pc' = "connect" /\ UNCHANGED h
     ELSE CASE kind = "BINANCE"  -> h' = BinanceAdopt /\ pc' = "sync"
            [] kind = "KRAKEN"   -> h' = KrakenAdopt /\ pc' = "serve"
            [] kind = "OKX"      -> h' = OkxAdopt /\ pc' = "serve"
            [] kind = "COINBASE" -> UNCHANGED h /\ pc' = "check"
            [] kind = "MARK"     -> UNCHANGED h /\ pc' = "serve"
  /\ UNCHANGED <<kind, lacks, ver, socks, sess, call, faults, starts>>

\* Binance fetches its snapshot over REST while no socket is serviced; the book
\* may refuse it, or be without some levels: out of the grid or of the 5000 sent.
Sync ==
  /\ pc = "sync"
  /\ \/ /\ h.running
        /\ \/ h' = BinanceSnapshot(h, Snapshot(ver)) /\ UNCHANGED faults
           \/ /\ Fault
              /\ \E fate \in {"good", "wide", "misfit"}, out \in SUBSET Levels :
                   h' = BinanceSnapshot(h, [Snapshot(ver) EXCEPT !.fate = fate, !.out = out])
        /\ pc' = IF h'.state = "STREAMING" THEN "serve" ELSE "connect"
     \/ /\ Fault \/ (~h.running /\ UNCHANGED faults)
        /\ pc' = "connect" /\ UNCHANGED h
  /\ UNCHANGED <<kind, lacks, ver, socks, sess, call, starts>>

\* Coinbase, before every lws_service: a requested reconnect, the heartbeat.
Check ==
  /\ pc = "check"
  /\ CASE sess.closed \/ ~h.running ->
            h' = [h EXCEPT !.state = "BUFFERING"] /\ pc' = "connect"
       [] ~sess.closed /\ h.running /\ h.reconn ->
            h' = [h EXCEPT !.reconn = FALSE, !.state = "BUFFERING"] /\ pc' = "connect"
       [] ~sess.closed /\ h.running /\ ~h.reconn /\ h.hb = "stale" ->
            h' = CoinbaseResnapshot(h) /\ pc' = "connect"
       [] OTHER -> UNCHANGED h /\ pc' = "serve"
  /\ UNCHANGED <<kind, lacks, ver, socks, sess, call, faults, starts>>

\* Mutant of ServeEnds: only a closed socket ends the loop.
ServeIgnoresRequest ==
  /\ pc = "serve"
  /\ ~h.running \/ sess.closed
  /\ pc' = IF kind = "COINBASE" THEN "check" ELSE "connect"
  /\ UNCHANGED <<kind, lacks, ver, socks, sess, h, call, faults, starts>>

\* After the loop over lws_service: Binance forgets a book whose socket closed.
BinanceServed ==
  IF h.running /\ h.state = "STREAMING"
  THEN [BinanceResnapshot(h) EXCEPT !.reconn = FALSE] ELSE [h EXCEPT !.reconn = FALSE]

KrakenServed == [h EXCEPT !.reconn = FALSE]

OkxServed == [h EXCEPT !.reconn = FALSE]

\* lws_service returned and the loop over it ends, or Coinbase checks again.
ServeEnds ==
  /\ pc = "serve"
  /\ ~h.running \/ sess.closed \/ h.reconn \/ h.hb = "stale"
  /\ CASE kind = "BINANCE"  -> h' = BinanceServed /\ pc' = "connect"
       [] kind = "KRAKEN"   -> h' = KrakenServed /\ pc' = "connect"
       [] kind = "OKX"      -> h' = OkxServed /\ pc' = "connect"
       [] kind = "COINBASE" -> UNCHANGED h /\ pc' = "check"
       [] kind = "MARK"     -> UNCHANGED h /\ pc' = "connect"
  /\ UNCHANGED <<kind, lacks, ver, socks, sess, call, faults, starts>>

\* The context, and every socket in it, is destroyed.
LoopEnds ==
  /\ pc = "connect" /\ ~h.running
  /\ pc' = "off"
  /\ socks' = [s \in Sockets |-> Free]
  /\ UNCHANGED <<kind, lacks, ver, sess, h, call, faults, starts>>

-----------------------------------------------------------------------------
(* The lws callbacks, for any socket of the context *)

\* A subscription that the exchange answers: a snapshot first, except where the
\* stream is named in the URL.
Subscribed(k) == [k EXCEPT !.sub = TRUE, !.pos = ver, !.due = TRUE]

Established(s) ==
  /\ InService /\ socks[s].st = "connecting"
  /\ sess' = [sess EXCEPT !.est = TRUE, !.toSend = @ \/ kind = "OKX"]
  /\ socks' = [socks EXCEPT ![s] =
                 IF kind \in {"BINANCE", "MARK"}
                 THEN [@ EXCEPT !.st = "open", !.sub = TRUE, !.pos = ver]
                 ELSE [@ EXCEPT !.st = "open", !.want = TRUE]]
  /\ UNCHANGED <<kind, lacks, ver, h, pc, call, faults, starts>>

\* CLIENT_CLOSED or CLIENT_CONNECTION_ERROR, of whichever socket
Closed(s) ==
  /\ InService /\ socks[s].st # "free"
  /\ Fault
  /\ socks' = [socks EXCEPT ![s] = Free]
  /\ sess' = [sess EXCEPT !.closed = TRUE]
  /\ UNCHANGED <<kind, lacks, ver, h, pc, call, starts>>

\* CLIENT_WRITEABLE: the pending subscription goes out on the socket that is
\* writable, whichever that is.
Writeable(s) ==
  /\ InService /\ socks[s].st = "open" /\ socks[s].want
  /\ socks' = [socks EXCEPT ![s] =
                 LET k == [@ EXCEPT !.want = FALSE] IN IF sess.toSend THEN Subscribed(k) ELSE k]
  /\ sess' = [sess EXCEPT !.toSend = FALSE]
  /\ UNCHANGED <<kind, lacks, ver, h, pc, call, faults, starts>>

\* The next message of a socket; Binance batches updates.
NextMessages(s) ==
  LET first == socks[s].pos + 1
      lasts == IF kind = "BINANCE" THEN first..ver ELSE {first} \cap (0..ver)
  IN  IF socks[s].due THEN {Snapshot(socks[s].pos)} ELSE {Update(first, last) : last \in lasts}

Delivered(s, m) == [socks EXCEPT ![s].due = FALSE, ![s].pos = m.hi]

\* process_message of the handler; the futures handler relays the price.
ProcessMessage(m) ==
  CASE kind = "BINANCE"  -> BinanceMessage(h, m)
    [] kind = "KRAKEN"   -> KrakenMessage(h, m)
    [] kind = "OKX"      -> OkxMessage(h, m)
    [] kind = "COINBASE" -> CoinbaseMessage(h, m)
    [] kind = "MARK"     -> [h EXCEPT !.mark = m.hi]

Receive(s) ==
  /\ InService /\ socks[s].st = "open" /\ socks[s].sub
  /\ \E m \in NextMessages(s) :
       /\ h' = ProcessMessage(m)
       /\ socks' = Delivered(s, m)
  /\ UNCHANGED <<kind, lacks, ver, sess, pc, call, faults, starts>>

\* A message longer than the fragment buffer is dropped.
Overflow(s) ==
  /\ InService /\ socks[s].st = "open" /\ socks[s].sub
  /\ Fault
  /\ \E m \in NextMessages(s) : socks' = Delivered(s, m)
  /\ UNCHANGED <<kind, lacks, ver, sess, h, pc, call, starts>>

\* A snapshot without data, with an empty side or a wrong checksum, or one that
\* BookManager refuses.
BadSnapshot(s) ==
  /\ InService /\ socks[s].st = "open" /\ socks[s].due
  /\ Fault
  /\ \E m \in NextMessages(s), fate \in {"bad", "wide", "misfit"} :
       /\ h' = ProcessMessage([m EXCEPT !.fate = fate])
       /\ socks' = Delivered(s, m)
  /\ UNCHANGED <<kind, lacks, ver, sess, pc, call, starts>>

\* A message that leaves the grid without some levels: they are out of it, or the
\* update moves it.
OffGrid(s) ==
  /\ InService /\ socks[s].st = "open" /\ socks[s].sub /\ kind # "MARK"
  /\ Fault
  /\ \E m \in NextMessages(s), out \in SUBSET Levels :
       /\ h' = ProcessMessage([m EXCEPT !.out = out])
       /\ socks' = Delivered(s, m)
  /\ UNCHANGED <<kind, lacks, ver, sess, pc, call, starts>>

\* The exchange refuses the subscription: OKX and Kraken try again, Coinbase
\* gives up for good.
Rejected(s) ==
  /\ InService /\ socks[s].st = "open" /\ socks[s].due
  /\ Fault
  /\ socks' = [socks EXCEPT ![s].sub = FALSE, ![s].due = FALSE]
  /\ h' = CASE kind = "KRAKEN" -> KrakenResnapshot(h)
            [] kind = "OKX"    -> OkxResnapshot(h)
            [] OTHER           -> [h EXCEPT !.running = FALSE]
  /\ UNCHANGED <<kind, lacks, ver, sess, pc, call, starts>>

\* Coinbase heartbeats, and five seconds without one
Heartbeat(s) ==
  /\ kind = "COINBASE" /\ InService /\ socks[s].st = "open" /\ socks[s].sub
  /\ h' = [h EXCEPT !.hb = "fresh"]
  /\ UNCHANGED <<kind, lacks, ver, socks, sess, pc, call, faults, starts>>

HeartbeatLost ==
  /\ h.hb = "fresh" /\ Fault
  /\ h' = [h EXCEPT !.hb = "stale"]
  /\ UNCHANGED <<kind, lacks, ver, socks, sess, pc, call, starts>>

-----------------------------------------------------------------------------
Loop == Boot \/ Connect \/ WaitEnds \/ Sync \/ Check \/ ServeEnds \/ LoopEnds
Caller == Start \/ StartReturns \/ StartTimesOut \/ Stop \/ Joined
Network(s) ==
  Established(s) \/ Closed(s) \/ Writeable(s) \/ Receive(s) \/ Overflow(s)
    \/ BadSnapshot(s) \/ OffGrid(s) \/ Rejected(s) \/ Heartbeat(s)

Next == Publish \/ Loop \/ Caller \/ HeartbeatLost \/ \E s \in Sockets : Network(s)

Spec == Init /\ [][Next]_vars

\* The event loop thread runs, the caller gets its thread back, and a healthy
\* network connects, takes subscriptions and delivers what was sent.
FairSpec ==
  /\ Spec
  /\ WF_vars(Loop) /\ WF_vars(StartReturns) /\ WF_vars(Joined)
  /\ \A s \in 1..MaxSockets : WF_vars(Established(s) \/ Writeable(s) \/ Receive(s))

-----------------------------------------------------------------------------
(* What the handlers promise *)

\* The numbers of the venue's messages tell when one is missing.
Numbered == kind \in {"BINANCE", "COINBASE"} \/ (kind = "OKX" /\ "prevSeqId" \notin lacks)

\* The book program and handler share is usable, and from the last snapshot.
Usable == h.ready /\ ~h.refused

\* Every level the grid has is the exchange's at version v.
Agrees(b, v) == \A l \in Levels : b[l] \in {Content(v)[l], Hidden}

\* BookIsGenuine: whatever is lost, repeated by a socket left open, or replayed
\* from the buffer, all the levels of the book are from one moment of the
\* exchange: no update is missing under a later one.  It speaks of the venues
\* whose numbers can tell and of a book that took the last snapshot
\* (apply_buffered_deltas and process_message, binance_feed_handler.cpp:645).
BookIsGenuine == Usable /\ Numbered => \E v \in 0..ver : Agrees(h.book, v)

\* SequenceMatchesBook: while the handler streams, the book has the number the
\* handler does, so that no update is dropped as old, and where the numbers
\* come from the exchange the book is the one with that number, also after a
\* replay (okx_feed_handler.cpp:570).
SequenceMatchesBook ==
  h.state = "STREAMING" /\ Usable =>
    h.bookSeq = h.last /\ (Numbered => Agrees(h.book, h.last - 1))

\* ChecksumBookIsTraded: Kraken and OKX compute checksums over a book of their
\* own: while they stream each of its levels is in the book the program trades
\* on, or the checksum would vouch for another one.  Kraken's is cut to the
\* subscribed depth and the traded book is not, OKX's has no level less
\* (kraken_feed_handler.cpp:505).
ChecksumBookIsTraded ==
  h.state = "STREAMING" /\ Usable /\ kind \in {"KRAKEN", "OKX"} =>
    \A l \in Levels :
      h.local[l] # None \/ kind = "OKX" => h.book[l] \in {h.local[l], Hidden}

\* BestLevelsAreReal: where checksums are sent, the best levels of the book they
\* are computed over are those of one moment of the exchange, and the traded book
\* has them, even if an update of a deeper level was lost or never sent
\* (validate_checksum, kraken_feed_handler.cpp:578, okx_feed_handler.cpp:664).
BestLevelsAreReal ==
  h.state = "STREAMING" /\ Usable /\ kind \in {"KRAKEN", "OKX"} /\ "checksum" \notin lacks =>
    \E v \in 0..ver :
      /\ TopOf(h.local, ChecksumDepth) = TopOf(Content(v), ChecksumDepth)
      /\ \A l \in Best(Content(v), ChecksumDepth) : h.book[l] \in {Content(v)[l], Hidden}

\* The subscription was sent and its snapshot dropped: no timer watches for it,
\* the handler fills its buffer and only the overflow makes it reconnect.
SnapshotLost ==
  /\ pc = "serve" /\ ~h.reconn /\ ~sess.toSend
  /\ \A s \in Sockets : ~socks[s].due

\* The bound of the model on open sockets is reached.
SocketsExhausted == \A s \in Sockets : socks[s].st # "free"

\* Resyncs: after a gap, a lost connection or a bad snapshot the handler streams
\* again, unless it is stopped or the snapshot itself was dropped.  Coinbase is
\* excepted while its heartbeat clock is stale: a reconnect does not reset it
\* (ws_event_loop of the four handlers, binance_feed_handler.cpp:226).
Resyncs ==
  (h.running /\ h.state # "STREAMING" /\ kind # "MARK") ~>
    (h.state = "STREAMING" \/ ~h.running \/ SnapshotLost \/ h.hb = "stale" \/ SocketsExhausted)
=============================================================================
