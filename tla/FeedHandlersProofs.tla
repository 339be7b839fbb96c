------------------------- MODULE FeedHandlersProofs -------------------------
(***************************************************************************)
(* Theorems about FeedHandlers, for every number of levels, updates,        *)
(* sockets and failures, every depth and every buffer: where numbers tell,  *)
(* the book a handler hands out is of one moment of the exchange, the       *)
(* numbers match it while the handler streams, and the levels under the     *)
(* checksums of Kraken and OKX are real and traded on.                      *)
(*                                                                         *)
(* The handler functions are proved about as functions of the handler       *)
(* record: Consistent(k, om, g, n) is what the record g of a handler for    *)
(* venue k, whose messages lack the fields om, satisfies when the exchange  *)
(* has made n updates, and every function keeps it.  The steps of the       *)
(* threads and sockets follow from that.                                    *)
(***************************************************************************)
EXTENDS FeedHandlers, WellFoundedInduction, FiniteSetTheorems, TLAPS

-----------------------------------------------------------------------------
(* The numbers below a bound, and functions defined by recursion on them *)

\* A set of natural numbers has a smallest element.
LEMMA Smallest ==
  ASSUME NEW T, T \subseteq Nat, T # {}
  PROVE  \E m \in T : \A y \in T : m <= y
<1>1. PICK m \in T : \A y \in T : ~(<<y, m>> \in OpToRel(<, Nat))
  BY NatLessThanWellFounded, WFMin
<1>2. ASSUME NEW y \in T, ~(m <= y) PROVE FALSE
  <2>1. y \in Nat /\ m \in Nat /\ y < m
    BY <1>2
  <2> QED
    BY <1>1, <2>1 DEF OpToRel
<1> QED
  BY <1>2

\* What holds of 0, and of each number after one it holds of, holds up to n.
LEMMA Climb ==
  ASSUME NEW n \in Nat, NEW G, 0 \in G, \A k \in 1..n : k - 1 \in G => k \in G
  PROVE  \A k \in 0..n : k \in G
<1> SUFFICES ASSUME NEW k \in 0..n, k \notin G PROVE FALSE
  OBVIOUS
<1> DEFINE Bad == {i \in 0..n : i \notin G}
<1>1. Bad \subseteq Nat /\ Bad # {}
  OBVIOUS
<1> HIDE DEF Bad
<1>2. PICK m \in Bad : \A y \in Bad : m <= y
  BY <1>1, Smallest
<1>3. m \in 0..n /\ m \notin G /\ m # 0
  BY DEF Bad
<1>4. m - 1 \in 0..n /\ m - 1 \in G
  BY <1>2, <1>3 DEF Bad
<1> QED
  BY <1>3, <1>4

\* next gives each value from the one before it.
IsRun(f, n, base, next) ==
  f = [k \in 0..n |-> IF k = 0 THEN base ELSE next[<<f[k - 1], k>>]]

LEMMA RunExists ==
  ASSUME NEW n \in Nat, NEW base, NEW next
  PROVE  \E f : IsRun(f, n, base, next)
<1> DEFINE G == {k \in 0..n : \E f : IsRun(f, k, base, next)}
<1>1. 0 \in G
  <2>1. IsRun([k \in 0..0 |-> base], 0, base, next)
    <3>1. \A k \in 0..0 : k = 0
      OBVIOUS
    <3> QED
      BY <3>1 DEF IsRun
  <2> QED
    BY <2>1
<1>2. ASSUME NEW k \in 1..n, k - 1 \in G PROVE k \in G
  <2>1. PICK f : IsRun(f, k - 1, base, next)
    BY <1>2
  <2> DEFINE g == [i \in 0..k |-> IF i = k THEN next[<<f[k - 1], k>>] ELSE f[i]]
  <2>2. ASSUME NEW i \in 0..k PROVE g[i] = IF i = 0 THEN base ELSE next[<<g[i - 1], i>>]
    <3>1. CASE i = k
      <4>1. k - 1 \in 0..k /\ k - 1 # k /\ i # 0
        BY <3>1
      <4> QED
        BY <3>1, <4>1
    <3>2. CASE i # k
      <4>1. i \in 0..(k - 1) /\ g[i] = f[i]
        BY <3>2
      <4>2. f[i] = IF i = 0 THEN base ELSE next[<<f[i - 1], i>>]
        BY <2>1, <4>1 DEF IsRun
      <4>3. i # 0 => g[i - 1] = f[i - 1]
        BY <4>1
      <4> QED
        BY <4>1, <4>2, <4>3
    <3> QED
      BY <3>1, <3>2
  <2>3. g = [i \in 0..k |-> g[i]]
    OBVIOUS
  <2> HIDE DEF g
  <2>4. [i \in 0..k |-> g[i]] = [i \in 0..k |-> IF i = 0 THEN base ELSE next[<<g[i - 1], i>>]]
    BY <2>2
  <2> QED
    BY <2>3, <2>4 DEF IsRun
<1> HIDE DEF G
<1>3. n \in G
  BY <1>1, <1>2, Climb
<1> QED
  BY <1>3 DEF G

LEMMA RunStays ==
  ASSUME NEW n \in Nat, NEW D, NEW base \in D, NEW next \in [D \X (1..n) -> D]
  PROVE  \E f : IsRun(f, n, base, next) /\ \A k \in 0..n : f[k] \in D
<1>1. PICK f : IsRun(f, n, base, next)
  BY RunExists
<1> DEFINE G == {k \in 0..n : f[k] \in D}
<1>2. 0 \in G
  BY <1>1 DEF IsRun
<1>3. ASSUME NEW k \in 1..n, k - 1 \in G PROVE k \in G
  <2>1. f[k] = next[<<f[k - 1], k>>]
    BY <1>1 DEF IsRun
  <2> QED
    BY <1>3, <2>1
<1>4. \A k \in 0..n : k \in G
  <2> HIDE DEF G
  <2> QED
    BY <1>2, <1>3, Climb
<1> QED
  BY <1>1, <1>4

LEMMA RunEnds ==
  ASSUME NEW n \in Nat, NEW D, NEW f, f[0] \in D, \A k \in 1..n : f[k - 1] \in D => f[k] \in D
  PROVE  f[n] \in D
<1> DEFINE G == {k \in 0..n : f[k] \in D}
<1>1. 0 \in G /\ \A k \in 1..n : k - 1 \in G => k \in G
  OBVIOUS
<1> HIDE DEF G
<1>2. n \in G
  BY <1>1, Climb
<1> QED
  BY <1>2 DEF G

-----------------------------------------------------------------------------
(* The exchange's book *)

\* The last update to a level, seen from version v.
LEMMA LastTouchIs ==
  ASSUME NEW l, NEW v \in Nat
  PROVE  /\ LastTouch(l, v) \in 0..v
         /\ LastTouch(l, v) = 0 \/ Touched[LastTouch(l, v)] = l
         /\ \A u \in (LastTouch(l, v) + 1)..v : Touched[u] # l
<1> DEFINE T == {i \in Nat : i <= v /\ (i = v \/ Touched[v - i] = l)}
<1>1. T \subseteq Nat /\ v \in T
  OBVIOUS
<1>2. PICK m \in T : \A y \in T : m <= y
  <2> HIDE DEF T
  <2> QED
    BY <1>1, Smallest
<1>3. ASSUME NEW u \in (v - m + 1)..v PROVE Touched[u] # l
  <2>1. v - u \in Nat /\ v - u < m /\ v - (v - u) = u /\ v - u <= v /\ m \in Nat
    BY <1>2
  <2> QED
    BY <1>2, <2>1
<1>4. /\ v - m \in 0..v
      /\ v - m = 0 \/ Touched[v - m] = l
  BY <1>2
<1>5. \E w \in 0..v : (w = 0 \/ Touched[w] = l) /\ \A u \in (w + 1)..v : Touched[u] # l
  BY <1>3, <1>4
<1> QED
  BY <1>5 DEF LastTouch

LEMMA ContentType ==
  ASSUME NEW v \in Nat
  PROVE  /\ Content(v) \in [Levels -> Int]
         /\ \A l \in Levels : Content(v)[l] = Given(l, LastTouch(l, v))
<1>1. \A l \in Levels : LastTouch(l, v) \in Nat
  BY LastTouchIs
<1>2. \A l \in Levels : Given(l, LastTouch(l, v)) \in Int
  BY <1>1 DEF Given, None
<1> QED
  BY <1>2 DEF Content

\* A level the updates after v leave alone is as it was at v.
LEMMA Untouched ==
  ASSUME NEW l, NEW v \in Nat, NEW w \in Nat, v <= w, LastTouch(l, w) <= v
  PROVE  LastTouch(l, v) = LastTouch(l, w)
<1> DEFINE a == LastTouch(l, v)
           b == LastTouch(l, w)
<1>1. /\ a \in 0..v /\ (a = 0 \/ Touched[a] = l)
      /\ b \in 0..w /\ (b = 0 \/ Touched[b] = l)
      /\ \A u \in (a + 1)..v : Touched[u] # l
      /\ \A u \in (b + 1)..w : Touched[u] # l
      /\ b <= v
  BY LastTouchIs
<1> HIDE DEF a, b
<1>2. ~(a < b)
  <2> SUFFICES ASSUME a < b PROVE FALSE
    OBVIOUS
  <2>1. b \in (a + 1)..v /\ b # 0
    BY <1>1
  <2> QED
    BY <1>1, <2>1
<1>3. ~(b < a)
  <2> SUFFICES ASSUME b < a PROVE FALSE
    OBVIOUS
  <2>1. a \in (b + 1)..w /\ a # 0
    BY <1>1
  <2> QED
    BY <1>1, <2>1
<1>4. a = b
  BY <1>1, <1>2, <1>3
<1> QED
  BY <1>4 DEF a, b

\* A level the updates lo..hi leave alone is the same at hi as where they start.
LEMMA Unsent ==
  ASSUME NEW l \in Levels, NEW v \in Nat, NEW lo \in Nat, NEW hi \in Nat, lo <= v + 1, v <= hi,
         ~(LastTouch(l, hi) >= lo)
  PROVE  Content(v)[l] = Content(hi)[l]
<1>1. LastTouch(l, hi) \in Nat
  BY LastTouchIs
<1>2. LastTouch(l, hi) <= v
  BY <1>1
<1>3. LastTouch(l, v) = LastTouch(l, hi)
  BY <1>2, Untouched
<1> QED
  BY <1>3, ContentType

\* How many levels are better than one is a number, and grows with the level.
LEMMA BetterCounts ==
  ASSUME NEW b, NEW l \in Nat, NEW j \in Nat, j <= l
  PROVE  /\ Cardinality({i \in Present(b) : i < j}) \in Nat
         /\ Cardinality({i \in Present(b) : i < l}) \in Nat
         /\ Cardinality({i \in Present(b) : i < j}) <= Cardinality({i \in Present(b) : i < l})
<1> DEFINE J == {i \in Present(b) : i < j}
           L == {i \in Present(b) : i < l}
<1>1. L \subseteq Levels /\ J \subseteq L
  <2>1. \A i \in Present(b) : i \in Levels /\ i \in Nat
    BY ProtocolAssumption DEF Present
  <2>2. \A i \in Nat : i < j => i < l
    OBVIOUS
  <2> QED
    BY <2>1, <2>2
<1> HIDE DEF J, L
<1>2. IsFiniteSet(L)
  BY <1>1, ProtocolAssumption, FS_Subset
<1>3. IsFiniteSet(J) /\ Cardinality(J) <= Cardinality(L)
  BY <1>1, <1>2, FS_Subset
<1>4. Cardinality(J) \in Nat /\ Cardinality(L) \in Nat
  BY <1>2, <1>3, FS_CardinalityType
<1> QED
  BY <1>3, <1>4 DEF J, L

\* The best few levels are among the best more, with every better level.
LEMMA BestWithin ==
  ASSUME NEW b, NEW l \in Best(b, ChecksumDepth)
  PROVE  /\ l \in Levels /\ b[l] # None
         /\ l \in Best(b, SubscribedDepth)
         /\ \A j \in Present(b) : j < l => j \in Best(b, SubscribedDepth)
<1>1. /\ l \in Present(b) /\ l \in Levels /\ b[l] # None /\ l \in Nat
      /\ Cardinality({i \in Present(b) : i < l}) < ChecksumDepth
  BY ProtocolAssumption DEF Best, Present
<1>2. ASSUME NEW j \in Present(b), j <= l PROVE j \in Best(b, SubscribedDepth)
  <2>1. j \in Nat
    BY ProtocolAssumption DEF Present
  <2>2. /\ Cardinality({i \in Present(b) : i < j}) \in Nat
        /\ Cardinality({i \in Present(b) : i < l}) \in Nat
        /\ Cardinality({i \in Present(b) : i < j}) <= Cardinality({i \in Present(b) : i < l})
    BY <1>1, <1>2, <2>1, BetterCounts
  <2>3. Cardinality({i \in Present(b) : i < j}) < SubscribedDepth
    BY <1>1, <2>2, ProtocolAssumption
  <2> QED
    BY <2>3 DEF Best
<1>3. \A j \in Present(b) : j < l => j \in Nat /\ j <= l
  BY <1>1, ProtocolAssumption DEF Present
<1> QED
  BY <1>1, <1>2, <1>3

\* truncate_book leaves the levels a checksum covers as they are.
LEMMA TruncatedTop ==
  ASSUME NEW b \in [Levels -> Int]
  PROVE  TopOf(Truncated(b), ChecksumDepth) = TopOf(b, ChecksumDepth)
<1> DEFINE c == Truncated(b)
<1>1. /\ \A l \in Levels : c[l] = IF l \in Best(b, SubscribedDepth) THEN b[l] ELSE None
      /\ Present(c) = Best(b, SubscribedDepth)
  <2>1. \A l \in Levels : c[l] = IF l \in Best(b, SubscribedDepth) THEN b[l] ELSE None
    BY DEF Truncated
  <2> HIDE DEF c
  <2> QED
    BY <2>1 DEF Present, Best
<1> HIDE DEF c
<1>2. ASSUME NEW l \in Best(b, ChecksumDepth)
      PROVE  l \in Best(c, ChecksumDepth) /\ c[l] = b[l]
  <2>1. {i \in Present(c) : i < l} = {i \in Present(b) : i < l}
    BY <1>1, BestWithin DEF Best
  <2> QED
    BY <1>1, <2>1, BestWithin DEF Best
<1>3. ASSUME NEW l \in Best(c, ChecksumDepth), l \notin Best(b, ChecksumDepth) PROVE FALSE
  <2>1. l \in Present(b) /\ l \in Nat /\ l \in Best(b, SubscribedDepth)
    BY <1>1, ProtocolAssumption DEF Best, Present
  <2>2. {i \in Present(c) : i < l} = {i \in Present(b) : i < l}
    <3>1. ASSUME NEW i \in Present(b), i < l PROVE i \in Best(b, SubscribedDepth)
      <4>1. i \in Nat /\ i <= l
        BY <2>1, <3>1, ProtocolAssumption DEF Present
      <4>2. Cardinality({x \in Present(b) : x < l}) < SubscribedDepth
        BY <2>1 DEF Best
      <4>3. /\ Cardinality({x \in Present(b) : x < i}) \in Nat
            /\ Cardinality({x \in Present(b) : x < l}) \in Nat
            /\ Cardinality({x \in Present(b) : x < i}) <= Cardinality({x \in Present(b) : x < l})
        BY <2>1, <4>1, BetterCounts
      <4>4. Cardinality({x \in Present(b) : x < i}) < SubscribedDepth
        BY <4>2, <4>3, ProtocolAssumption
      <4> QED
        BY <4>4, <3>1 DEF Best
    <3> QED
      BY <1>1, <3>1 DEF Best
  <2> QED
    BY <1>3, <2>1, <2>2 DEF Best
<1>4. TopOf(c, ChecksumDepth) = TopOf(b, ChecksumDepth)
  BY <1>2, <1>3 DEF TopOf
<1> QED
  BY <1>4 DEF c

\* The levels under a checksum that agrees are those of the exchange.
LEMMA SumAgrees ==
  ASSUME NEW b, NEW c, TopOf(b, ChecksumDepth) = TopOf(c, ChecksumDepth),
         NEW l \in Best(c, ChecksumDepth)
  PROVE  b[l] = c[l]
<1>1. <<l, c[l]>> \in TopOf(b, ChecksumDepth)
  BY DEF TopOf
<1>2. PICK j \in Best(b, ChecksumDepth) : <<l, c[l]>> = <<j, b[j]>>
  BY <1>1 DEF TopOf
<1> QED
  BY <1>2

-----------------------------------------------------------------------------
(* The record of a handler *)

Handler ==
  [running : BOOLEAN, state : {"DISCONNECTED", "BUFFERING", "STREAMING"}, reconn : BOOLEAN,
   last : Nat, buf : Seq(Message), local : [Levels -> Int], book : [Levels -> Int],
   bookSeq : Nat, ready : BOOLEAN, refused : BOOLEAN, hb : {"none", "fresh", "stale"}, mark : Nat]

\* The updates and snapshots a handler for venue k, whose messages lack the fields
\* in om, can be sent when the exchange has made n updates; only Binance sends
\* batches.
Updates(k, om, n) ==
  {m \in Message : /\ m.type = "update" /\ m.lo \in 1..m.hi /\ m.hi \in 1..n /\ m.lacks = om
                   /\ k # "BINANCE" => m.lo = m.hi
                   /\ k # "KRAKEN" => m.sent = {l \in Levels : LastTouch(l, m.hi) >= m.lo}}
Snapshots(n) == {m \in Message : m.type = "snapshot" /\ m.hi \in 0..n}

\* The venues whose numbers, and those whose checksums, can tell.
NumberedBy(k, om) == k \in {"BINANCE", "COINBASE"} \/ (k = "OKX" /\ "prevSeqId" \notin om)
SummedBy(k, om) == k \in {"KRAKEN", "OKX"} /\ "checksum" \notin om

\* The levels a checksum covers are all from one moment of the exchange.
TopReal(b, n) == \E v \in 0..n : TopOf(b, ChecksumDepth) = TopOf(Content(v), ChecksumDepth)

\* The traded book has what the book under the checksum has.
Carries(k, book, local) ==
  \A l \in Levels : local[l] # None \/ k = "OKX" => book[l] \in {local[l], Hidden}

\* What the handler knows and the book it hands out are at the same update,
\* unless the book refused the handler's last snapshot.
Synced(k, om, g, n) ==
  g.ready /\ ~g.refused =>
    /\ g.bookSeq = g.last
    /\ NumberedBy(k, om) => g.last \in 1..(n + 1) /\ Agrees(g.book, g.last - 1)
    /\ k \in {"KRAKEN", "OKX"} => Carries(k, g.book, g.local)
    /\ SummedBy(k, om) => TopReal(g.local, n)

\* The record of a handler, whatever it is doing.  Binance stays synchronised
\* streaming or not.
Consistent(k, om, g, n) ==
  /\ g \in Handler
  /\ g.ready /\ ~g.refused /\ NumberedBy(k, om) => \E v \in 0..n : Agrees(g.book, v)
  /\ \A i \in 1..Len(g.buf) : g.buf[i] \in Updates(k, om, n)
  /\ g.state = "STREAMING" \/ k = "BINANCE" => Synced(k, om, g, n)

LEMMA UpdateIs ==
  ASSUME NEW k, NEW om, NEW n \in Versions, NEW m \in Updates(k, om, n)
  PROVE  /\ n \in Nat /\ m.lo \in Nat /\ m.hi \in Nat /\ 1 <= m.lo /\ m.lo <= m.hi /\ m.hi <= n
         /\ m.hi \in 0..n /\ m \in Message /\ m.lacks = om
         /\ Num(m.lo) = m.lo + 1 /\ Num(m.hi) = m.hi + 1 /\ Num(m.lo - 1) = m.lo
         /\ k # "BINANCE" => m.lo = m.hi
         /\ k # "KRAKEN" => m.sent = {l \in Levels : LastTouch(l, m.hi) >= m.lo}
BY ProtocolAssumption DEF Updates, Message, Versions, Num

LEMMA PatchType ==
  ASSUME NEW b \in [Levels -> Int], NEW m, m.hi \in Nat
  PROVE  Patch(b, m) \in [Levels -> Int]
BY ContentType DEF Patch

LEMMA HideType ==
  ASSUME NEW b \in [Levels -> Int], NEW out
  PROVE  Hide(b, out) \in [Levels -> Int]
BY DEF Hide, Hidden

LEMMA TruncatedType ==
  ASSUME NEW b \in [Levels -> Int]
  PROVE  Truncated(b) \in [Levels -> Int]
BY DEF Truncated, None

\* Updates that continue a book of the exchange make the next one of it, of the
\* levels the grid has.
LEMMA PatchAgrees ==
  ASSUME NEW v \in Nat, NEW b \in [Levels -> Int], Agrees(b, v),
         NEW m, m.lo \in Nat, m.hi \in Nat, m.lo <= v + 1, v <= m.hi,
         m.sent = {l \in Levels : LastTouch(l, m.hi) >= m.lo}
  PROVE  Agrees(Hide(Patch(b, m), m.out), m.hi)
<1> SUFFICES ASSUME NEW l \in Levels
             PROVE  Hide(Patch(b, m), m.out)[l] \in {Content(m.hi)[l], Hidden}
  BY DEF Agrees
<1>1. Hide(Patch(b, m), m.out)[l] = IF l \in m.out THEN Hidden
                                     ELSE IF l \in m.sent THEN Content(m.hi)[l] ELSE b[l]
  BY DEF Hide, Patch
<1>2. CASE l \in m.sent \/ l \in m.out
  BY <1>1, <1>2
<1>3. CASE l \notin m.sent /\ l \notin m.out
  <2>1. Content(v)[l] = Content(m.hi)[l]
    BY <1>3, Unsent
  <2>2. b[l] \in {Content(v)[l], Hidden}
    BY DEF Agrees
  <2> QED
    BY <1>1, <1>3, <2>1, <2>2
<1> QED
  BY <1>2, <1>3

Takes(g, seq) == g.ready /\ seq >= g.bookSeq

\* e is what delta_handler makes of g.
Handled(g, m, seq, e) ==
  /\ e \in Handler
  /\ e.state = g.state /\ e.buf = g.buf /\ e.local = g.local /\ e.last = g.last
  /\ (e.ready <=> g.ready) /\ (e.refused <=> g.refused)
  /\ Takes(g, seq) => e.book = Hide(Patch(g.book, m), m.out) /\ e.bookSeq = seq
  /\ ~Takes(g, seq) => e = g

\* delta_handler changes the book and its number, if the book is ready and the
\* update is not old.
LEMMA DeltaHandled ==
  ASSUME NEW g \in Handler, NEW m \in Message, NEW seq \in Nat,
         NEW e, e = delta_handler(g, m, seq)
  PROVE  Handled(g, m, seq, e)
<1>1. Hide(Patch(g.book, m), m.out) \in [Levels -> Int]
  <2>1. m.hi \in Nat /\ g.book \in [Levels -> Int]
    BY DEF Handler, Message, Versions
  <2> QED
    BY <2>1, PatchType, HideType
<1>2. PICK book \in [Levels -> Int] : book = Hide(Patch(g.book, m), m.out)
  BY <1>1
<1>3. e = IF Takes(g, seq) THEN [g EXCEPT !.book = book, !.bookSeq = seq] ELSE g
  BY <1>2 DEF delta_handler, Takes
<1> QED
  BY <1>2, <1>3 DEF Handler, Handled

-----------------------------------------------------------------------------
(* The update of each venue, applied to a handler that is synchronised *)

\* r is what becomes of g when the update m is taken under the number seq.
Emitted(k, g, m, seq, r) ==
  /\ r.ready <=> g.ready
  /\ r.refused <=> g.refused
  /\ r.last = seq
  /\ g.ready /\ seq >= g.bookSeq => r.book = Hide(Patch(g.book, m), m.out) /\ r.bookSeq = seq
  /\ k \in {"KRAKEN", "OKX"} =>
       \A l \in Levels : r.local[l] # None \/ k = "OKX" => r.local[l] = Patch(g.local, m)[l]

\* An update whose number continues the book, or whose checksum agrees, keeps the
\* handler synchronised.
LEMMA EmittedSynced ==
  ASSUME NEW k, NEW om, NEW n \in Versions, NEW g \in Handler, Synced(k, om, g, n),
         NEW m \in Updates(k, om, n), NEW seq \in Nat, seq >= g.last,
         NumberedBy(k, om) => seq = m.hi + 1 /\ m.lo <= g.last /\ g.last <= m.hi + 1,
         NEW r, Emitted(k, g, m, seq, r),
         SummedBy(k, om) => TopOf(r.local, ChecksumDepth) = TopOf(Content(m.hi), ChecksumDepth)
  PROVE  Synced(k, om, r, n)
<1> SUFFICES ASSUME r.ready, ~r.refused
             PROVE  /\ r.bookSeq = r.last
                    /\ NumberedBy(k, om) => r.last \in 1..(n + 1) /\ Agrees(r.book, r.last - 1)
                    /\ k \in {"KRAKEN", "OKX"} => Carries(k, r.book, r.local)
                    /\ SummedBy(k, om) => TopReal(r.local, n)
  BY DEF Synced
<1>1. /\ g.ready /\ g.bookSeq = g.last
      /\ NumberedBy(k, om) => g.last \in 1..(n + 1) /\ Agrees(g.book, g.last - 1)
      /\ k \in {"KRAKEN", "OKX"} => Carries(k, g.book, g.local)
  BY DEF Synced, Emitted
<1>2. r.book = Hide(Patch(g.book, m), m.out) /\ r.bookSeq = seq /\ r.last = seq
  BY <1>1 DEF Emitted
<1>3. /\ n \in Nat /\ m.lo \in Nat /\ m.hi \in Nat /\ m.hi \in 0..n
      /\ k # "KRAKEN" => m.sent = {l \in Levels : LastTouch(l, m.hi) >= m.lo}
      /\ g.last \in Nat /\ g.book \in [Levels -> Int]
  BY UpdateIs DEF Handler
<1>4. ASSUME NumberedBy(k, om) PROVE r.last \in 1..(n + 1) /\ Agrees(r.book, r.last - 1)
  <2>1. PICK v \in Nat : v = g.last - 1
    BY <1>1, <1>3, <1>4
  <2>2. /\ m.lo <= v + 1 /\ v <= m.hi /\ Agrees(g.book, v)
        /\ m.sent = {l \in Levels : LastTouch(l, m.hi) >= m.lo}
    BY <1>1, <1>3, <1>4, <2>1 DEF NumberedBy
  <2>3. Agrees(Hide(Patch(g.book, m), m.out), m.hi)
    BY <1>3, <2>2, PatchAgrees
  <2>4. r.last \in 1..(n + 1) /\ r.last - 1 = m.hi
    BY <1>2, <1>3, <1>4
  <2> QED
    BY <1>2, <2>3, <2>4
<1>5. ASSUME k \in {"KRAKEN", "OKX"} PROVE Carries(k, r.book, r.local)
  <2> SUFFICES ASSUME NEW l \in Levels, r.local[l] # None \/ k = "OKX"
               PROVE  r.book[l] \in {r.local[l], Hidden}
    BY DEF Carries
  <2>1. r.local[l] = IF l \in m.sent THEN Content(m.hi)[l] ELSE g.local[l]
    BY <1>5 DEF Emitted, Patch
  <2>2. r.book[l] = IF l \in m.out THEN Hidden
                    ELSE IF l \in m.sent THEN Content(m.hi)[l] ELSE g.book[l]
    BY <1>2 DEF Hide, Patch
  <2>3. l \notin m.sent => g.book[l] \in {g.local[l], Hidden}
    BY <1>1, <1>5, <2>1 DEF Carries
  <2> QED
    BY <2>1, <2>2, <2>3
<1>6. ASSUME SummedBy(k, om) PROVE TopReal(r.local, n)
  BY <1>3, <1>6 DEF TopReal
<1> QED
  BY <1>2, <1>4, <1>5, <1>6

LEMMA BinanceApplied ==
  ASSUME NEW om, NEW n \in Versions, NEW g \in Handler, Synced("BINANCE", om, g, n),
         NEW m \in Updates("BINANCE", om, n), BinanceValidate(g, m),
         NEW r, r = BinanceApplyDelta(g, m)
  PROVE  r \in Handler /\ Synced("BINANCE", om, r, n) /\ r.buf = g.buf /\ r.state = g.state
<1>1. /\ m \in Message /\ m.hi \in Nat /\ m.lo \in Nat
      /\ Num(m.lo) = m.lo + 1 /\ Num(m.hi) = m.hi + 1 /\ g.last \in Nat
  BY UpdateIs DEF Handler
<1>2. m.lo <= g.last /\ g.last <= m.hi
  BY <1>1 DEF BinanceValidate
<1>3. PICK seq \in Nat : seq = m.hi + 1 /\ seq = Num(m.hi)
  BY <1>1
<1>4. PICK e : e = delta_handler(g, m, seq)
  OBVIOUS
<1>5. /\ e \in Handler /\ e.state = g.state /\ e.buf = g.buf
      /\ (e.ready <=> g.ready) /\ (e.refused <=> g.refused)
      /\ Takes(g, seq) => e.book = Hide(Patch(g.book, m), m.out) /\ e.bookSeq = seq
  <2>1. Handled(g, m, seq, e)
    BY <1>1, <1>4, DeltaHandled
  <2> QED
    BY <2>1 DEF Handled
<1>6. r = [e EXCEPT !.last = seq]
  BY <1>3, <1>4 DEF BinanceApplyDelta
<1>7. /\ r \in Handler /\ r.last = seq /\ r.book = e.book /\ r.bookSeq = e.bookSeq
      /\ (r.ready <=> e.ready) /\ (r.refused <=> e.refused) /\ r.buf = e.buf /\ r.state = e.state
  BY <1>5, <1>6 DEF Handler
<1>8. Emitted("BINANCE", g, m, seq, r)
  BY <1>5, <1>7 DEF Emitted, Takes
<1>9. ~SummedBy("BINANCE", om) /\ seq >= g.last /\ g.last <= m.hi + 1
  BY <1>1, <1>2, <1>3 DEF SummedBy
<1>10. Synced("BINANCE", om, r, n)
  BY <1>2, <1>3, <1>8, <1>9, EmittedSynced
<1> QED
  BY <1>5, <1>7, <1>10

LEMMA CoinbaseApplied ==
  ASSUME NEW om, NEW n \in Versions, NEW g \in Handler, Synced("COINBASE", om, g, n),
         NEW m \in Updates("COINBASE", om, n), CoinbaseValidate(g, m),
         NEW r, r = CoinbaseDelta(g, m)
  PROVE  r \in Handler /\ Synced("COINBASE", om, r, n) /\ r.buf = g.buf /\ r.state = g.state
<1>1. /\ m \in Message /\ m.hi \in Nat /\ m.lo \in Nat /\ m.lo = m.hi
      /\ Num(m.hi) = m.hi + 1 /\ g.last \in Nat
  BY UpdateIs DEF Handler
<1>2. m.lo <= g.last /\ g.last <= m.hi
  BY <1>1 DEF CoinbaseValidate
<1>3. PICK seq \in Nat : seq = m.hi + 1 /\ seq = Num(m.hi)
  BY <1>1
<1>4. PICK f : f = [g EXCEPT !.last = seq]
  OBVIOUS
<1>5. /\ f \in Handler /\ f.state = g.state /\ f.buf = g.buf /\ (f.ready <=> g.ready)
      /\ (f.refused <=> g.refused) /\ f.last = seq /\ f.book = g.book /\ f.bookSeq = g.bookSeq
  BY <1>4 DEF Handler
<1>6. r = delta_handler(f, m, seq)
  BY <1>3, <1>4 DEF CoinbaseDelta
<1>7. /\ r \in Handler /\ r.state = f.state /\ r.buf = f.buf /\ r.last = f.last
      /\ (r.ready <=> f.ready) /\ (r.refused <=> f.refused)
      /\ Takes(f, seq) => r.book = Hide(Patch(f.book, m), m.out) /\ r.bookSeq = seq
  <2>1. Handled(f, m, seq, r)
    BY <1>1, <1>5, <1>6, DeltaHandled
  <2> QED
    BY <2>1 DEF Handled
<1>8. Emitted("COINBASE", g, m, seq, r)
  BY <1>5, <1>7 DEF Emitted, Takes
<1>9. ~SummedBy("COINBASE", om) /\ seq >= g.last /\ g.last <= m.hi + 1
  BY <1>1, <1>2, <1>3 DEF SummedBy
<1>10. Synced("COINBASE", om, r, n)
  BY <1>2, <1>3, <1>8, <1>9, EmittedSynced
<1> QED
  BY <1>5, <1>7, <1>10

LEMMA OkxApplied ==
  ASSUME NEW om, NEW n \in Versions, NEW g \in Handler, Synced("OKX", om, g, n),
         NEW m \in Updates("OKX", om, n), OkxAccepts(g, m),
         NEW r, r = OkxDelta(g, m)
  PROVE  r \in Handler /\ Synced("OKX", om, r, n) /\ r.buf = g.buf /\ r.state = g.state
<1>1. /\ m \in Message /\ m.hi \in Nat /\ m.lo \in Nat /\ m.lo = m.hi /\ m.lacks = om
      /\ Num(m.hi) = m.hi + 1 /\ Num(m.lo - 1) = m.lo
      /\ g.last \in Nat /\ g.local \in [Levels -> Int]
  BY UpdateIs DEF Handler
<1>2. PICK seq \in Nat : seq = m.hi + 1 /\ seq = Num(m.hi)
  BY <1>1
<1>3. seq >= g.last /\ (NumberedBy("OKX", om) => m.lo <= g.last /\ g.last <= m.hi + 1)
  BY <1>1, <1>2 DEF OkxAccepts, OkxValidate, NumberedBy
<1>4. PICK local : local = Patch(g.local, m)
  OBVIOUS
<1>5. /\ local \in [Levels -> Int]
      /\ SummedBy("OKX", om) => TopOf(local, ChecksumDepth) = TopOf(Content(m.hi), ChecksumDepth)
  BY <1>1, <1>4, PatchType DEF OkxAccepts, OkxChecksum, SummedBy
<1>6. PICK f : f = [g EXCEPT !.last = seq, !.local = local]
  OBVIOUS
<1>7. /\ f \in Handler /\ f.state = g.state /\ f.buf = g.buf /\ (f.ready <=> g.ready)
      /\ (f.refused <=> g.refused) /\ f.last = seq /\ f.book = g.book /\ f.bookSeq = g.bookSeq
      /\ f.local = local
  BY <1>5, <1>6 DEF Handler
<1>8. r = delta_handler(f, m, seq)
  BY <1>2, <1>4, <1>6 DEF OkxDelta
<1>9. /\ r \in Handler /\ r.state = f.state /\ r.buf = f.buf /\ r.last = f.last /\ r.local = f.local
      /\ (r.ready <=> f.ready) /\ (r.refused <=> f.refused)
      /\ Takes(f, seq) => r.book = Hide(Patch(f.book, m), m.out) /\ r.bookSeq = seq
  <2>1. Handled(f, m, seq, r)
    BY <1>1, <1>7, <1>8, DeltaHandled
  <2> QED
    BY <2>1 DEF Handled
<1>10. Emitted("OKX", g, m, seq, r)
  BY <1>4, <1>7, <1>9 DEF Emitted, Takes
<1>11. Synced("OKX", om, r, n)
  <2>1. SummedBy("OKX", om) => TopOf(r.local, ChecksumDepth) = TopOf(Content(m.hi), ChecksumDepth)
    BY <1>5, <1>7, <1>9
  <2> QED
    BY <1>2, <1>3, <1>10, <2>1, EmittedSynced
<1> QED
  BY <1>7, <1>9, <1>11

\* What process_delta of Kraken does with an update whose checksum agrees.
LEMMA KrakenEmitted ==
  ASSUME NEW om, NEW n \in Versions, NEW g \in Handler,
         NEW m \in Updates("KRAKEN", om, n), KrakenChecksum(KrakenPatch(g.local, m), m),
         NEW seq \in Nat, NEW r, r = KrakenDelta(g, m, seq)
  PROVE  /\ r \in Handler /\ r.buf = g.buf /\ r.state = g.state
         /\ Emitted("KRAKEN", g, m, seq, r) /\ r.local = KrakenPatch(g.local, m)
<1>1. m \in Message /\ m.hi \in Nat /\ g.local \in [Levels -> Int]
  BY UpdateIs DEF Handler
<1>2. PICK local : local = KrakenPatch(g.local, m)
  OBVIOUS
<1>3. /\ local \in [Levels -> Int]
      /\ \A l \in Levels : local[l] # None => local[l] = Patch(g.local, m)[l]
  BY <1>1, <1>2, PatchType DEF KrakenPatch, Truncated, None
<1>4. PICK f : f = [g EXCEPT !.local = local]
  OBVIOUS
<1>5. /\ f \in Handler /\ f.state = g.state /\ f.buf = g.buf /\ (f.ready <=> g.ready)
      /\ (f.refused <=> g.refused) /\ f.book = g.book /\ f.bookSeq = g.bookSeq /\ f.local = local
  BY <1>3, <1>4 DEF Handler
<1>6. PICK e : e = delta_handler(f, m, seq)
  OBVIOUS
<1>7. /\ e \in Handler /\ e.state = f.state /\ e.buf = f.buf /\ e.local = f.local
      /\ (e.ready <=> f.ready) /\ (e.refused <=> f.refused)
      /\ Takes(f, seq) => e.book = Hide(Patch(f.book, m), m.out) /\ e.bookSeq = seq
  <2>1. Handled(f, m, seq, e)
    BY <1>1, <1>5, <1>6, DeltaHandled
  <2> QED
    BY <2>1 DEF Handled
<1>8. r = [e EXCEPT !.last = seq]
  BY <1>2, <1>4, <1>6 DEF KrakenDelta
<1>9. /\ r \in Handler /\ r.last = seq /\ r.book = e.book /\ r.bookSeq = e.bookSeq
      /\ (r.ready <=> e.ready) /\ (r.refused <=> e.refused)
      /\ r.buf = e.buf /\ r.state = e.state /\ r.local = e.local
  BY <1>7, <1>8 DEF Handler
<1>10. Emitted("KRAKEN", g, m, seq, r)
  BY <1>3, <1>5, <1>7, <1>9 DEF Emitted, Takes
<1> QED
  BY <1>2, <1>5, <1>7, <1>9, <1>10

LEMMA KrakenApplied ==
  ASSUME NEW om, NEW n \in Versions, NEW g \in Handler, Synced("KRAKEN", om, g, n),
         NEW m \in Updates("KRAKEN", om, n), KrakenChecksum(KrakenPatch(g.local, m), m),
         NEW r, r = KrakenDelta(g, m, g.last + 1)
  PROVE  r \in Handler /\ Synced("KRAKEN", om, r, n) /\ r.buf = g.buf /\ r.state = g.state
<1>1. g.last \in Nat
  BY DEF Handler
<1>2. PICK seq \in Nat : seq = g.last + 1
  BY <1>1
<1>3. /\ r \in Handler /\ r.buf = g.buf /\ r.state = g.state
      /\ Emitted("KRAKEN", g, m, seq, r) /\ r.local = KrakenPatch(g.local, m)
  BY <1>2, KrakenEmitted
<1>4. m.lacks = om /\ ~NumberedBy("KRAKEN", om) /\ seq >= g.last
  BY <1>1, <1>2, UpdateIs DEF NumberedBy
<1>5. SummedBy("KRAKEN", om) => TopOf(r.local, ChecksumDepth) = TopOf(Content(m.hi), ChecksumDepth)
  BY <1>3, <1>4 DEF KrakenChecksum, SummedBy
<1>6. Synced("KRAKEN", om, r, n)
  BY <1>3, <1>4, <1>5, EmittedSynced
<1> QED
  BY <1>3, <1>6

-----------------------------------------------------------------------------
(* The replay of the buffer leaves a synchronised handler synchronised *)

Results(k, om, n) == {r \in [ok : BOOLEAN, h : Handler] : Synced(k, om, r.h, n) /\ r.h.buf = << >>}

\* The state the replay starts from.
LEMMA ReplayBase ==
  ASSUME NEW k, NEW om, NEW n, NEW g \in Handler, Synced(k, om, g, n)
  PROVE  [ok |-> TRUE, h |-> [g EXCEPT !.buf = << >>]] \in Results(k, om, n)
<1>1. PICK f : f = [g EXCEPT !.buf = << >>]
  OBVIOUS
<1>2. << >> \in Seq(Message)
  OBVIOUS
<1>3. /\ f \in Handler /\ f.buf = << >> /\ (f.ready <=> g.ready) /\ (f.refused <=> g.refused)
      /\ f.bookSeq = g.bookSeq /\ f.last = g.last /\ f.book = g.book /\ f.local = g.local
  BY <1>1, <1>2 DEF Handler
<1>4. Synced(k, om, f, n)
  BY <1>3 DEF Synced
<1> QED
  BY <1>1, <1>3, <1>4 DEF Results

BinanceStep(r, m) ==
  CASE ~r.ok \/ Num(m.hi) <= r.h.last -> r
    [] r.ok /\ ~(Num(m.hi) <= r.h.last) /\ BinanceValidate(r.h, m)
         -> [r EXCEPT !.h = BinanceApplyDelta(r.h, m)]
    [] OTHER -> [r EXCEPT !.ok = FALSE]

KrakenStep(r, m) ==
  CASE ~r.ok \/ FALSE -> r
    [] r.ok /\ ~FALSE /\ KrakenChecksum(KrakenPatch(r.h.local, m), m)
         -> [r EXCEPT !.h = KrakenDelta(r.h, m, r.h.last + 1)]
    [] OTHER -> [r EXCEPT !.ok = FALSE]

OkxStep(r, m) ==
  CASE ~r.ok \/ Num(m.hi) <= r.h.last -> r
    [] r.ok /\ ~(Num(m.hi) <= r.h.last) /\ OkxAccepts(r.h, m)
         -> [r EXCEPT !.h = OkxDelta(r.h, m)]
    [] OTHER -> [r EXCEPT !.ok = FALSE]

CoinbaseStep(r, m) ==
  CASE ~r.ok \/ Num(m.hi) <= r.h.last -> r
    [] r.ok /\ ~(Num(m.hi) <= r.h.last) /\ CoinbaseValidate(r.h, m)
         -> [r EXCEPT !.h = CoinbaseDelta(r.h, m)]
    [] OTHER -> [r EXCEPT !.ok = FALSE]

StepOf(k, r, m) ==
  CASE k = "BINANCE" -> BinanceStep(r, m) [] k = "KRAKEN" -> KrakenStep(r, m)
    [] k = "OKX" -> OkxStep(r, m) [] k = "COINBASE" -> CoinbaseStep(r, m)

BookVenues == {"BINANCE", "KRAKEN", "OKX", "COINBASE"}

\* One message of the replay: skipped, applied or refused.
LEMMA ReplayedOne ==
  ASSUME NEW k, NEW om, NEW n, NEW r \in Results(k, om, n), NEW g, NEW s,
         \/ s = r
         \/ s = [r EXCEPT !.ok = FALSE]
         \/ /\ s = [r EXCEPT !.h = g]
            /\ g \in Handler /\ Synced(k, om, g, n) /\ g.buf = r.h.buf
  PROVE  s \in Results(k, om, n)
BY DEF Results

LEMMA StepStays ==
  ASSUME NEW k \in BookVenues, NEW om, NEW n \in Versions,
         NEW r \in Results(k, om, n), NEW m \in Updates(k, om, n)
  PROVE  StepOf(k, r, m) \in Results(k, om, n)
<1>1. r.h \in Handler /\ Synced(k, om, r.h, n)
  BY DEF Results
<1>2. CASE k = "BINANCE"
  <2>1. PICK a : a = BinanceApplyDelta(r.h, m)
    OBVIOUS
  <2>2. BinanceValidate(r.h, m) => a \in Handler /\ Synced(k, om, a, n) /\ a.buf = r.h.buf
    BY <1>1, <1>2, <2>1, BinanceApplied
  <2>3. PICK s : s = BinanceStep(r, m)
    OBVIOUS
  <2>4. s = r \/ s = [r EXCEPT !.ok = FALSE] \/ (BinanceValidate(r.h, m) /\ s = [r EXCEPT !.h = a])
    BY <2>1, <2>3 DEF BinanceStep
  <2> QED
    BY <1>2, <2>2, <2>3, <2>4, ReplayedOne DEF StepOf
<1>3. CASE k = "KRAKEN"
  <2>1. PICK a : a = KrakenDelta(r.h, m, r.h.last + 1)
    OBVIOUS
  <2>2. KrakenChecksum(KrakenPatch(r.h.local, m), m) =>
          a \in Handler /\ Synced(k, om, a, n) /\ a.buf = r.h.buf
    BY <1>1, <1>3, <2>1, KrakenApplied
  <2>3. PICK s : s = KrakenStep(r, m)
    OBVIOUS
  <2>4. \/ s = r \/ s = [r EXCEPT !.ok = FALSE]
        \/ KrakenChecksum(KrakenPatch(r.h.local, m), m) /\ s = [r EXCEPT !.h = a]
    BY <2>1, <2>3 DEF KrakenStep
  <2> QED
    BY <1>3, <2>2, <2>3, <2>4, ReplayedOne DEF StepOf
<1>4. CASE k = "OKX"
  <2>1. PICK a : a = OkxDelta(r.h, m)
    OBVIOUS
  <2>2. OkxAccepts(r.h, m) => a \in Handler /\ Synced(k, om, a, n) /\ a.buf = r.h.buf
    BY <1>1, <1>4, <2>1, OkxApplied
  <2>3. PICK s : s = OkxStep(r, m)
    OBVIOUS
  <2>4. s = r \/ s = [r EXCEPT !.ok = FALSE] \/ (OkxAccepts(r.h, m) /\ s = [r EXCEPT !.h = a])
    BY <2>1, <2>3 DEF OkxStep
  <2> QED
    BY <1>4, <2>2, <2>3, <2>4, ReplayedOne DEF StepOf
<1>5. CASE k = "COINBASE"
  <2>1. PICK a : a = CoinbaseDelta(r.h, m)
    OBVIOUS
  <2>2. CoinbaseValidate(r.h, m) => a \in Handler /\ Synced(k, om, a, n) /\ a.buf = r.h.buf
    BY <1>1, <1>5, <2>1, CoinbaseApplied
  <2>3. PICK s : s = CoinbaseStep(r, m)
    OBVIOUS
  <2>4. s = r \/ s = [r EXCEPT !.ok = FALSE] \/ (CoinbaseValidate(r.h, m) /\ s = [r EXCEPT !.h = a])
    BY <2>1, <2>3 DEF CoinbaseStep
  <2> QED
    BY <1>5, <2>2, <2>3, <2>4, ReplayedOne DEF StepOf
<1> QED
  BY <1>2, <1>3, <1>4, <1>5 DEF BookVenues

\* f is the replay of the buffer of g, message by message.
IsReplay(f, k, g) ==
  f = [i \in 0..Len(g.buf) |-> IF i = 0 THEN [ok |-> TRUE, h |-> [g EXCEPT !.buf = << >>]]
                               ELSE StepOf(k, f[i - 1], g.buf[i])]

LEMMA ReplayRuns ==
  ASSUME NEW k \in BookVenues, NEW om, NEW n \in Versions, NEW g \in Handler, Synced(k, om, g, n),
         \A i \in 1..Len(g.buf) : g.buf[i] \in Updates(k, om, n)
  PROVE  /\ \E f : IsReplay(f, k, g)
         /\ \A f : IsReplay(f, k, g) => f[Len(g.buf)] \in Results(k, om, n)
<1> DEFINE base == [ok |-> TRUE, h |-> [g EXCEPT !.buf = << >>]]
           D == Results(k, om, n)
           N == Len(g.buf)
           next == [x \in D \X (1..N) |-> StepOf(k, x[1], g.buf[x[2]])]
<1>1. base \in D
  BY ReplayBase
<1>2. \A r \in D, m \in Updates(k, om, n) : StepOf(k, r, m) \in D
  BY StepStays
<1>3. N \in Nat
  BY DEF Handler
<1> HIDE DEF base, D
<1>4. next \in [D \X (1..N) -> D]
  <2>1. \A x \in D \X (1..N) : StepOf(k, x[1], g.buf[x[2]]) \in D
    BY <1>2
  <2> QED
    BY <2>1
<1>5. \E f : f = [i \in 0..N |-> IF i = 0 THEN base ELSE StepOf(k, f[i - 1], g.buf[i])]
  <2>1. PICK f : IsRun(f, N, base, next) /\ \A i \in 0..N : f[i] \in D
    <3> HIDE DEF next
    <3> QED
      BY <1>1, <1>3, <1>4, RunStays
  <2>2. ASSUME NEW i \in 0..N
        PROVE  (IF i = 0 THEN base ELSE next[<<f[i - 1], i>>])
                 = (IF i = 0 THEN base ELSE StepOf(k, f[i - 1], g.buf[i]))
    <3>1. CASE i # 0
      <4>1. i \in 1..N /\ f[i - 1] \in D
        BY <1>3, <2>1, <3>1
      <4> QED
        BY <3>1, <4>1
    <3> QED
      BY <3>1
  <2> HIDE DEF next
  <2> QED
    BY <2>1, <2>2 DEF IsRun
<1>6. ASSUME NEW f, f = [i \in 0..N |-> IF i = 0 THEN base ELSE StepOf(k, f[i - 1], g.buf[i])]
      PROVE  f[N] \in D
  <2>1. f[0] \in D
    BY <1>1, <1>3, <1>6
  <2>2. \A i \in 1..N : f[i - 1] \in D => f[i] \in D
    BY <1>2, <1>3, <1>6
  <2> QED
    BY <1>3, <2>1, <2>2, RunEnds
<1> QED
  BY <1>5, <1>6 DEF IsReplay, base, D

LEMMA BinanceReplayed ==
  ASSUME NEW om, NEW n \in Versions, NEW g \in Handler, Synced("BINANCE", om, g, n),
         \A i \in 1..Len(g.buf) : g.buf[i] \in Updates("BINANCE", om, n)
  PROVE  BinanceApplyBuffered(g) \in Results("BINANCE", om, n)
<1>0. "BINANCE" \in BookVenues
  BY DEF BookVenues
<1>1. PICK f : f = [i \in 0..Len(g.buf) |->
                      IF i = 0 THEN [ok |-> TRUE, h |-> [g EXCEPT !.buf = << >>]]
                      ELSE BinanceStep(f[i - 1], g.buf[i])]
  <2>1. PICK f : IsReplay(f, "BINANCE", g)
    BY <1>0, ReplayRuns
  <2> QED
    BY <2>1 DEF IsReplay, StepOf
<1>2. PICK e : /\ e = [i \in 0..Len(g.buf) |->
                         IF i = 0 THEN [ok |-> TRUE, h |-> [g EXCEPT !.buf = << >>]]
                         ELSE BinanceStep(e[i - 1], g.buf[i])]
               /\ BinanceApplyBuffered(g) = e[Len(g.buf)]
  BY <1>1 DEF BinanceApplyBuffered, Replay, BinanceStep
<1>3. IsReplay(e, "BINANCE", g)
  BY <1>2 DEF IsReplay, StepOf
<1>4. e[Len(g.buf)] \in Results("BINANCE", om, n)
  BY <1>0, <1>3, ReplayRuns
<1> QED
  BY <1>2, <1>4

LEMMA KrakenReplayed ==
  ASSUME NEW om, NEW n \in Versions, NEW g \in Handler, Synced("KRAKEN", om, g, n),
         \A i \in 1..Len(g.buf) : g.buf[i] \in Updates("KRAKEN", om, n)
  PROVE  KrakenApplyBuffered(g) \in Results("KRAKEN", om, n)
<1>0. "KRAKEN" \in BookVenues
  BY DEF BookVenues
<1>1. PICK f : f = [i \in 0..Len(g.buf) |->
                      IF i = 0 THEN [ok |-> TRUE, h |-> [g EXCEPT !.buf = << >>]]
                      ELSE KrakenStep(f[i - 1], g.buf[i])]
  <2>1. PICK f : IsReplay(f, "KRAKEN", g)
    BY <1>0, ReplayRuns
  <2> QED
    BY <2>1 DEF IsReplay, StepOf
<1>2. PICK e : /\ e = [i \in 0..Len(g.buf) |->
                         IF i = 0 THEN [ok |-> TRUE, h |-> [g EXCEPT !.buf = << >>]]
                         ELSE KrakenStep(e[i - 1], g.buf[i])]
               /\ KrakenApplyBuffered(g) = e[Len(g.buf)]
  BY <1>1 DEF KrakenApplyBuffered, Replay, KrakenStep
<1>3. IsReplay(e, "KRAKEN", g)
  BY <1>2 DEF IsReplay, StepOf
<1>4. e[Len(g.buf)] \in Results("KRAKEN", om, n)
  BY <1>0, <1>3, ReplayRuns
<1> QED
  BY <1>2, <1>4

LEMMA OkxReplayed ==
  ASSUME NEW om, NEW n \in Versions, NEW g \in Handler, Synced("OKX", om, g, n),
         \A i \in 1..Len(g.buf) : g.buf[i] \in Updates("OKX", om, n)
  PROVE  OkxApplyBuffered(g) \in Results("OKX", om, n)
<1>0. "OKX" \in BookVenues
  BY DEF BookVenues
<1>1. PICK f : f = [i \in 0..Len(g.buf) |->
                      IF i = 0 THEN [ok |-> TRUE, h |-> [g EXCEPT !.buf = << >>]]
                      ELSE OkxStep(f[i - 1], g.buf[i])]
  <2>1. PICK f : IsReplay(f, "OKX", g)
    BY <1>0, ReplayRuns
  <2> QED
    BY <2>1 DEF IsReplay, StepOf
<1>2. PICK e : /\ e = [i \in 0..Len(g.buf) |->
                         IF i = 0 THEN [ok |-> TRUE, h |-> [g EXCEPT !.buf = << >>]]
                         ELSE OkxStep(e[i - 1], g.buf[i])]
               /\ OkxApplyBuffered(g) = e[Len(g.buf)]
  BY <1>1 DEF OkxApplyBuffered, Replay, OkxStep
<1>3. IsReplay(e, "OKX", g)
  BY <1>2 DEF IsReplay, StepOf
<1>4. e[Len(g.buf)] \in Results("OKX", om, n)
  BY <1>0, <1>3, ReplayRuns
<1> QED
  BY <1>2, <1>4

LEMMA CoinbaseReplayed ==
  ASSUME NEW om, NEW n \in Versions, NEW g \in Handler, Synced("COINBASE", om, g, n),
         \A i \in 1..Len(g.buf) : g.buf[i] \in Updates("COINBASE", om, n)
  PROVE  CoinbaseApplyBuffered(g) \in Results("COINBASE", om, n)
<1>0. "COINBASE" \in BookVenues
  BY DEF BookVenues
<1>1. PICK f : f = [i \in 0..Len(g.buf) |->
                      IF i = 0 THEN [ok |-> TRUE, h |-> [g EXCEPT !.buf = << >>]]
                      ELSE CoinbaseStep(f[i - 1], g.buf[i])]
  <2>1. PICK f : IsReplay(f, "COINBASE", g)
    BY <1>0, ReplayRuns
  <2> QED
    BY <2>1 DEF IsReplay, StepOf
<1>2. PICK e : /\ e = [i \in 0..Len(g.buf) |->
                         IF i = 0 THEN [ok |-> TRUE, h |-> [g EXCEPT !.buf = << >>]]
                         ELSE CoinbaseStep(e[i - 1], g.buf[i])]
               /\ CoinbaseApplyBuffered(g) = e[Len(g.buf)]
  BY <1>1 DEF CoinbaseApplyBuffered, Replay, CoinbaseStep
<1>3. IsReplay(e, "COINBASE", g)
  BY <1>2 DEF IsReplay, StepOf
<1>4. e[Len(g.buf)] \in Results("COINBASE", om, n)
  BY <1>0, <1>3, ReplayRuns
<1> QED
  BY <1>2, <1>4

-----------------------------------------------------------------------------
(* Ways a handler stays consistent *)

\* What it is about is unchanged, and it does not start to stream.
LEMMA FieldsKept ==
  ASSUME NEW k, NEW om, NEW n, NEW g, Consistent(k, om, g, n), NEW r \in Handler,
         r.ready <=> g.ready, r.refused <=> g.refused, r.last = g.last, r.local = g.local,
         r.book = g.book, r.bookSeq = g.bookSeq,
         r.state = "STREAMING" => g.state = "STREAMING",
         \A i \in 1..Len(r.buf) : r.buf[i] \in Updates(k, om, n)
  PROVE  Consistent(k, om, r, n)
<1>1. Synced(k, om, g, n) => Synced(k, om, r, n)
  BY DEF Synced
<1>2. g \in Handler => (r.ready /\ ~r.refused <=> g.ready /\ ~g.refused)
  OBVIOUS
<1> QED
  BY <1>1, <1>2 DEF Consistent

\* It is synchronised.
LEMMA SyncedConsistent ==
  ASSUME NEW k, NEW om, NEW n \in Versions, NEW r \in Handler, Synced(k, om, r, n),
         \A i \in 1..Len(r.buf) : r.buf[i] \in Updates(k, om, n)
  PROVE  Consistent(k, om, r, n)
<1>1. ASSUME r.ready, ~r.refused, NumberedBy(k, om) PROVE \E v \in 0..n : Agrees(r.book, v)
  <2>1. r.last \in 1..(n + 1) /\ Agrees(r.book, r.last - 1)
    BY <1>1 DEF Synced
  <2>2. r.last - 1 \in 0..n
    BY <2>1 DEF Versions
  <2> QED
    BY <2>1, <2>2
<1> QED
  BY <1>1 DEF Consistent

\* The exchange goes on.
LEMMA ConsistentLater ==
  ASSUME NEW k, NEW om, NEW n \in Nat, NEW g, Consistent(k, om, g, n)
  PROVE  Consistent(k, om, g, n + 1)
<1>1. 0..n \subseteq 0..(n + 1) /\ 1..n \subseteq 1..(n + 1) /\ 1..(n + 1) \subseteq 1..(n + 1 + 1)
  OBVIOUS
<1>2. Synced(k, om, g, n) => Synced(k, om, g, n + 1)
  BY <1>1 DEF Synced, TopReal
<1>3. Updates(k, om, n) \subseteq Updates(k, om, n + 1)
  BY <1>1 DEF Updates
<1> QED
  BY <1>1, <1>2, <1>3 DEF Consistent

LEMMA Buffered ==
  ASSUME NEW k, NEW om, NEW n, NEW g, Consistent(k, om, g, n), NEW m \in Updates(k, om, n)
  PROVE  Consistent(k, om, [g EXCEPT !.buf = Append(@, m)], n)
<1>1. PICK b : b = Append(g.buf, m)
  OBVIOUS
<1>2. g \in Handler /\ g.buf \in Seq(Message) /\ m \in Message
  BY DEF Consistent, Handler, Updates
<1>3. b \in Seq(Message) /\ \A i \in 1..Len(b) : b[i] = m \/ (i \in 1..Len(g.buf) /\ b[i] = g.buf[i])
  BY <1>1, <1>2
<1>4. \A i \in 1..Len(b) : b[i] \in Updates(k, om, n)
  BY <1>3 DEF Consistent
<1>5. PICK r : r = [g EXCEPT !.buf = b]
  OBVIOUS
<1>6. /\ r \in Handler /\ (r.ready <=> g.ready) /\ (r.refused <=> g.refused)
      /\ r.last = g.last /\ r.local = g.local /\ r.book = g.book
      /\ r.bookSeq = g.bookSeq /\ r.state = g.state /\ r.buf = b
  BY <1>2, <1>3, <1>5 DEF Handler
<1>7. Consistent(k, om, r, n)
  BY <1>4, <1>6, FieldsKept
<1> QED
  BY <1>1, <1>5, <1>7

\* trigger_resnapshot of Binance, OKX and Coinbase
Resnapshot(g) == [g EXCEPT !.buf = << >>, !.state = "BUFFERING", !.reconn = TRUE]

LEMMA Resnapshots ==
  \A g : /\ BinanceResnapshot(g) = Resnapshot(g)
         /\ OkxResnapshot(g) = Resnapshot(g)
         /\ CoinbaseResnapshot(g) = Resnapshot(g)
BY DEF BinanceResnapshot, OkxResnapshot, CoinbaseResnapshot, Resnapshot

LEMMA ResnapshotKeeps ==
  ASSUME NEW k, NEW om, NEW n, NEW g, Consistent(k, om, g, n)
  PROVE  Consistent(k, om, Resnapshot(g), n)
<1>1. PICK r : r = Resnapshot(g)
  OBVIOUS
<1>2. g \in Handler /\ << >> \in Seq(Message)
  BY DEF Consistent
<1>3. /\ r \in Handler /\ (r.ready <=> g.ready) /\ (r.refused <=> g.refused)
      /\ r.last = g.last /\ r.local = g.local /\ r.book = g.book
      /\ r.bookSeq = g.bookSeq /\ r.state = "BUFFERING" /\ r.buf = << >>
  BY <1>1, <1>2 DEF Handler, Resnapshot
<1>4. Consistent(k, om, r, n)
  BY <1>3, FieldsKept
<1> QED
  BY <1>1, <1>4

\* Kraken's also empties the local book.
LEMMA KrakenResnapshotKeeps ==
  ASSUME NEW om, NEW n, NEW g, Consistent("KRAKEN", om, g, n)
  PROVE  Consistent("KRAKEN", om, KrakenResnapshot(g), n)
<1>1. PICK r : r = KrakenResnapshot(g)
  OBVIOUS
<1>2. g \in Handler /\ << >> \in Seq(Message) /\ NoBook \in [Levels -> Int] /\ ~NumberedBy("KRAKEN", om)
  BY DEF Consistent, NoBook, None, NumberedBy
<1>3. r \in Handler /\ r.state = "BUFFERING" /\ r.buf = << >>
  BY <1>1, <1>2 DEF Handler, KrakenResnapshot
<1>4. Consistent("KRAKEN", om, r, n)
  BY <1>2, <1>3 DEF Consistent
<1> QED
  BY <1>1, <1>4

\* What follows a snapshot and the replay: the handler streams, or starts over.
LEMMA SnapshotEnds ==
  ASSUME NEW k, NEW om, NEW n \in Versions, NEW r \in Results(k, om, n)
  PROVE  /\ Consistent(k, om, r.h, n)
         /\ Consistent(k, om, [r.h EXCEPT !.state = "STREAMING"], n)
<1>1. r.h \in Handler /\ Synced(k, om, r.h, n) /\ r.h.buf = << >>
  BY DEF Results
<1>2. PICK s : s = [r.h EXCEPT !.state = "STREAMING"]
  OBVIOUS
<1>3. /\ s \in Handler /\ (s.ready <=> r.h.ready) /\ (s.refused <=> r.h.refused)
      /\ s.last = r.h.last /\ s.local = r.h.local
      /\ s.book = r.h.book /\ s.bookSeq = r.h.bookSeq /\ s.buf = r.h.buf
  BY <1>1, <1>2 DEF Handler
<1>4. Synced(k, om, s, n)
  BY <1>1, <1>3 DEF Synced
<1>5. \A i : i \in 1..Len(<< >>) => FALSE
  OBVIOUS
<1>6. \A i \in 1..Len(r.h.buf) : r.h.buf[i] \in Updates(k, om, n)
  BY <1>1, <1>5
<1>7. \A i \in 1..Len(s.buf) : s.buf[i] \in Updates(k, om, n)
  BY <1>3, <1>6
<1>8. Consistent(k, om, r.h, n)
  BY <1>1, <1>6, SyncedConsistent
<1>9. Consistent(k, om, s, n)
  BY <1>3, <1>4, <1>7, SyncedConsistent
<1> QED
  BY <1>2, <1>8, <1>9

-----------------------------------------------------------------------------
(* What each venue's handler does with a message keeps it consistent *)

\* snapshot_handler, and the number of the snapshot: the state its replay starts
\* from.
LEMMA SnapshotTaken ==
  ASSUME NEW k, NEW om, NEW n \in Versions, NEW g, Consistent(k, om, g, n),
         NEW m \in Snapshots(n), NEW seq \in Nat, k # "KRAKEN" => seq = m.hi + 1,
         NEW c, c = Content(m.hi) \/ (k = "KRAKEN" /\ c = Truncated(Content(m.hi))),
         NEW s, IF k \in {"KRAKEN", "OKX"}
                THEN s = snapshot_handler([g EXCEPT !.local = c, !.last = seq], c, seq, m)
                ELSE s = [snapshot_handler(g, c, seq, m) EXCEPT !.last = seq]
  PROVE  /\ s \in Handler /\ Synced(k, om, s, n)
         /\ \A i \in 1..Len(s.buf) : s.buf[i] \in Updates(k, om, n)
<1>1. g \in Handler /\ \A i \in 1..Len(g.buf) : g.buf[i] \in Updates(k, om, n)
  BY DEF Consistent
<1>2. m.hi \in 0..n /\ m.hi \in Nat /\ n \in Nat
  BY DEF Snapshots, Versions
<1>3. PICK b : b = Hide(c, m.out)
  OBVIOUS
<1>4. c \in [Levels -> Int] /\ b \in [Levels -> Int] /\ \A l \in Levels : b[l] \in {c[l], Hidden}
  <2>1. c \in [Levels -> Int]
    BY <1>2, ContentType, TruncatedType
  <2> QED
    BY <1>3, <2>1, HideType DEF Hide
<1>5. /\ s \in Handler /\ s.buf = g.buf
      /\ s.ready /\ ~s.refused => s.book = b /\ s.bookSeq = seq /\ s.last = seq
      /\ k \in {"KRAKEN", "OKX"} => s.local = c
  <2>1. CASE k \notin {"KRAKEN", "OKX"}
    <3>1. \/ s = [g EXCEPT !.refused = TRUE, !.last = seq]
          \/ s = [g EXCEPT !.book = b, !.bookSeq = seq, !.ready = FALSE, !.refused = TRUE, !.last = seq]
          \/ s = [g EXCEPT !.book = b, !.bookSeq = seq, !.ready = TRUE, !.refused = FALSE, !.last = seq]
      BY <1>3, <2>1 DEF snapshot_handler
    <3>2. CASE s = [g EXCEPT !.refused = TRUE, !.last = seq]
      BY <1>1, <2>1, <3>2 DEF Handler
    <3>3. CASE s = [g EXCEPT !.book = b, !.bookSeq = seq, !.ready = FALSE, !.refused = TRUE, !.last = seq]
      BY <1>1, <1>4, <2>1, <3>3 DEF Handler
    <3>4. CASE s = [g EXCEPT !.book = b, !.bookSeq = seq, !.ready = TRUE, !.refused = FALSE, !.last = seq]
      BY <1>1, <1>4, <2>1, <3>4 DEF Handler
    <3> QED
      BY <3>1, <3>2, <3>3, <3>4
  <2>2. CASE k \in {"KRAKEN", "OKX"}
    <3>1. PICK f : f = [g EXCEPT !.local = c, !.last = seq]
      OBVIOUS
    <3>2. f \in Handler /\ f.buf = g.buf /\ f.local = c /\ f.last = seq
      BY <1>1, <1>4, <3>1 DEF Handler
    <3>3. \/ s = [f EXCEPT !.refused = TRUE]
          \/ s = [f EXCEPT !.book = b, !.bookSeq = seq, !.ready = FALSE, !.refused = TRUE]
          \/ s = [f EXCEPT !.book = b, !.bookSeq = seq, !.ready = TRUE, !.refused = FALSE]
      BY <1>3, <2>2, <3>1 DEF snapshot_handler
    <3>4. CASE s = [f EXCEPT !.refused = TRUE]
      BY <3>2, <3>4 DEF Handler
    <3>5. CASE s = [f EXCEPT !.book = b, !.bookSeq = seq, !.ready = FALSE, !.refused = TRUE]
      BY <1>4, <3>2, <3>5 DEF Handler
    <3>6. CASE s = [f EXCEPT !.book = b, !.bookSeq = seq, !.ready = TRUE, !.refused = FALSE]
      BY <1>4, <3>2, <3>6 DEF Handler
    <3> QED
      BY <3>3, <3>4, <3>5, <3>6
  <2> QED
    BY <2>1, <2>2
<1>6. ASSUME s.ready, ~s.refused, NumberedBy(k, om)
      PROVE  s.last \in 1..(n + 1) /\ Agrees(s.book, s.last - 1)
  <2>1. k # "KRAKEN" /\ c = Content(m.hi)
    BY <1>6 DEF NumberedBy
  <2>2. s.last = m.hi + 1 /\ (m.hi + 1) - 1 = m.hi /\ m.hi + 1 \in 1..(n + 1)
    BY <1>2, <1>5, <1>6, <2>1
  <2> QED
    BY <1>4, <1>5, <1>6, <2>1, <2>2 DEF Agrees
<1>7. ASSUME s.ready, ~s.refused, k \in {"KRAKEN", "OKX"} PROVE Carries(k, s.book, s.local)
  BY <1>4, <1>5, <1>7 DEF Carries
<1>8. ASSUME SummedBy(k, om) PROVE TopReal(s.local, n)
  <2>1. s.local = c
    BY <1>5, <1>8 DEF SummedBy
  <2>2. TopOf(c, ChecksumDepth) = TopOf(Content(m.hi), ChecksumDepth)
    BY <1>2, ContentType, TruncatedTop
  <2> QED
    BY <1>2, <2>1, <2>2 DEF TopReal
<1>9. Synced(k, om, s, n)
  BY <1>5, <1>6, <1>7, <1>8 DEF Synced
<1> QED
  BY <1>1, <1>5, <1>9

LEMMA SnapshotIs ==
  ASSUME NEW n \in Versions, NEW m \in Snapshots(n)
  PROVE  m.hi \in 0..n /\ m.hi \in Nat /\ Num(m.hi) = m.hi + 1 /\ m.type = "snapshot"
BY DEF Snapshots, Versions, Num

LEMMA BinanceSnapshotKeeps ==
  ASSUME NEW om, NEW n \in Versions, NEW g, Consistent("BINANCE", om, g, n), NEW m \in Snapshots(n)
  PROVE  Consistent("BINANCE", om, BinanceSnapshot(g, m), n)
<1>1. PICK seq \in Nat : seq = Num(m.hi) /\ seq = m.hi + 1
  BY SnapshotIs
<1>2. PICK s : s = [snapshot_handler(g, Content(m.hi), seq, m) EXCEPT !.last = seq]
  OBVIOUS
<1>3. /\ s \in Handler /\ Synced("BINANCE", om, s, n)
      /\ \A i \in 1..Len(s.buf) : s.buf[i] \in Updates("BINANCE", om, n)
  BY <1>1, <1>2, SnapshotTaken
<1>4. PICK r : r = BinanceApplyBuffered(s)
  OBVIOUS
<1>5. r \in Results("BINANCE", om, n)
  BY <1>3, <1>4, BinanceReplayed
<1>6. BinanceSnapshot(g, m) = IF r.ok THEN [r.h EXCEPT !.state = "STREAMING"] ELSE Resnapshot(r.h)
  BY <1>1, <1>2, <1>4, Resnapshots DEF BinanceSnapshot
<1> QED
  BY <1>5, <1>6, SnapshotEnds, ResnapshotKeeps

LEMMA BinanceMessageKeeps ==
  ASSUME NEW om, NEW n \in Versions, NEW g, Consistent("BINANCE", om, g, n),
         NEW m \in Updates("BINANCE", om, n)
  PROVE  Consistent("BINANCE", om, BinanceMessage(g, m), n)
<1>1. CASE g.state # "BUFFERING" /\ ~(Num(m.hi) <= g.last) /\ BinanceValidate(g, m)
  <2>1. g \in Handler /\ Synced("BINANCE", om, g, n)
    BY DEF Consistent
  <2>2. PICK r : r = BinanceApplyDelta(g, m)
    OBVIOUS
  <2>3. r \in Handler /\ Synced("BINANCE", om, r, n) /\ r.buf = g.buf
    BY <1>1, <2>1, <2>2, BinanceApplied
  <2>4. \A i \in 1..Len(r.buf) : r.buf[i] \in Updates("BINANCE", om, n)
    BY <2>3 DEF Consistent
  <2>5. Consistent("BINANCE", om, r, n)
    BY <2>3, <2>4, SyncedConsistent
  <2>6. BinanceMessage(g, m) = r
    BY <1>1, <2>2 DEF BinanceMessage
  <2> QED
    BY <2>5, <2>6
<1>2. CASE g.state = "BUFFERING" \/ Num(m.hi) <= g.last \/ ~BinanceValidate(g, m)
  <2>1. \/ BinanceMessage(g, m) = Resnapshot(g)
        \/ BinanceMessage(g, m) = [g EXCEPT !.buf = Append(@, m)]
        \/ BinanceMessage(g, m) = g
    BY <1>2, Resnapshots DEF BinanceMessage
  <2>2. Consistent("BINANCE", om, Resnapshot(g), n)
    BY ResnapshotKeeps
  <2>3. Consistent("BINANCE", om, [g EXCEPT !.buf = Append(@, m)], n)
    BY Buffered
  <2> QED
    BY <2>1, <2>2, <2>3
<1> QED
  BY <1>1, <1>2

LEMMA CoinbaseMessageKeeps ==
  ASSUME NEW om, NEW n \in Versions, NEW g, Consistent("COINBASE", om, g, n),
         NEW m \in Updates("COINBASE", om, n) \cup Snapshots(n)
  PROVE  Consistent("COINBASE", om, CoinbaseMessage(g, m), n)
<1>0. g \in Handler /\ "COINBASE" \in BookVenues
  BY DEF Consistent, BookVenues
<1>1. CASE m \in Snapshots(n)
  <2>1. m.hi \in 0..n /\ m.hi \in Nat /\ Num(m.hi) = m.hi + 1 /\ m.type = "snapshot"
    BY <1>1, SnapshotIs
  <2>2. PICK seq \in Nat : seq = Num(m.hi) /\ seq = m.hi + 1
    BY <2>1
  <2>3. PICK s : s = [snapshot_handler(g, Content(m.hi), seq, m) EXCEPT !.last = seq]
    OBVIOUS
  <2>4. /\ s \in Handler /\ Synced("COINBASE", om, s, n)
        /\ \A i \in 1..Len(s.buf) : s.buf[i] \in Updates("COINBASE", om, n)
    BY <1>1, <2>2, <2>3, SnapshotTaken
  <2>5. PICK r : r = CoinbaseApplyBuffered(s)
    OBVIOUS
  <2>6. r \in Results("COINBASE", om, n)
    BY <2>4, <2>5, CoinbaseReplayed
  <2>7. \/ CoinbaseMessage(g, m) = [r.h EXCEPT !.state = "STREAMING"]
        \/ CoinbaseMessage(g, m) = Resnapshot(r.h)
        \/ CoinbaseMessage(g, m) = Resnapshot(g)
    BY <2>1, <2>2, <2>3, <2>5, Resnapshots DEF CoinbaseMessage, CoinbaseSnapshot
  <2>8. Consistent("COINBASE", om, r.h, n)
        /\ Consistent("COINBASE", om, [r.h EXCEPT !.state = "STREAMING"], n)
    BY <1>0, <2>6, SnapshotEnds
  <2>9. Consistent("COINBASE", om, Resnapshot(r.h), n) /\ Consistent("COINBASE", om, Resnapshot(g), n)
    BY <2>8, ResnapshotKeeps
  <2> QED
    BY <2>7, <2>8, <2>9
<1>2. CASE m \in Updates("COINBASE", om, n) /\ g.state = "STREAMING" /\ CoinbaseValidate(g, m)
  <2>1. Synced("COINBASE", om, g, n)
    BY <1>2 DEF Consistent
  <2>2. PICK r : r = CoinbaseDelta(g, m)
    OBVIOUS
  <2>3. r \in Handler /\ Synced("COINBASE", om, r, n) /\ r.buf = g.buf
    BY <1>0, <1>2, <2>1, <2>2, CoinbaseApplied
  <2>4. \A i \in 1..Len(r.buf) : r.buf[i] \in Updates("COINBASE", om, n)
    BY <2>3 DEF Consistent
  <2>5. Consistent("COINBASE", om, r, n)
    BY <1>0, <2>3, <2>4, SyncedConsistent
  <2>6. CoinbaseMessage(g, m) = r
    BY <1>2, <2>2 DEF CoinbaseMessage, Updates
  <2> QED
    BY <2>5, <2>6
<1>3. CASE m \in Updates("COINBASE", om, n) /\ ~(g.state = "STREAMING" /\ CoinbaseValidate(g, m))
  <2>1. \/ CoinbaseMessage(g, m) = Resnapshot(g)
        \/ CoinbaseMessage(g, m) = [g EXCEPT !.buf = Append(@, m)]
    BY <1>3, Resnapshots DEF CoinbaseMessage, Updates
  <2> QED
    BY <1>3, <2>1, Buffered, ResnapshotKeeps
<1> QED
  BY <1>1, <1>2, <1>3

LEMMA OkxMessageKeeps ==
  ASSUME NEW om, NEW n \in Versions, NEW g, Consistent("OKX", om, g, n),
         NEW m \in Updates("OKX", om, n) \cup Snapshots(n)
  PROVE  Consistent("OKX", om, OkxMessage(g, m), n)
<1>0. g \in Handler /\ "OKX" \in BookVenues
  BY DEF Consistent, BookVenues
<1>1. CASE m \in Snapshots(n)
  <2>1. m.hi \in 0..n /\ m.hi \in Nat /\ Num(m.hi) = m.hi + 1 /\ m.type = "snapshot"
    BY <1>1, SnapshotIs
  <2>2. PICK seq \in Nat : seq = Num(m.hi) /\ seq = m.hi + 1
    BY <2>1
  <2>3. PICK s :
          s = snapshot_handler([g EXCEPT !.local = Content(m.hi), !.last = seq], Content(m.hi), seq, m)
    OBVIOUS
  <2>4. /\ s \in Handler /\ Synced("OKX", om, s, n)
        /\ \A i \in 1..Len(s.buf) : s.buf[i] \in Updates("OKX", om, n)
    BY <1>1, <2>2, <2>3, SnapshotTaken
  <2>5. PICK r : r = OkxApplyBuffered(s)
    OBVIOUS
  <2>6. r \in Results("OKX", om, n)
    BY <2>4, <2>5, OkxReplayed
  <2>7. \/ OkxMessage(g, m) = [r.h EXCEPT !.state = "STREAMING"]
        \/ OkxMessage(g, m) = Resnapshot(r.h)
        \/ OkxMessage(g, m) = Resnapshot(g)
    BY <2>1, <2>2, <2>3, <2>5, Resnapshots DEF OkxMessage, OkxSnapshot
  <2>8. Consistent("OKX", om, r.h, n) /\ Consistent("OKX", om, [r.h EXCEPT !.state = "STREAMING"], n)
    BY <1>0, <2>6, SnapshotEnds
  <2>9. Consistent("OKX", om, Resnapshot(r.h), n) /\ Consistent("OKX", om, Resnapshot(g), n)
    BY <2>8, ResnapshotKeeps
  <2> QED
    BY <2>7, <2>8, <2>9
<1>2. CASE m \in Updates("OKX", om, n) /\ g.state = "STREAMING" /\ OkxAccepts(g, m)
  <2>1. Synced("OKX", om, g, n)
    BY <1>2 DEF Consistent
  <2>2. PICK r : r = OkxDelta(g, m)
    OBVIOUS
  <2>3. r \in Handler /\ Synced("OKX", om, r, n) /\ r.buf = g.buf
    BY <1>0, <1>2, <2>1, <2>2, OkxApplied
  <2>4. \A i \in 1..Len(r.buf) : r.buf[i] \in Updates("OKX", om, n)
    BY <2>3 DEF Consistent
  <2>5. Consistent("OKX", om, r, n)
    BY <1>0, <2>3, <2>4, SyncedConsistent
  <2>6. OkxMessage(g, m) = r
    BY <1>2, <2>2 DEF OkxMessage, Updates
  <2> QED
    BY <2>5, <2>6
<1>3. CASE m \in Updates("OKX", om, n) /\ ~(g.state = "STREAMING" /\ OkxAccepts(g, m))
  <2>1. \/ OkxMessage(g, m) = Resnapshot(g)
        \/ OkxMessage(g, m) = [g EXCEPT !.buf = Append(@, m)]
    BY <1>3, Resnapshots DEF OkxMessage, Updates
  <2> QED
    BY <1>3, <2>1, Buffered, ResnapshotKeeps
<1> QED
  BY <1>1, <1>2, <1>3

\* An update whose checksum agrees, whatever the local book was: a handler that
\* is stopped still takes it.
LEMMA KrakenDeltaKeeps ==
  ASSUME NEW om, NEW n \in Versions, NEW g, Consistent("KRAKEN", om, g, n),
         NEW m \in Updates("KRAKEN", om, n), KrakenChecksum(KrakenPatch(g.local, m), m)
  PROVE  Consistent("KRAKEN", om, KrakenDelta(g, m, g.last + 1), n)
<1>1. g \in Handler /\ ~NumberedBy("KRAKEN", om)
  BY DEF Consistent, NumberedBy
<1>2. PICK seq \in Nat : seq = g.last + 1
  BY <1>1 DEF Handler
<1>3. PICK r : r = KrakenDelta(g, m, g.last + 1)
  OBVIOUS
<1>4. r \in Handler /\ r.buf = g.buf /\ r.state = g.state
  BY <1>1, <1>2, <1>3, KrakenEmitted
<1>5. r.state = "STREAMING" => Synced("KRAKEN", om, r, n)
  <2>1. g.state = "STREAMING" => Synced("KRAKEN", om, g, n)
    BY DEF Consistent
  <2> QED
    BY <1>1, <1>3, <1>4, <2>1, KrakenApplied
<1>6. Consistent("KRAKEN", om, r, n)
  BY <1>1, <1>4, <1>5 DEF Consistent
<1> QED
  BY <1>3, <1>6

LEMMA KrakenMessageKeeps ==
  ASSUME NEW om, NEW n \in Versions, NEW g, Consistent("KRAKEN", om, g, n),
         NEW m \in Updates("KRAKEN", om, n) \cup Snapshots(n)
  PROVE  Consistent("KRAKEN", om, KrakenMessage(g, m), n)
<1>0. g \in Handler /\ "KRAKEN" \in BookVenues
  BY DEF Consistent, BookVenues
<1>1. CASE m \in Snapshots(n)
  <2>1. m.type = "snapshot" /\ 0 \in Nat
    BY <1>1, SnapshotIs
  <2> DEFINE c == Truncated(Content(m.hi))
  <2>2. PICK s : s = snapshot_handler([g EXCEPT !.local = c, !.last = 0], c, 0, m)
    OBVIOUS
  <2>3. /\ s \in Handler /\ Synced("KRAKEN", om, s, n)
        /\ \A i \in 1..Len(s.buf) : s.buf[i] \in Updates("KRAKEN", om, n)
    <3>1. c = Truncated(Content(m.hi))
      OBVIOUS
    <3> HIDE DEF c
    <3> QED
      BY <1>1, <2>1, <2>2, <3>1, SnapshotTaken
  <2>4. PICK r : r = KrakenApplyBuffered(s)
    OBVIOUS
  <2>5. r \in Results("KRAKEN", om, n)
    BY <2>3, <2>4, KrakenReplayed
  <2>6. \/ KrakenMessage(g, m) = [r.h EXCEPT !.state = "STREAMING"]
        \/ KrakenMessage(g, m) = KrakenResnapshot(r.h)
        \/ KrakenMessage(g, m) = KrakenResnapshot(g)
    BY <2>1, <2>2, <2>4 DEF KrakenMessage, KrakenSnapshot
  <2>7. Consistent("KRAKEN", om, r.h, n)
        /\ Consistent("KRAKEN", om, [r.h EXCEPT !.state = "STREAMING"], n)
    BY <1>0, <2>5, SnapshotEnds
  <2>8. /\ Consistent("KRAKEN", om, KrakenResnapshot(r.h), n)
        /\ Consistent("KRAKEN", om, KrakenResnapshot(g), n)
    BY <2>7, KrakenResnapshotKeeps
  <2> QED
    BY <2>6, <2>7, <2>8
<1>2. CASE m \in Updates("KRAKEN", om, n) /\ g.state # "BUFFERING"
             /\ KrakenChecksum(KrakenPatch(g.local, m), m)
  <2>1. KrakenMessage(g, m) = KrakenDelta(g, m, g.last + 1)
    BY <1>2 DEF KrakenMessage, Updates
  <2> QED
    BY <1>2, <2>1, KrakenDeltaKeeps
<1>3. CASE m \in Updates("KRAKEN", om, n) /\ ~(g.state # "BUFFERING"
             /\ KrakenChecksum(KrakenPatch(g.local, m), m))
  <2>1. \/ KrakenMessage(g, m) = KrakenResnapshot(g)
        \/ KrakenMessage(g, m) = [g EXCEPT !.buf = Append(@, m)]
    BY <1>3 DEF KrakenMessage, KrakenDelta, Updates
  <2> QED
    BY <1>3, <2>1, Buffered, KrakenResnapshotKeeps
<1> QED
  BY <1>1, <1>2, <1>3

-----------------------------------------------------------------------------
(* The threads and the sockets *)

Socket == [st : {"free", "connecting", "open"}, sub : BOOLEAN, want : BOOLEAN, due : BOOLEAN, pos : Nat]

\* No socket is ahead of the exchange, and the streams named in the URL have no
\* snapshot to wait for.
SocketsSound ==
  /\ socks \in [1..MaxSockets -> Socket]
  /\ \A s \in 1..MaxSockets :
       /\ socks[s].pos <= ver
       /\ kind \in {"BINANCE", "MARK"} => ~socks[s].due /\ ~socks[s].want

HandlerSound ==
  /\ kind \in Kinds /\ lacks \subseteq {"checksum", "prevSeqId"} /\ ver \in Versions
  /\ SocketsSound
  /\ Consistent(kind, lacks, h, ver)
  /\ pc = "sync" => kind = "BINANCE"

\* A step of a thread or a callback that leaves the books alone: it may end the
\* streaming and drop the buffer.
SameBooks(g, f) ==
  /\ g \in Handler
  /\ g.ready <=> f.ready
  /\ g.refused <=> f.refused
  /\ g.last = f.last /\ g.local = f.local /\ g.book = f.book /\ g.bookSeq = f.bookSeq
  /\ g.state \in {"BUFFERING", "DISCONNECTED", f.state}
  /\ g.buf = f.buf \/ g.buf = << >>

LEMMA ThreadMoves ==
  ASSUME HandlerSound, SameBooks(h', h), UNCHANGED <<kind, lacks, ver>>
  PROVE  Consistent(kind, lacks, h, ver)'
<1>1. PICK g : g = h'
  OBVIOUS
<1>2. Consistent(kind, lacks, h, ver)
  BY DEF HandlerSound
<1>3. \A i \in 1..Len(g.buf) : g.buf[i] \in Updates(kind, lacks, ver)
  BY <1>1, <1>2 DEF Consistent, SameBooks
<1>4. g.state = "STREAMING" => h.state = "STREAMING"
  BY <1>1 DEF SameBooks
<1>5. Consistent(kind, lacks, g, ver)
  BY <1>1, <1>2, <1>3, <1>4, FieldsKept DEF SameBooks
<1> QED
  BY <1>1, <1>5

LEMMA PlainMoves ==
  ASSUME NEW g \in Handler
  PROVE  /\ SameBooks([g EXCEPT !.running = TRUE], g)
         /\ SameBooks([g EXCEPT !.running = FALSE], g)
         /\ SameBooks([g EXCEPT !.reconn = FALSE], g)
         /\ SameBooks([g EXCEPT !.state = "BUFFERING"], g)
         /\ SameBooks([g EXCEPT !.hb = "fresh"], g)
         /\ SameBooks([g EXCEPT !.hb = "stale"], g)
         /\ SameBooks([g EXCEPT !.running = TRUE, !.state = "BUFFERING"], g)
         /\ SameBooks([g EXCEPT !.running = TRUE, !.state = "BUFFERING", !.reconn = FALSE], g)
         /\ SameBooks([g EXCEPT !.running = FALSE, !.state = "DISCONNECTED"], g)
         /\ SameBooks([g EXCEPT !.running = FALSE, !.reconn = FALSE, !.state = "DISCONNECTED"], g)
         /\ SameBooks([g EXCEPT !.state = "BUFFERING", !.buf = << >>], g)
         /\ SameBooks([g EXCEPT !.reconn = FALSE, !.state = "BUFFERING"], g)
         /\ SameBooks([g EXCEPT !.buf = << >>, !.state = "BUFFERING", !.reconn = TRUE], g)
         /\ SameBooks([[g EXCEPT !.buf = << >>, !.state = "BUFFERING", !.reconn = TRUE]
                        EXCEPT !.reconn = FALSE], g)
         /\ \A x \in Nat : SameBooks([g EXCEPT !.mark = x], g)
<1>0. << >> \in Seq(Message)
  OBVIOUS
<1>1. SameBooks([g EXCEPT !.running = TRUE], g)
  BY <1>0 DEF Handler, SameBooks
<1>2. SameBooks([g EXCEPT !.running = FALSE], g)
  BY <1>0 DEF Handler, SameBooks
<1>3. SameBooks([g EXCEPT !.reconn = FALSE], g)
  BY <1>0 DEF Handler, SameBooks
<1>4. SameBooks([g EXCEPT !.state = "BUFFERING"], g)
  BY <1>0 DEF Handler, SameBooks
<1>5. SameBooks([g EXCEPT !.hb = "fresh"], g)
  BY <1>0 DEF Handler, SameBooks
<1>6. SameBooks([g EXCEPT !.hb = "stale"], g)
  BY <1>0 DEF Handler, SameBooks
<1>7. SameBooks([g EXCEPT !.running = TRUE, !.state = "BUFFERING"], g)
  BY <1>0 DEF Handler, SameBooks
<1>8. SameBooks([g EXCEPT !.running = TRUE, !.state = "BUFFERING", !.reconn = FALSE], g)
  BY <1>0 DEF Handler, SameBooks
<1>9. SameBooks([g EXCEPT !.running = FALSE, !.state = "DISCONNECTED"], g)
  BY <1>0 DEF Handler, SameBooks
<1>10. SameBooks([g EXCEPT !.running = FALSE, !.reconn = FALSE, !.state = "DISCONNECTED"], g)
  BY <1>0 DEF Handler, SameBooks
<1>11. SameBooks([g EXCEPT !.state = "BUFFERING", !.buf = << >>], g)
  BY <1>0 DEF Handler, SameBooks
<1>12. SameBooks([g EXCEPT !.reconn = FALSE, !.state = "BUFFERING"], g)
  BY <1>0 DEF Handler, SameBooks
<1>13. SameBooks([g EXCEPT !.buf = << >>, !.state = "BUFFERING", !.reconn = TRUE], g)
  BY <1>0 DEF Handler, SameBooks
<1>14. SameBooks([[g EXCEPT !.buf = << >>, !.state = "BUFFERING", !.reconn = TRUE]
                        EXCEPT !.reconn = FALSE], g)
  BY <1>0 DEF Handler, SameBooks
<1>15. \A x \in Nat : SameBooks([g EXCEPT !.mark = x], g)
  BY <1>0 DEF Handler, SameBooks
<1> QED
  BY <1>1, <1>2, <1>3, <1>4, <1>5, <1>6, <1>7, <1>8, <1>9, <1>10, <1>11, <1>12, <1>13, <1>14, <1>15

\* A step that also forgets what was known of the stream: the start of Kraken and
\* Coinbase, and a new connection of Kraken and OKX.
LEMMA StreamForgotten ==
  ASSUME HandlerSound, NEW g \in Handler, h' = g, UNCHANGED <<kind, lacks, ver>>,
         g.ready <=> h.ready, g.refused <=> h.refused, g.book = h.book, g.state = "BUFFERING",
         g.buf = << >>, kind # "BINANCE"
  PROVE  Consistent(kind, lacks, h, ver)'
<1>1. Consistent(kind, lacks, h, ver)
  BY DEF HandlerSound
<1>2. Consistent(kind, lacks, g, ver)
  BY <1>1 DEF Consistent
<1> QED
  BY <1>2

LEMMA HandlerFacts ==
  ASSUME HandlerSound
  PROVE  /\ h \in Handler /\ << >> \in Seq(Message) /\ NoBook \in [Levels -> Int]
         /\ kind \in {"BINANCE", "KRAKEN", "OKX", "COINBASE", "MARK"}
         /\ ver \in Versions /\ ver \in Nat /\ Consistent(kind, lacks, h, ver)
BY HandlerAssumption DEF HandlerSound, Consistent, NoBook, None, Versions

LEMMA StartKeeps ==
  ASSUME HandlerSound, Start
  PROVE  Consistent(kind, lacks, h, ver)'
<1>1. /\ h \in Handler /\ << >> \in Seq(Message) /\ NoBook \in [Levels -> Int]
      /\ UNCHANGED <<kind, lacks, ver>>
  BY HandlerFacts DEF Start
<1>2. CASE kind \in {"BINANCE", "OKX", "MARK"}
  <2>1. \/ h' = [h EXCEPT !.running = TRUE, !.state = "BUFFERING", !.reconn = FALSE]
        \/ h' = [h EXCEPT !.running = TRUE, !.state = "BUFFERING"]
        \/ h' = [h EXCEPT !.running = TRUE]
    BY <1>2 DEF Start, BinanceStart, OkxStart, FuturesStart
  <2>2. SameBooks(h', h)
    BY <1>1, <2>1, PlainMoves
  <2> QED
    BY <1>1, <2>2, ThreadMoves
<1>3. PICK g : g = h'
  OBVIOUS
<1>4. CASE kind = "KRAKEN"
  <2>1. g = [h EXCEPT !.running = TRUE, !.state = "BUFFERING", !.last = 0, !.buf = << >>, !.local = NoBook]
    BY <1>3, <1>4 DEF Start, KrakenStart
  <2>2. /\ g \in Handler /\ (g.ready <=> h.ready) /\ (g.refused <=> h.refused) /\ g.book = h.book
        /\ g.state = "BUFFERING" /\ g.buf = << >>
    BY <1>1, <2>1 DEF Handler
  <2> QED
    BY <1>1, <1>3, <1>4, <2>2, StreamForgotten
<1>5. CASE kind = "COINBASE"
  <2>1. g = [h EXCEPT !.running = TRUE, !.state = "BUFFERING", !.last = 0, !.buf = << >>,
                      !.reconn = FALSE, !.hb = "none"]
    BY <1>3, <1>5 DEF Start, CoinbaseStart
  <2>2. /\ g \in Handler /\ (g.ready <=> h.ready) /\ (g.refused <=> h.refused)
        /\ g.book = h.book /\ g.state = "BUFFERING" /\ g.buf = << >>
    BY <1>1, <2>1 DEF Handler
  <2> QED
    BY <1>1, <1>3, <1>5, <2>2, StreamForgotten
<1> QED
  BY <1>2, <1>4, <1>5, HandlerFacts

LEMMA CallerKeeps ==
  ASSUME HandlerSound, Caller
  PROVE  Consistent(kind, lacks, h, ver)' /\ UNCHANGED <<kind, lacks, ver, socks>>
<1>1. UNCHANGED <<kind, lacks, ver, socks>>
  BY DEF Caller, Start, StartReturns, StartTimesOut, Stop, Joined
<1>2. CASE Start
  BY <1>1, <1>2, StartKeeps
<1>3. CASE StartReturns \/ Joined
  <2>1. h' = h
    BY <1>3 DEF StartReturns, Joined
  <2> QED
    BY <1>1, <2>1, HandlerFacts
<1>4. CASE StartTimesOut \/ Stop
  <2>1. \/ h' = [h EXCEPT !.running = FALSE]
        \/ h' = [h EXCEPT !.running = FALSE, !.state = "DISCONNECTED"]
        \/ h' = [h EXCEPT !.running = FALSE, !.reconn = FALSE, !.state = "DISCONNECTED"]
    BY <1>4 DEF StartTimesOut, Stop, BinanceStop, BookStop, FuturesStop
  <2>2. SameBooks(h', h)
    BY <2>1, HandlerFacts, PlainMoves
  <2> QED
    BY <1>1, <2>2, ThreadMoves
<1> QED
  BY <1>1, <1>2, <1>3, <1>4 DEF Caller

\* What the loop does when it adopts a connection.
LEMMA WaitEndsKeeps ==
  ASSUME HandlerSound, WaitEnds
  PROVE  Consistent(kind, lacks, h, ver)'
<1>1. /\ h \in Handler /\ << >> \in Seq(Message) /\ NoBook \in [Levels -> Int]
      /\ UNCHANGED <<kind, lacks, ver>>
  BY HandlerFacts DEF WaitEnds
<1>2. PICK g : g = h'
  OBVIOUS
<1>3. \/ h' = h
      \/ kind = "BINANCE" /\ h' = BinanceAdopt
      \/ kind = "KRAKEN" /\ h' = KrakenAdopt
      \/ kind = "OKX" /\ h' = OkxAdopt
  BY HandlerFacts DEF WaitEnds
<1>4. CASE h' = h
  BY <1>1, <1>4, HandlerFacts
<1>5. CASE kind = "BINANCE" /\ h' = BinanceAdopt
  <2>1. SameBooks(h', h)
    BY <1>1, <1>5, PlainMoves DEF BinanceAdopt
  <2> QED
    BY <1>1, <2>1, ThreadMoves
<1>6. CASE kind \in {"KRAKEN", "OKX"} /\ (h' = KrakenAdopt \/ h' = OkxAdopt)
  <2>1. g = [h EXCEPT !.state = "BUFFERING", !.buf = << >>, !.local = NoBook, !.last = 0, !.reconn = FALSE]
    BY <1>2, <1>6 DEF KrakenAdopt, OkxAdopt
  <2>2. /\ g \in Handler /\ (g.ready <=> h.ready) /\ (g.refused <=> h.refused) /\ g.book = h.book
        /\ g.state = "BUFFERING" /\ g.buf = << >>
    BY <1>1, <2>1 DEF Handler
  <2> QED
    BY <1>1, <1>2, <1>6, <2>2, StreamForgotten
<1> QED
  BY <1>3, <1>4, <1>5, <1>6

\* What the exchange sends, whatever becomes of it.
LEMMA SnapshotSent ==
  ASSUME HandlerSound, NEW p \in 0..ver, NEW fate \in {"good", "bad", "wide", "misfit"},
         NEW out \in SUBSET Levels
  PROVE  [Snapshot(p) EXCEPT !.fate = fate, !.out = out] \in Snapshots(ver)
<1>1. p \in Versions /\ 0 \in Versions /\ lacks \subseteq {"checksum", "prevSeqId"}
  BY ProtocolAssumption DEF HandlerSound, Versions
<1>2. PICK m : m = [Snapshot(p) EXCEPT !.fate = fate, !.out = out]
  OBVIOUS
<1>3. m \in Message /\ m.type = "snapshot" /\ m.hi = p
  BY <1>1, <1>2 DEF Snapshot, Message
<1> QED
  BY <1>2, <1>3 DEF Snapshots

\* A message as sent is one that no grid leaves levels of out.
LEMMA SnapshotWhole ==
  ASSUME NEW p
  PROVE  /\ Snapshot(p).hi = p
         /\ Snapshot(p) = [Snapshot(p) EXCEPT !.fate = "good", !.out = {}]
         /\ Snapshot(p) = [Snapshot(p) EXCEPT !.out = {}]
         /\ Snapshot(p) = [Snapshot(p) EXCEPT !.fate = "good"]
         /\ \A fate : [Snapshot(p) EXCEPT !.fate = fate]
                        = [Snapshot(p) EXCEPT !.fate = fate, !.out = {}]
         /\ \A out : [Snapshot(p) EXCEPT !.out = out]
                       = [Snapshot(p) EXCEPT !.fate = "good", !.out = out]
<1>1. Snapshot(p).hi = p
  BY DEF Snapshot
<1>2. Snapshot(p) = [Snapshot(p) EXCEPT !.out = {}]
  BY DEF Snapshot
<1>3. Snapshot(p) = [Snapshot(p) EXCEPT !.fate = "good"]
  BY DEF Snapshot
<1>4. Snapshot(p) = [Snapshot(p) EXCEPT !.fate = "good", !.out = {}]
  BY <1>2, <1>3
<1>5. ASSUME NEW fate
      PROVE  [Snapshot(p) EXCEPT !.fate = fate] = [Snapshot(p) EXCEPT !.fate = fate, !.out = {}]
  <2>1. PICK m : m = [type |-> "snapshot", lo |-> 0, hi |-> p, sent |-> {}, lacks |-> lacks,
                      fate |-> fate, out |-> {}]
    OBVIOUS
  <2>2. m = [Snapshot(p) EXCEPT !.fate = fate]
    BY <2>1 DEF Snapshot
  <2>3. m = [m EXCEPT !.out = {}]
    BY <2>1
  <2> QED
    BY <2>2, <2>3
<1>6. ASSUME NEW out
      PROVE  [Snapshot(p) EXCEPT !.out = out] = [Snapshot(p) EXCEPT !.fate = "good", !.out = out]
  BY <1>3
<1> QED
  BY <1>1, <1>2, <1>3, <1>4, <1>5, <1>6

LEMMA UpdateSent ==
  ASSUME HandlerSound, NEW lo \in 1..ver, NEW hi \in lo..ver, kind # "BINANCE" => hi = lo,
         NEW out \in SUBSET Levels
  PROVE  /\ Update(lo, hi) = [Update(lo, hi) EXCEPT !.out = {}]
         /\ [Update(lo, hi) EXCEPT !.out = out] \in Updates(kind, lacks, ver)
<1>1. ver \in Nat /\ 0..ver \subseteq Versions /\ lacks \subseteq {"checksum", "prevSeqId"}
  BY ProtocolAssumption DEF HandlerSound, Versions
<1>2. PICK sent : sent = Sent(kind, lo, hi)
  OBVIOUS
<1>3. sent \subseteq Levels /\ (kind # "KRAKEN" => sent = {l \in Levels : LastTouch(l, hi) >= lo})
  BY <1>2 DEF Sent
<1>4. PICK m : m = [Update(lo, hi) EXCEPT !.out = out]
  OBVIOUS
<1>5. m = [type |-> "update", lo |-> lo, hi |-> hi, sent |-> sent, lacks |-> lacks,
           fate |-> "good", out |-> out]
  BY <1>2, <1>4 DEF Update
<1>6. m \in Message
  BY <1>1, <1>3, <1>5 DEF Message
<1>7. m \in Updates(kind, lacks, ver)
  BY <1>1, <1>3, <1>5, <1>6 DEF Updates
<1> QED
  BY <1>4, <1>7 DEF Update

LEMMA LoopKeeps ==
  ASSUME HandlerSound, Loop
  PROVE  Consistent(kind, lacks, h, ver)' /\ UNCHANGED <<kind, lacks, ver>>
        /\ (pc' = "sync" => kind = "BINANCE")
<1>1. UNCHANGED <<kind, lacks, ver>>
  BY DEF Loop, Boot, Connect, WaitEnds, Sync, Check, ServeEnds, LoopEnds
<1>2. /\ h \in Handler /\ Consistent(kind, lacks, h, ver) /\ ver \in Versions
      /\ kind \in {"BINANCE", "KRAKEN", "OKX", "COINBASE", "MARK"}
  BY HandlerFacts
<1>3. CASE Boot \/ Connect
  <2>1. \/ h' = h
        \/ h' = [h EXCEPT !.running = FALSE]
        \/ h' = [h EXCEPT !.reconn = FALSE]
    BY <1>3 DEF Boot, Connect
  <2>2. h' = h \/ SameBooks(h', h)
    BY <1>2, <2>1, PlainMoves
  <2>3. pc' # "sync"
    BY <1>3 DEF Boot, Connect
  <2> QED
    BY <1>1, <1>2, <2>2, <2>3, ThreadMoves
<1>4. CASE WaitEnds
  <2>1. pc' = "sync" => kind = "BINANCE"
    BY <1>2, <1>4 DEF WaitEnds
  <2> QED
    BY <1>1, <1>4, <2>1, WaitEndsKeeps
<1>5. CASE Sync
  <2>1. kind = "BINANCE"
    BY <1>5 DEF Sync, HandlerSound
  <2>2. CASE h' = h
    BY <1>1, <1>2, <2>1, <2>2
  <2>3. CASE h' # h
    <3>1. PICK fate \in {"good", "bad", "wide", "misfit"}, out \in SUBSET Levels :
            h' = BinanceSnapshot(h, [Snapshot(ver) EXCEPT !.fate = fate, !.out = out])
      <4>1. Snapshot(ver) = [Snapshot(ver) EXCEPT !.fate = "good", !.out = {}]
        BY SnapshotWhole
      <4> QED
        BY <1>5, <2>3, <4>1 DEF Sync
    <3>2. PICK m : m = [Snapshot(ver) EXCEPT !.fate = fate, !.out = out]
      OBVIOUS
    <3>3. m \in Snapshots(ver)
      <4>1. ver \in 0..ver
        BY <1>2 DEF Versions
      <4> QED
        BY <3>2, <4>1, SnapshotSent
    <3>4. Consistent("BINANCE", lacks, BinanceSnapshot(h, m), ver)
      BY <1>2, <2>1, <3>3, BinanceSnapshotKeeps
    <3> QED
      BY <1>1, <2>1, <3>1, <3>2, <3>4
  <2> QED
    BY <2>2, <2>3
<1>6. CASE Check
  <2>1. \/ h' = h
        \/ h' = [h EXCEPT !.state = "BUFFERING"]
        \/ h' = [h EXCEPT !.reconn = FALSE, !.state = "BUFFERING"]
        \/ h' = [h EXCEPT !.buf = << >>, !.state = "BUFFERING", !.reconn = TRUE]
    BY <1>6 DEF Check, CoinbaseResnapshot
  <2>2. h' = h \/ SameBooks(h', h)
    BY <1>2, <2>1, PlainMoves
  <2>3. pc' # "sync"
    BY <1>6 DEF Check
  <2> QED
    BY <1>1, <1>2, <2>2, <2>3, ThreadMoves
<1>7. CASE ServeEnds
  <2>1. \/ h' = h
        \/ h' = [h EXCEPT !.reconn = FALSE]
        \/ h' = [[h EXCEPT !.buf = << >>, !.state = "BUFFERING", !.reconn = TRUE]
                   EXCEPT !.reconn = FALSE]
    BY <1>2, <1>7 DEF ServeEnds, BinanceServed, KrakenServed, OkxServed, BinanceResnapshot
  <2>2. h' = h \/ SameBooks(h', h)
    BY <1>2, <2>1, PlainMoves
  <2>3. pc' # "sync"
    BY <1>2, <1>7 DEF ServeEnds
  <2> QED
    BY <1>1, <1>2, <2>2, <2>3, ThreadMoves
<1>8. CASE LoopEnds
  <2>1. h' = h /\ pc' # "sync"
    BY <1>8 DEF LoopEnds
  <2> QED
    BY <1>1, <1>2, <2>1
<1> QED
  BY <1>3, <1>4, <1>5, <1>6, <1>7, <1>8 DEF Loop

\* What a socket can deliver next was sent by the exchange, also when the grid
\* has no place for it or the book refuses it.
LEMMA MessagesSent ==
  ASSUME HandlerSound, NEW s \in 1..MaxSockets, NEW m \in NextMessages(s),
         NEW fate \in {"good", "bad", "wide", "misfit"}, NEW out \in SUBSET Levels
  PROVE  /\ m.hi \in 0..ver /\ m = [m EXCEPT !.out = {}] /\ m = [m EXCEPT !.fate = "good"]
         /\ socks[s].due => /\ kind \notin {"BINANCE", "MARK"}
                             /\ [m EXCEPT !.fate = fate] \in Snapshots(ver)
                             /\ [m EXCEPT !.out = out] \in Snapshots(ver)
         /\ ~socks[s].due => [m EXCEPT !.out = out] \in Updates(kind, lacks, ver)
<1>1. /\ ver \in Versions /\ ver \in Nat /\ socks[s].pos \in 0..ver
      /\ socks[s].due => kind \notin {"BINANCE", "MARK"}
  BY HandlerFacts DEF HandlerSound, SocketsSound, Socket
<1>2. CASE socks[s].due
  <2>1. PICK p \in 0..ver : m = Snapshot(p)
    BY <1>1, <1>2 DEF NextMessages
  <2>2. /\ m.hi = p
        /\ m = [m EXCEPT !.out = {}]
        /\ m = [m EXCEPT !.fate = "good"]
        /\ [m EXCEPT !.fate = fate] = [Snapshot(p) EXCEPT !.fate = fate, !.out = {}]
        /\ [m EXCEPT !.out = out] = [Snapshot(p) EXCEPT !.fate = "good", !.out = out]
    BY <2>1, SnapshotWhole
  <2>3. /\ [Snapshot(p) EXCEPT !.fate = fate, !.out = {}] \in Snapshots(ver)
        /\ [Snapshot(p) EXCEPT !.fate = "good", !.out = out] \in Snapshots(ver)
    BY SnapshotSent
  <2> QED
    BY <1>1, <1>2, <2>2, <2>3
<1>3. CASE ~socks[s].due
  <2>1. PICK lo \in 1..ver, hi \in 0..ver :
          hi >= lo /\ (kind # "BINANCE" => hi = lo) /\ m = Update(lo, hi)
    <3>1. PICK hi : /\ m = Update(socks[s].pos + 1, hi)
                    /\ hi \in (socks[s].pos + 1)..ver
                    /\ kind # "BINANCE" => hi = socks[s].pos + 1
      BY <1>1, <1>3 DEF NextMessages
    <3>2. socks[s].pos + 1 \in 1..ver
      BY <1>1, <3>1
    <3> QED
      BY <3>1, <3>2
  <2>2. m.hi = hi /\ hi \in 0..ver /\ m = [m EXCEPT !.fate = "good"]
    BY <1>1, <2>1 DEF Update
  <2>3. /\ Update(lo, hi) = [Update(lo, hi) EXCEPT !.out = {}]
        /\ [Update(lo, hi) EXCEPT !.out = out] \in Updates(kind, lacks, ver)
    BY <2>1, UpdateSent
  <2> QED
    BY <1>3, <2>1, <2>2, <2>3
<1> QED
  BY <1>2, <1>3

\* process_message, whichever the venue.
LEMMA MessageKeeps ==
  ASSUME HandlerSound, NEW m \in Updates(kind, lacks, ver) \cup Snapshots(ver),
         kind \in {"BINANCE", "MARK"} => m \in Updates(kind, lacks, ver),
         h' = ProcessMessage(m), UNCHANGED <<kind, lacks, ver>>
  PROVE  Consistent(kind, lacks, h, ver)'
<1>0. /\ h \in Handler /\ Consistent(kind, lacks, h, ver) /\ ver \in Versions
      /\ kind \in {"BINANCE", "KRAKEN", "OKX", "COINBASE", "MARK"}
  BY HandlerFacts
<1>1. CASE kind = "BINANCE"
  <2>1. h' = BinanceMessage(h, m)
    BY <1>1 DEF ProcessMessage
  <2> QED
    BY <1>0, <1>1, <2>1, BinanceMessageKeeps
<1>2. CASE kind = "KRAKEN"
  <2>1. h' = KrakenMessage(h, m)
    BY <1>2 DEF ProcessMessage
  <2> QED
    BY <1>0, <1>2, <2>1, KrakenMessageKeeps
<1>3. CASE kind = "OKX"
  <2>1. h' = OkxMessage(h, m)
    BY <1>3 DEF ProcessMessage
  <2> QED
    BY <1>0, <1>3, <2>1, OkxMessageKeeps
<1>4. CASE kind = "COINBASE"
  <2>1. h' = CoinbaseMessage(h, m)
    BY <1>4 DEF ProcessMessage
  <2> QED
    BY <1>0, <1>4, <2>1, CoinbaseMessageKeeps
<1>5. CASE kind = "MARK"
  <2>1. h' = [h EXCEPT !.mark = m.hi]
    BY <1>5 DEF ProcessMessage
  <2>2. m.hi \in Nat
    BY <1>0, <1>5, UpdateIs
  <2>3. SameBooks(h', h)
    BY <1>0, <2>1, <2>2, PlainMoves
  <2> QED
    BY <2>3, ThreadMoves
<1> QED
  BY <1>0, <1>1, <1>2, <1>3, <1>4, <1>5

\* The callbacks of a socket keep the handler consistent.
LEMMA NetworkKeeps ==
  ASSUME HandlerSound, NEW s \in 1..MaxSockets, Network(s)
  PROVE  Consistent(kind, lacks, h, ver)' /\ UNCHANGED <<kind, lacks, ver, pc>>
<1>1. UNCHANGED <<kind, lacks, ver, pc>>
  BY DEF Network, Established, Closed, Writeable, Receive, Overflow, BadSnapshot, OffGrid, Rejected,
     Heartbeat
<1>2. /\ h \in Handler /\ Consistent(kind, lacks, h, ver) /\ ver \in Versions
      /\ kind \in {"BINANCE", "KRAKEN", "OKX", "COINBASE", "MARK"}
  BY HandlerFacts
<1>3. CASE Established(s) \/ Closed(s) \/ Writeable(s) \/ Overflow(s)
  <2>1. h' = h
    BY <1>3 DEF Established, Closed, Writeable, Overflow
  <2> QED
    BY <1>1, <1>2, <2>1
<1>4. CASE Receive(s) \/ OffGrid(s)
  <2>1. PICK m \in NextMessages(s), out \in SUBSET Levels : h' = ProcessMessage([m EXCEPT !.out = out])
    <3>1. \A m \in NextMessages(s) : m = [m EXCEPT !.out = {}]
      BY MessagesSent
    <3>2. {} \in SUBSET Levels
      OBVIOUS
    <3> QED
      BY <1>4, <3>1, <3>2 DEF Receive, OffGrid
  <2>2. PICK b : b = [m EXCEPT !.out = out]
    OBVIOUS
  <2>3. /\ b \in Updates(kind, lacks, ver) \cup Snapshots(ver)
        /\ kind \in {"BINANCE", "MARK"} => b \in Updates(kind, lacks, ver)
    BY <2>2, MessagesSent
  <2> QED
    BY <1>1, <2>1, <2>2, <2>3, MessageKeeps
<1>5. CASE BadSnapshot(s)
  <2>1. PICK m \in NextMessages(s), fate \in {"bad", "wide", "misfit"} :
          socks[s].due /\ h' = ProcessMessage([m EXCEPT !.fate = fate])
    BY <1>5 DEF BadSnapshot
  <2>2. PICK b : b = [m EXCEPT !.fate = fate]
    OBVIOUS
  <2>3. b \in Snapshots(ver) /\ kind \notin {"BINANCE", "MARK"}
    BY <2>1, <2>2, MessagesSent
  <2> QED
    BY <1>1, <2>1, <2>2, <2>3, MessageKeeps
<1>6. CASE Rejected(s)
  <2>1. /\ socks[s].due
        /\ \/ kind = "KRAKEN" /\ h' = KrakenResnapshot(h)
           \/ kind = "OKX" /\ h' = Resnapshot(h)
           \/ h' = [h EXCEPT !.running = FALSE]
    BY <1>2, <1>6, Resnapshots DEF Rejected
  <2>2. CASE kind = "KRAKEN" /\ h' = KrakenResnapshot(h)
    BY <1>1, <1>2, <2>2, KrakenResnapshotKeeps
  <2>3. CASE kind = "OKX" /\ h' = Resnapshot(h)
    BY <1>1, <1>2, <2>3, ResnapshotKeeps
  <2>4. CASE h' = [h EXCEPT !.running = FALSE]
    <3>1. SameBooks(h', h)
      BY <1>2, <2>4, PlainMoves
    <3> QED
      BY <1>1, <3>1, ThreadMoves
  <2> QED
    BY <2>1, <2>2, <2>3, <2>4
<1>7. CASE Heartbeat(s)
  <2>1. h' = [h EXCEPT !.hb = "fresh"]
    BY <1>7 DEF Heartbeat
  <2>2. SameBooks(h', h)
    BY <1>2, <2>1, PlainMoves
  <2> QED
    BY <1>1, <2>2, ThreadMoves
<1> QED
  BY <1>3, <1>4, <1>5, <1>6, <1>7 DEF Network

\* What a socket record may become: freed, its flags changed, or at another
\* update the exchange made.
SoundSocket(k, n, x) ==
  x \in Socket /\ x.pos <= n /\ (k \in {"BINANCE", "MARK"} => ~x.due /\ ~x.want)

LEMMA SocketMoves ==
  ASSUME NEW k, NEW n \in Nat, NEW x, SoundSocket(k, n, x)
  PROVE  /\ SoundSocket(k, n, Free)
         /\ SoundSocket(k, n, [x EXCEPT !.st = "connecting"])
         /\ SoundSocket(k, n, [x EXCEPT !.st = "open", !.sub = TRUE, !.pos = n])
         /\ k \notin {"BINANCE", "MARK"} => SoundSocket(k, n, [x EXCEPT !.st = "open", !.want = TRUE])
         /\ SoundSocket(k, n, [x EXCEPT !.want = FALSE])
         /\ k \notin {"BINANCE", "MARK"} =>
              SoundSocket(k, n, [[x EXCEPT !.want = FALSE] EXCEPT !.sub = TRUE, !.pos = n, !.due = TRUE])
         /\ \A p \in 0..n : SoundSocket(k, n, [[x EXCEPT !.due = FALSE] EXCEPT !.pos = p])
         /\ SoundSocket(k, n, [[x EXCEPT !.sub = FALSE] EXCEPT !.due = FALSE])
<1>0. x \in Socket /\ 0..n \subseteq Nat
  BY DEF SoundSocket
<1>1. SoundSocket(k, n, Free)
  BY DEF SoundSocket, Socket, Free
<1>2. SoundSocket(k, n, [x EXCEPT !.st = "connecting"])
  BY DEF SoundSocket, Socket
<1>3. SoundSocket(k, n, [x EXCEPT !.st = "open", !.sub = TRUE, !.pos = n])
  <2>1. PICK y : y = [x EXCEPT !.st = "open", !.sub = TRUE, !.pos = n]
    OBVIOUS
  <2>2. y \in Socket /\ y.pos = n /\ (y.due <=> x.due) /\ (y.want <=> x.want)
    BY <1>0, <2>1 DEF Socket
  <2> QED
    BY <2>1, <2>2 DEF SoundSocket
<1>4. k \notin {"BINANCE", "MARK"} => SoundSocket(k, n, [x EXCEPT !.st = "open", !.want = TRUE])
  BY DEF SoundSocket, Socket
<1>5. SoundSocket(k, n, [x EXCEPT !.want = FALSE])
  BY DEF SoundSocket, Socket
<1>6. k \notin {"BINANCE", "MARK"} =>
        SoundSocket(k, n, [[x EXCEPT !.want = FALSE] EXCEPT !.sub = TRUE, !.pos = n, !.due = TRUE])
  <2>1. PICK y : y = [[x EXCEPT !.want = FALSE] EXCEPT !.sub = TRUE, !.pos = n, !.due = TRUE]
    OBVIOUS
  <2>2. y \in Socket /\ y.pos = n
    BY <1>0, <2>1 DEF Socket
  <2> QED
    BY <2>1, <2>2 DEF SoundSocket
<1>7. ASSUME NEW p \in 0..n PROVE SoundSocket(k, n, [[x EXCEPT !.due = FALSE] EXCEPT !.pos = p])
  <2>1. PICK y : y = [[x EXCEPT !.due = FALSE] EXCEPT !.pos = p]
    OBVIOUS
  <2>2. y \in Socket /\ y.pos = p /\ ~y.due /\ (y.want <=> x.want)
    BY <1>0, <2>1 DEF Socket
  <2> QED
    BY <2>1, <2>2 DEF SoundSocket
<1>8. SoundSocket(k, n, [[x EXCEPT !.sub = FALSE] EXCEPT !.due = FALSE])
  BY DEF SoundSocket, Socket
<1> QED
  BY <1>1, <1>2, <1>3, <1>4, <1>5, <1>6, <1>7, <1>8

LEMMA SocketsAre ==
  SocketsSound <=>
    /\ socks \in [1..MaxSockets -> Socket]
    /\ \A s \in 1..MaxSockets : SoundSocket(kind, ver, socks[s])
BY DEF SocketsSound, SoundSocket

\* One socket changes.
LEMMA OneSocket ==
  ASSUME HandlerSound, NEW s \in 1..MaxSockets, NEW x, SoundSocket(kind, ver, x),
         socks' = [socks EXCEPT ![s] = x], UNCHANGED <<kind, lacks, ver>>
  PROVE  SocketsSound'
<1>1. /\ socks \in [1..MaxSockets -> Socket]
      /\ \A r \in 1..MaxSockets : SoundSocket(kind, ver, socks[r])
  BY SocketsAre DEF HandlerSound
<1>2. PICK f : f = socks'
  OBVIOUS
<1>3. x \in Socket
  BY DEF SoundSocket
<1>4. f \in [1..MaxSockets -> Socket] /\ \A r \in 1..MaxSockets : f[r] = IF r = s THEN x ELSE socks[r]
  BY <1>1, <1>2, <1>3
<1>5. \A r \in 1..MaxSockets : SoundSocket(kind, ver, f[r])
  BY <1>1, <1>4
<1> QED
  BY <1>2, <1>4, <1>5 DEF SocketsSound, SoundSocket

LEMMA NetworkSockets ==
  ASSUME HandlerSound, NEW s \in 1..MaxSockets, Network(s), UNCHANGED <<kind, lacks, ver>>
  PROVE  SocketsSound'
<1>1. SocketsSound /\ SoundSocket(kind, ver, socks[s]) /\ ver \in Nat /\ s \in DOMAIN socks
  BY HandlerFacts, SocketsAre DEF HandlerSound
<1>2. CASE Heartbeat(s)
  <2>1. socks' = socks
    BY <1>2 DEF Heartbeat
  <2> QED
    BY <1>1, <2>1 DEF SocketsSound
<1>3. CASE Established(s)
  <2>1. PICK x : /\ socks' = [socks EXCEPT ![s] = x]
                 /\ \/ x = [socks[s] EXCEPT !.st = "open", !.sub = TRUE, !.pos = ver]
                    \/ /\ kind \notin {"BINANCE", "MARK"}
                       /\ x = [socks[s] EXCEPT !.st = "open", !.want = TRUE]
    BY <1>3 DEF Established
  <2>2. /\ SoundSocket(kind, ver, [socks[s] EXCEPT !.st = "open", !.sub = TRUE, !.pos = ver])
        /\ kind \notin {"BINANCE", "MARK"} =>
             SoundSocket(kind, ver, [socks[s] EXCEPT !.st = "open", !.want = TRUE])
    BY <1>1, SocketMoves
  <2> QED
    BY <2>1, <2>2, OneSocket
<1>4. CASE Closed(s)
  <2>1. socks' = [socks EXCEPT ![s] = Free]
    BY <1>4 DEF Closed
  <2>2. SoundSocket(kind, ver, Free)
    BY <1>1, SocketMoves
  <2> QED
    BY <2>1, <2>2, OneSocket
<1>5. CASE Writeable(s)
  <2>1. kind \notin {"BINANCE", "MARK"}
    BY <1>1, <1>5 DEF Writeable, SoundSocket
  <2>2. PICK x : /\ socks' = [socks EXCEPT ![s] = x]
                 /\ \/ x = [socks[s] EXCEPT !.want = FALSE]
                    \/ x = [[socks[s] EXCEPT !.want = FALSE] EXCEPT !.sub = TRUE, !.pos = ver, !.due = TRUE]
    BY <1>5 DEF Writeable, Subscribed
  <2>3. /\ SoundSocket(kind, ver, [socks[s] EXCEPT !.want = FALSE])
        /\ SoundSocket(kind, ver, [[socks[s] EXCEPT !.want = FALSE]
                                     EXCEPT !.sub = TRUE, !.pos = ver, !.due = TRUE])
    BY <1>1, <2>1, SocketMoves
  <2> QED
    BY <2>2, <2>3, OneSocket
<1>6. CASE Receive(s) \/ Overflow(s) \/ BadSnapshot(s) \/ OffGrid(s)
  <2>1. PICK m \in NextMessages(s) : socks' = Delivered(s, m)
    BY <1>6 DEF Receive, Overflow, BadSnapshot, OffGrid
  <2>2. m.hi \in 0..ver
    BY <1>1, MessagesSent
  <2>3. PICK x : x = [[socks[s] EXCEPT !.due = FALSE] EXCEPT !.pos = m.hi]
    OBVIOUS
  <2>4. socks' = [socks EXCEPT ![s] = x]
    BY <1>1, <2>1, <2>3 DEF Delivered
  <2>5. SoundSocket(kind, ver, x)
    BY <1>1, <2>2, <2>3, SocketMoves
  <2> QED
    BY <2>4, <2>5, OneSocket
<1>7. CASE Rejected(s)
  <2>1. PICK x : x = [[socks[s] EXCEPT !.sub = FALSE] EXCEPT !.due = FALSE]
    OBVIOUS
  <2>2. socks' = [socks EXCEPT ![s] = x]
    BY <1>1, <1>7, <2>1 DEF Rejected
  <2>3. SoundSocket(kind, ver, x)
    BY <1>1, <2>1, SocketMoves
  <2> QED
    BY <2>2, <2>3, OneSocket
<1> QED
  BY <1>2, <1>3, <1>4, <1>5, <1>6, <1>7 DEF Network

\* The loop opens a socket, or ends and destroys them all.
LEMMA LoopSockets ==
  ASSUME HandlerSound, Loop, UNCHANGED <<kind, lacks, ver>>
  PROVE  SocketsSound'
<1>1. /\ SocketsSound /\ socks \in [1..MaxSockets -> Socket] /\ ver \in Nat
      /\ \A r \in 1..MaxSockets : SoundSocket(kind, ver, socks[r])
  BY HandlerFacts, SocketsAre DEF HandlerSound
<1>2. CASE socks' = socks
  BY <1>1, <1>2 DEF SocketsSound
<1>3. CASE Connect /\ socks' # socks
  <2>1. PICK s \in Sockets : socks' = [socks EXCEPT ![s].st = "connecting"]
    BY <1>3 DEF Connect
  <2>2. PICK x : x = [socks[s] EXCEPT !.st = "connecting"]
    OBVIOUS
  <2>3. s \in 1..MaxSockets /\ socks' = [socks EXCEPT ![s] = x]
    BY <1>1, <2>1, <2>2 DEF Sockets
  <2>4. SoundSocket(kind, ver, x)
    BY <1>1, <2>2, <2>3, SocketMoves
  <2> QED
    BY <2>3, <2>4, OneSocket
<1>4. CASE LoopEnds
  <2>1. PICK f : f = socks'
    OBVIOUS
  <2>2. f = [s \in 1..MaxSockets |-> Free]
    BY <1>1, <1>4, <2>1 DEF LoopEnds, Sockets
  <2>3. Free \in Socket /\ Free.pos <= ver /\ ~Free.due /\ ~Free.want
    BY <1>1 DEF Free, Socket
  <2> QED
    BY <2>1, <2>2, <2>3 DEF SocketsSound
<1> QED
  BY <1>2, <1>3, <1>4 DEF Loop, Boot, WaitEnds, Sync, Check, ServeEnds

-----------------------------------------------------------------------------
(* The theorems *)

LEMMA InitSound == Init => HandlerSound
<1> SUFFICES ASSUME Init PROVE HandlerSound
  OBVIOUS
<1>0. lacks \subseteq {"checksum", "prevSeqId"}
  <2>1. \/ lacks \in SUBSET {"checksum"}
        \/ lacks \in SUBSET {"checksum", "prevSeqId"}
        \/ lacks \in {{}}
    BY DEF Init
  <2> QED
    BY <2>1
<1>1. kind \in Kinds /\ ver = 0 /\ ver \in Versions /\ pc = "off"
  BY ProtocolAssumption DEF Init, Versions
<1>2. SocketsSound
  BY <1>1 DEF Init, SocketsSound, Socket, Free
<1>3. h \in Handler /\ ~h.ready /\ h.state = "DISCONNECTED" /\ h.buf = << >>
  BY DEF Init, Handler, NoBook, None
<1>4. Consistent(kind, lacks, h, ver)
  BY <1>1, <1>3 DEF Consistent, Synced
<1> QED
  BY <1>0, <1>1, <1>2, <1>4 DEF HandlerSound

\* The exchange's next update leaves what was right before right.
LEMMA PublishKeeps ==
  ASSUME HandlerSound, Publish
  PROVE  HandlerSound'
<1>1. /\ ver \in Nat /\ ver < Len(Touched) /\ Consistent(kind, lacks, h, ver)
      /\ ver' = ver + 1 /\ kind' = kind /\ lacks' = lacks /\ h' = h /\ pc' = pc /\ socks' = socks
  BY HandlerFacts DEF Publish
<1>2. Consistent(kind, lacks, h, ver + 1)
  BY <1>1, ConsistentLater
<1>3. ver + 1 \in Versions
  BY <1>1, ProtocolAssumption DEF Versions
<1>4. SocketsSound'
  <2>1. socks \in [1..MaxSockets -> Socket] /\ \A s \in 1..MaxSockets : socks[s].pos \in Nat
    BY DEF HandlerSound, SocketsSound, Socket
  <2>2. \A s \in 1..MaxSockets : socks[s].pos <= ver + 1
    BY <1>1, <2>1 DEF HandlerSound, SocketsSound
  <2> QED
    BY <1>1, <2>1, <2>2 DEF HandlerSound, SocketsSound
<1> QED
  BY <1>1, <1>2, <1>3, <1>4 DEF HandlerSound

LEMMA StepSound == HandlerSound /\ [Next]_vars => HandlerSound'
<1> SUFFICES ASSUME HandlerSound, [Next]_vars PROVE HandlerSound'
  OBVIOUS
<1>1. CASE Publish
  BY <1>1, PublishKeeps
<1>2. CASE Loop
  <2>1. Consistent(kind, lacks, h, ver)' /\ UNCHANGED <<kind, lacks, ver>>
        /\ (pc' = "sync" => kind = "BINANCE")
    BY <1>2, LoopKeeps
  <2>2. SocketsSound'
    BY <1>2, <2>1, LoopSockets
  <2> QED
    BY <2>1, <2>2 DEF HandlerSound
<1>3. CASE Caller
  <2>1. Consistent(kind, lacks, h, ver)' /\ UNCHANGED <<kind, lacks, ver, socks>>
    BY <1>3, CallerKeeps
  <2>2. pc' = pc \/ pc' = "boot"
    BY <1>3 DEF Caller, Start, StartReturns, StartTimesOut, Stop, Joined
  <2> QED
    BY <2>1, <2>2 DEF HandlerSound, SocketsSound
<1>4. CASE HeartbeatLost
  <2>1. h' = [h EXCEPT !.hb = "stale"] /\ UNCHANGED <<kind, lacks, ver, socks, pc>>
    BY <1>4 DEF HeartbeatLost
  <2>2. SameBooks(h', h)
    BY <2>1, HandlerFacts, PlainMoves
  <2>3. Consistent(kind, lacks, h, ver)'
    BY <2>1, <2>2, ThreadMoves
  <2> QED
    BY <2>1, <2>3 DEF HandlerSound, SocketsSound
<1>5. CASE \E s \in Sockets : Network(s)
  <2>1. PICK s \in 1..MaxSockets : Network(s)
    BY <1>5 DEF HandlerSound, SocketsSound, Sockets
  <2>2. Consistent(kind, lacks, h, ver)' /\ UNCHANGED <<kind, lacks, ver, pc>>
    BY <2>1, NetworkKeeps
  <2>3. SocketsSound'
    BY <2>1, <2>2, NetworkSockets
  <2> QED
    BY <2>2, <2>3 DEF HandlerSound
<1>6. CASE UNCHANGED vars
  BY <1>6 DEF vars, HandlerSound, SocketsSound
<1> QED
  BY <1>1, <1>2, <1>3, <1>4, <1>5, <1>6 DEF Next

\* A handler is consistent whatever its threads and sockets do and whatever the
\* grid drops or refuses: the books and numbers it holds after start, stop,
\* process_message, a replay, a resnapshot or a reconnect belong together
\* (the four feed handlers).
THEOREM HandlersConsistent == Spec => []HandlerSound
BY InitSound, StepSound, PTL DEF Spec

\* Where the venue's numbers tell, the levels of the book are all from one moment
\* of the exchange, whatever is lost, replayed or sent twice by a socket left open
\* (apply_buffered_deltas and process_message, binance_feed_handler.cpp:645).
THEOREM BooksAreGenuine == Spec => []BookIsGenuine
<1>1. HandlerSound => BookIsGenuine
  BY DEF HandlerSound, Consistent, NumberedBy, Numbered, Usable, BookIsGenuine
<1> QED
  BY <1>1, HandlersConsistent, PTL

\* While a handler streams the book has its number, and where the number is the
\* exchange's it is the book of that number, also after a replay
\* (okx_feed_handler.cpp:570).
THEOREM SequencesMatchBooks == Spec => []SequenceMatchesBook
<1>1. HandlerSound => SequenceMatchesBook
  BY DEF HandlerSound, Consistent, Synced, NumberedBy, Numbered, Usable, SequenceMatchesBook
<1> QED
  BY <1>1, HandlersConsistent, PTL

\* While Kraken or OKX streams, every level of the book its checksums are computed
\* over is in the book the program trades on (kraken_feed_handler.cpp:505).
THEOREM ChecksumBooksAreTraded == Spec => []ChecksumBookIsTraded
<1>1. HandlerSound => ChecksumBookIsTraded
  BY DEF HandlerSound, Consistent, Synced, Carries, Usable, ChecksumBookIsTraded
<1> QED
  BY <1>1, HandlersConsistent, PTL

\* While Kraken or OKX streams with checksums, the levels these cover are those of
\* one moment of the exchange and in the traded book (validate_checksum,
\* kraken_feed_handler.cpp:578, okx_feed_handler.cpp:664).
THEOREM ChecksumsVouch == Spec => []BestLevelsAreReal
<1>1. HandlerSound => BestLevelsAreReal
  <2> SUFFICES ASSUME HandlerSound, h.state = "STREAMING", Usable, kind \in {"KRAKEN", "OKX"},
                      "checksum" \notin lacks
               PROVE  \E v \in 0..ver :
                        /\ TopOf(h.local, ChecksumDepth) = TopOf(Content(v), ChecksumDepth)
                        /\ \A l \in Best(Content(v), ChecksumDepth) :
                             h.book[l] \in {Content(v)[l], Hidden}
    BY DEF BestLevelsAreReal
  <2>1. Carries(kind, h.book, h.local) /\ TopReal(h.local, ver)
    BY DEF HandlerSound, Consistent, Synced, Usable, SummedBy
  <2>2. PICK v \in 0..ver : TopOf(h.local, ChecksumDepth) = TopOf(Content(v), ChecksumDepth)
    BY <2>1 DEF TopReal
  <2>3. ASSUME NEW l \in Best(Content(v), ChecksumDepth)
        PROVE  h.book[l] \in {Content(v)[l], Hidden}
    <3>1. l \in Levels /\ Content(v)[l] # None
      BY BestWithin
    <3>2. h.local[l] = Content(v)[l]
      BY <2>2, SumAgrees
    <3> QED
      BY <2>1, <3>1, <3>2 DEF Carries
  <2> QED
    BY <2>2, <2>3
<1> QED
  BY <1>1, HandlersConsistent, PTL
=============================================================================
