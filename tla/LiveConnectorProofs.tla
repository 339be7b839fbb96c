------------------------ MODULE LiveConnectorProofs ------------------------
(***************************************************************************)
(* Proofs about LiveConnector, for every set of ids, every table size,      *)
(* every retry policy and both kinds of replace.                            *)
(***************************************************************************)
EXTENDS LiveConnector, FiniteSetTheorems, TLAPS

-----------------------------------------------------------------------------
(* The log and what is read back from it *)

\* Every key of a log has a first and a last record.  (True of any sequence;
\* carried through the steps, since its proof would need induction.)
LogOrdered(l) ==
  \A k \in KeysOf(l) :
    /\ \E i \in Positions(l, k) : \A j \in Positions(l, k) : i <= j
    /\ \E i \in Positions(l, k) : \A j \in Positions(l, k) : j <= i

LEMMA LogOrderedAt ==
  ASSUME NEW l \in Seq(LogRecord), LogOrdered(l), NEW k \in KeysOf(l)
  PROVE  /\ FirstAt(l, k) \in Positions(l, k)
         /\ LastAt(l, k) \in Positions(l, k)
         /\ \A j \in Positions(l, k) : j <= LastAt(l, k)
  BY DEF LogOrdered, FirstAt, LastAt

\* Log m is log l with a record of key k and entry e behind it: the last record
\* of k is the new one, that of any other key is what it was.
Extends(m, l, k, e) ==
  /\ m \in Seq(LogRecord)
  /\ LogOrdered(m)
  /\ KeysOf(m) = KeysOf(l) \cup {k}
  /\ m[LastAt(m, k)].entry = e
  /\ \A j \in KeysOf(l) \ {k} : m[LastAt(m, j)].entry = l[LastAt(l, j)].entry

LEMMA LogAppend ==
  ASSUME NEW l \in Seq(LogRecord), LogOrdered(l), NEW k \in Keys, NEW e \in Entry,
         NEW m, m = Append(l, [key |-> k, entry |-> e])
  PROVE  Extends(m, l, k, e)
<1>1. [key |-> k, entry |-> e] \in LogRecord
  BY DEF LogRecord
<1>2. /\ m \in Seq(LogRecord)
      /\ Len(m) = Len(l) + 1
      /\ m[Len(m)] = [key |-> k, entry |-> e]
      /\ \A i \in 1..Len(l) : m[i] = l[i]
  BY <1>1
<1>3. Positions(m, k) = Positions(l, k) \cup {Len(m)}
  BY <1>2 DEF Positions
<1>4. \A j \in Keys \ {k} : Positions(m, j) = Positions(l, j)
  BY <1>2 DEF Positions
<1>5. KeysOf(m) = KeysOf(l) \cup {k}
  BY <1>3, <1>4 DEF KeysOf
<1>6. Positions(l, k) \subseteq 1..Len(l) /\ Len(l) \in Nat
  BY DEF Positions
<1>7. \A j \in Positions(m, k) : j <= Len(m)
  BY <1>2, <1>3, <1>6
<1>8. \E i \in Positions(m, k) : \A j \in Positions(m, k) : i <= j
  <2>1. CASE Positions(l, k) = {}
    BY <1>2, <1>3, <2>1
  <2>2. CASE Positions(l, k) # {}
    <3>1. PICK i \in Positions(l, k) : \A j \in Positions(l, k) : i <= j
      BY <2>2 DEF LogOrdered, KeysOf
    <3> QED
      BY <3>1, <1>2, <1>3, <1>6
  <2> QED
    BY <2>1, <2>2
<1>9. LogOrdered(m)
  <2> SUFFICES ASSUME NEW j \in KeysOf(m)
               PROVE  /\ \E i \in Positions(m, j) : \A n \in Positions(m, j) : i <= n
                      /\ \E i \in Positions(m, j) : \A n \in Positions(m, j) : n <= i
    BY DEF LogOrdered
  <2>1. CASE j = k
    BY <2>1, <1>3, <1>7, <1>8
  <2>2. CASE j # k
    <3>1. j \in KeysOf(l) /\ Positions(m, j) = Positions(l, j)
      BY <2>2, <1>4, <1>5 DEF KeysOf
    <3> QED
      BY <3>1 DEF LogOrdered
  <2> QED
    BY <2>1, <2>2
<1>10. m[LastAt(m, k)].entry = e
  <2>1. LastAt(m, k) \in Positions(m, k) /\ \A j \in Positions(m, k) : j <= LastAt(m, k)
    BY <1>2, <1>5, <1>9, LogOrderedAt
  <2>2. LastAt(m, k) = Len(m)
    BY <2>1, <1>2, <1>3, <1>6
  <2> QED
    BY <2>2, <1>2
<1>11. ASSUME NEW j \in KeysOf(l) \ {k}
       PROVE  m[LastAt(m, j)].entry = l[LastAt(l, j)].entry
  <2>1. Positions(m, j) = Positions(l, j)
    BY <1>4 DEF KeysOf
  <2>2. LastAt(m, j) = LastAt(l, j)
    BY <2>1 DEF LastAt
  <2>3. LastAt(l, j) \in 1..Len(l)
    BY LogOrderedAt DEF Positions
  <2> QED
    BY <2>2, <2>3, <1>2
<1> QED
  BY <1>2, <1>5, <1>9, <1>10, <1>11 DEF Extends

LEMMA ReplayType ==
  ASSUME NEW l \in Seq(LogRecord), LogOrdered(l)
  PROVE  Replay(l) \in [Keys -> Entry]
<1>1. NoEntry \in Entry
  BY DEF NoEntry, Entry, States
<1>2. ASSUME NEW k \in KeysOf(l) PROVE l[LastAt(l, k)].entry \in Entry
  <2>1. LastAt(l, k) \in 1..Len(l)
    BY LogOrderedAt DEF Positions
  <2>2. l[LastAt(l, k)] \in LogRecord
    BY <2>1
  <2> QED
    BY <2>2 DEF LogRecord
<1> QED
  BY <1>1, <1>2 DEF Replay, GetsSlot

\* A log with no more keys than the table has slots is read back whole.
LEMMA ReplayAll ==
  ASSUME NEW l \in Seq(LogRecord), LogOrdered(l), IsFiniteSet(KeysOf(l)),
         Cardinality(KeysOf(l)) <= MaxRecords
  PROVE  Replay(l) = [k \in Keys |-> IF k \in KeysOf(l) THEN l[LastAt(l, k)].entry ELSE NoEntry]
<1> SUFFICES ASSUME NEW k \in KeysOf(l) PROVE GetsSlot(l, k)
  BY DEF Replay, GetsSlot
<1> DEFINE Earlier == {j \in KeysOf(l) : FirstAt(l, j) < FirstAt(l, k)}
<1>1. FirstAt(l, k) \in Nat
  BY LogOrderedAt DEF Positions
<1>2. Earlier \subseteq KeysOf(l) \ {k}
  BY <1>1
<1>3. IsFiniteSet(KeysOf(l) \ {k}) /\ Cardinality(KeysOf(l) \ {k}) = Cardinality(KeysOf(l)) - 1
  BY FS_RemoveElement
<1>4. Cardinality(Earlier) <= Cardinality(KeysOf(l) \ {k}) /\ Cardinality(Earlier) \in Nat
  BY <1>2, <1>3, FS_Subset, FS_CardinalityType
<1>5. Cardinality(KeysOf(l)) \in Nat
  BY FS_CardinalityType
<1> QED
  BY <1>3, <1>4, <1>5, JournalAssumption DEF GetsSlot

-----------------------------------------------------------------------------
(* The journal's own invariants *)

JournalBase == JournalTypeOK /\ LogOrdered(log)

\* Memory is what recovery would give, and the file never holds more keys
\* than recovery has room for.
JournalKept ==
  /\ JournalDurable
  /\ KeysOf(log) = Used
  /\ Cardinality(Used) <= MaxRecords

LEMMA FiniteKeys == \A S \in SUBSET Keys : IsFiniteSet(S) /\ Cardinality(S) \in Nat
<1>1. Ops = {"SUBMIT", "CANCEL"} \cup {"REPLACE"}
  BY DEF Ops
<1>2. IsFiniteSet(Ops)
  <2>1. IsFiniteSet({"SUBMIT"}) /\ IsFiniteSet({"CANCEL"}) /\ IsFiniteSet({"REPLACE"})
    BY FS_Singleton
  <2>2. IsFiniteSet({"SUBMIT"} \cup {"CANCEL"})
    BY <2>1, FS_Union
  <2>3. IsFiniteSet(({"SUBMIT"} \cup {"CANCEL"}) \cup {"REPLACE"})
    BY <2>1, <2>2, FS_Union
  <2>4. ({"SUBMIT"} \cup {"CANCEL"}) \cup {"REPLACE"} = Ops
    BY DEF Ops
  <2> QED
    BY <2>3, <2>4
<1>3. IsFiniteSet(Ops \X Ids)
  BY <1>2, IdsAssumption, FS_Product
<1> QED
  BY <1>3, FS_Subset, FS_CardinalityType DEF Keys

LEMMA StoreBase ==
  ASSUME JournalBase, NEW k \in Keys, NEW e \in Entry, Store(k, e)
  PROVE  JournalBase'
<1>1. entries' \in [Keys -> Entry]
  BY DEF JournalBase, JournalTypeOK, Store
<1>2. CASE log' = log
  BY <1>1, <1>2 DEF JournalBase, JournalTypeOK, LogOrdered, KeysOf, Positions
<1>3. CASE log' = Append(log, [key |-> k, entry |-> e])
  <2>1. log' \in Seq(LogRecord) /\ LogOrdered(log')
    BY <1>3, LogAppend DEF JournalBase, JournalTypeOK, Extends
  <2> QED
    BY <1>1, <2>1 DEF JournalBase, JournalTypeOK, LogOrdered, KeysOf, Positions
<1> QED
  BY <1>2, <1>3 DEF Store, AppendRecord

LEMMA StoreKept ==
  ASSUME JournalBase, JournalKept, AppendMayFail = FALSE,
         NEW k \in Keys, NEW e \in Entry, e.state # "NONE", HasSlot(k), Store(k, e)
  PROVE  JournalKept'
<1>1. /\ log' = Append(log, [key |-> k, entry |-> e])
      /\ entries' = [entries EXCEPT ![k] = e]
      /\ entries \in [Keys -> Entry] /\ log \in Seq(LogRecord) /\ LogOrdered(log)
  BY DEF Store, AppendRecord, JournalBase, JournalTypeOK
<1>2. /\ log' \in Seq(LogRecord)
      /\ LogOrdered(log')
      /\ KeysOf(log') = KeysOf(log) \cup {k}
      /\ log'[LastAt(log', k)].entry = e
      /\ \A j \in KeysOf(log) \ {k} : log'[LastAt(log', j)].entry = log[LastAt(log, j)].entry
  <2>1. Extends(log', log, k, e)
    BY <1>1, LogAppend
  <2> QED
    BY <2>1 DEF Extends
<1>3. Used' = Used \cup {k}
  BY <1>1 DEF Used
<1>4. KeysOf(log') = Used'
  BY <1>2, <1>3 DEF JournalKept
<1>5. Used \in SUBSET Keys /\ Used' \in SUBSET Keys
  BY DEF Used
<1>6. Cardinality(Used') <= MaxRecords
  <2>1. CASE k \in Used
    BY <2>1, <1>3 DEF JournalKept
  <2>2. CASE k \notin Used
    <3>1. Cardinality(Used \cup {k}) = Cardinality(Used) + 1
      BY <2>2, <1>5, FiniteKeys, FS_AddElement
    <3>2. Cardinality(Used) < MaxRecords
      BY <2>2 DEF HasSlot
    <3> QED
      BY <3>1, <3>2, <1>3, <1>5, FiniteKeys, JournalAssumption
  <2> QED
    BY <2>1, <2>2
<1>7. Replay(log) = [j \in Keys |-> IF j \in Used THEN log[LastAt(log, j)].entry ELSE NoEntry]
  BY <1>1, <1>5, FiniteKeys, ReplayAll DEF JournalKept
<1>8. Replay(log') = [j \in Keys |-> IF j \in Used' THEN log'[LastAt(log', j)].entry ELSE NoEntry]
  BY <1>2, <1>4, <1>5, <1>6, FiniteKeys, ReplayAll
<1>9. ASSUME NEW j \in Keys PROVE Replay(log')[j] = entries'[j]
  <2>1. CASE j = k
    BY <2>1, <1>1, <1>2, <1>3, <1>8
  <2>2. CASE j # k
    <3>1. entries'[j] = entries[j] /\ entries[j] = Replay(log)[j]
      BY <2>2, <1>1 DEF JournalKept, JournalDurable
    <3>2. CASE j \in Used
      BY <2>2, <3>1, <3>2, <1>2, <1>3, <1>7, <1>8 DEF JournalKept
    <3>3. CASE j \notin Used
      BY <2>2, <3>1, <3>3, <1>3, <1>7, <1>8
    <3> QED
      BY <3>2, <3>3
  <2> QED
    BY <2>1, <2>2
<1>10. entries' = Replay(log')
  <2>1. entries' = [j \in Keys |-> entries'[j]]
    BY <1>1
  <2>2. Replay(log') = [j \in Keys |-> Replay(log')[j]]
    BY <1>8
  <2> QED
    BY <2>1, <2>2, <1>9
<1>11. JournalDurable'
  BY <1>10 DEF JournalDurable, Replay, GetsSlot, KeysOf, Positions, LastAt, FirstAt
<1> QED
  BY <1>4, <1>6, <1>11 DEF JournalKept, KeysOf, Positions

LEMMA RecoverBase ==
  ASSUME JournalBase, Recover
  PROVE  JournalBase'
<1>1. Replay(log) \in [Keys -> Entry]
  BY ReplayType DEF JournalBase, JournalTypeOK
<1> QED
  BY <1>1 DEF JournalBase, JournalTypeOK, Recover, LogOrdered, KeysOf, Positions

\* Reading the file back changes nothing.
LEMMA RecoverKept ==
  ASSUME JournalKept, Recover
  PROVE  UNCHANGED journalVars
  BY DEF JournalKept, JournalDurable, Recover, journalVars

-----------------------------------------------------------------------------
(* The venue *)

\* What the venue hands back is well typed, and an order never loses its key
\* or comes back to life.
VenueGrows(old, new) ==
  /\ Len(old) <= Len(new)
  /\ \A v \in 1..Len(old) : new[v].key = old[v].key /\ (old[v].status = "CLOSED" => new[v].status = "CLOSED")

\* The reply to request r, given the orders afterwards, tells the truth.
ReplyIsTrue(r, e) ==
  e.res = "OK" =>
    /\ r.op = "SUBMIT" => e.vid \in 1..Len(e.orders) /\ e.orders[e.vid].key = r.key
    /\ r.op = "CANCEL" => r.vid \in 1..Len(e.orders) /\ e.orders[r.vid].status = "CLOSED"
    /\ e.vid \in 1..Len(e.orders)

LEMMA ClosedFacts ==
  ASSUME venue \in Seq(Order), NEW v \in 1..Len(venue)
  PROVE  /\ Closed(v) \in Seq(Order)
         /\ Len(Closed(v)) = Len(venue)
         /\ VenueGrows(venue, Closed(v))
         /\ Closed(v)[v].status = "CLOSED"
<1>1. /\ DOMAIN Closed(v) = 1..Len(venue)
      /\ \A w \in 1..Len(venue) :
           Closed(v)[w] = IF w = v THEN [venue[w] EXCEPT !.status = "CLOSED"] ELSE venue[w]
  BY DEF Closed
<1>2. \A w \in 1..Len(venue) : venue[w] \in Order
  OBVIOUS
<1>3. [venue[v] EXCEPT !.status = "CLOSED"] \in Order
      /\ [venue[v] EXCEPT !.status = "CLOSED"].status = "CLOSED"
      /\ [venue[v] EXCEPT !.status = "CLOSED"].key = venue[v].key
  BY <1>2 DEF Order
<1>4. Closed(v) = [w \in 1..Len(venue) |-> Closed(v)[w]]
  BY <1>1 DEF Closed
<1>5. Closed(v) \in Seq(Order) /\ Len(Closed(v)) = Len(venue)
  BY <1>1, <1>2, <1>3, <1>4
<1>6. Closed(v)[v].status = "CLOSED" /\ Closed(v)[v].key = venue[v].key
  BY <1>1, <1>3
<1>7. \A w \in 1..Len(venue) : w # v => Closed(v)[w] = venue[w]
  BY <1>1
<1>8. VenueGrows(venue, Closed(v))
  BY <1>5, <1>6, <1>7 DEF VenueGrows
<1> QED
  BY <1>5, <1>6, <1>8

LEMMA PlacedFacts ==
  ASSUME NEW orders \in Seq(Order), NEW k \in Ids
  PROVE  /\ Placed(orders, k) \in Seq(Order)
         /\ Len(Placed(orders, k)) = Len(orders) + 1
         /\ VenueGrows(orders, Placed(orders, k))
         /\ Placed(orders, k)[Len(orders) + 1].key = k
  BY DEF Placed, Order, VenueGrows

\* Whatever the venue does with a request, it keeps its books and answers
\* truthfully.
LEMMA EffectsFacts ==
  ASSUME venue \in Seq(Order), NEW r \in Request, NEW e \in Effects(r)
  PROVE  /\ e.orders \in Seq(Order)
         /\ e.res \in {"OK", "ERROR_INVALID_ORDER"}
         /\ e.vid \in Nat
         /\ VenueGrows(venue, e.orders)
         /\ ReplyIsTrue(r, e)
<1>1. CASE e \in Refusals
  BY <1>1 DEF Refusals, Reply, VenueGrows, ReplyIsTrue
<1>2. CASE e \in SubmitEffects(r)
  BY <1>2, PlacedFacts DEF SubmitEffects, Reply, ReplyIsTrue, Request
<1>3. CASE e \in CancelEffects(r)
  <2>1. r.op = "CANCEL" /\ r.vid \in 1..Len(venue) /\ e = Reply(Closed(r.vid), "OK", r.vid)
    BY <1>3 DEF CancelEffects, Live
  <2> QED
    BY <2>1, ClosedFacts DEF Reply, ReplyIsTrue, Request
<1>4. CASE e \in ReplaceEffects(r)
  <2>1. r.op = "REPLACE" /\ r.vid \in 1..Len(venue) /\ r.key \in Ids
    BY <1>4 DEF ReplaceEffects, Answers, Request
  <2>2. CASE e = Reply(venue, "OK", r.vid)
    BY <2>1, <2>2 DEF Reply, ReplyIsTrue, VenueGrows
  <2>3. CASE e = Reply(Closed(r.vid), "ERROR_INVALID_ORDER", 0)
    BY <2>1, <2>3, ClosedFacts DEF Reply, ReplyIsTrue
  <2>4. CASE e = Reply(Placed(Closed(r.vid), r.key), "OK", Len(venue) + 1)
    <3>1. Closed(r.vid) \in Seq(Order) /\ Len(Closed(r.vid)) = Len(venue)
          /\ VenueGrows(venue, Closed(r.vid))
      BY <2>1, ClosedFacts
    <3>2. VenueGrows(venue, Placed(Closed(r.vid), r.key))
      BY <2>1, <3>1, PlacedFacts DEF VenueGrows
    <3> QED
      BY <2>1, <2>4, <3>1, <3>2, PlacedFacts DEF Reply, ReplyIsTrue
  <2> QED
    BY <1>4, <2>2, <2>3, <2>4 DEF ReplaceEffects, AmendEffects, CancelReplaceEffects
<1> QED
  BY <1>1, <1>2, <1>3, <1>4 DEF Effects

-----------------------------------------------------------------------------
(* Types *)

\* A call under way names an order, and a replace also its replacement.
CallNamed == ~Idle => call.id \in Ids /\ (call.op = "REPLACE" => call.rel \in Ids)

TypeInv == TypeOK /\ LogOrdered(log) /\ CallNamed

LEMMA BeginBase ==
  ASSUME JournalBase, NEW k \in Keys, NEW rel \in Ids \cup {0}, Begin(k, rel)
  PROVE  JournalBase'
<1>1. CASE BeginWrites(k)
  <2>1. [entries[k] EXCEPT !.state = "IN_FLIGHT", !.rel = rel] \in Entry
    BY DEF JournalBase, JournalTypeOK, Entry, States
  <2> QED
    BY <1>1, <2>1, StoreBase DEF Begin
<1>2. CASE ~BeginWrites(k)
  BY <1>2 DEF Begin, journalVars, JournalBase, JournalTypeOK, LogOrdered, KeysOf, Positions
<1> QED
  BY <1>1, <1>2

LEMMA AckBase ==
  ASSUME JournalBase, NEW k \in Keys, NEW vid \in Nat, NEW rel \in Ids \cup {0}, Ack(k, vid, rel)
  PROVE  JournalBase'
<1>1. [state |-> "ACKED", rel |-> rel, vid |-> vid] \in Entry
  BY DEF Entry, States
<1> QED
  BY <1>1, StoreBase DEF Ack

LEMMA FailBase ==
  ASSUME JournalBase, NEW k \in Keys, NEW rel \in Ids \cup {0}, Fail(k, rel)
  PROVE  JournalBase'
<1>1. [entries[k] EXCEPT !.state = "FAILED", !.rel = rel] \in Entry
  BY DEF JournalBase, JournalTypeOK, Entry, States
<1> QED
  BY <1>1, StoreBase DEF Fail

LEMMA UnchangedBase ==
  ASSUME JournalBase, UNCHANGED journalVars
  PROVE  JournalBase'
  BY DEF journalVars, JournalBase, JournalTypeOK, LogOrdered, KeysOf, Positions

LEMMA MapTypes ==
  ASSUME NEW m \in [Ids -> Nat], NEW i \in Ids, NEW v \in Nat
  PROVE  /\ Upsert(m, i, v) \in [Ids -> Nat]
         /\ Erase(m, i) \in [Ids -> Nat]
         /\ UpsertResult(m, i) \in Results
  BY DEF Upsert, Erase, UpsertResult, Results

LEMMA ReturnTypes ==
  ASSUME NEW op \in Ops, NEW res \in Results, Return(op, res)
  PROVE  call' \in Call /\ out' \in Outcome /\ CallNamed'
  BY ConnectorAssumption DEF Return, NoCall, Call, Outcome, Results, CallNamed, Idle

LEMMA StartTypes ==
  ASSUME NEW op \in Ops, NEW id \in Ids, NEW rel \in Ids \cup {0}, NEW target \in Nat,
         NEW res \in Results \cup {"PENDING"}, Start(op, id, rel, target, res),
         op = "REPLACE" => rel \in Ids
  PROVE  call' \in Call /\ out' \in Outcome /\ CallNamed'
<1>1. call' = [op |-> op, id |-> id, rel |-> rel, target |-> target,
               attempt |-> 1, res |-> res, vid |-> 0]
  BY DEF Start, NoCall
<1>2. 1 \in 1..MaxAttempts
  BY ConnectorAssumption
<1>3. call' \in Call
  BY <1>1, <1>2 DEF Call
<1>4. CallNamed'
  BY <1>1 DEF CallNamed, Idle
<1> QED
  BY <1>3, <1>4 DEF Start, NoOutcome, Outcome, Results

LEMMA SubmitTypes ==
  ASSUME TypeInv, NEW id \in Ids, SubmitOrder(id)
  PROVE  TypeInv'
<1> DEFINE k == <<"SUBMIT", id>>
<1>1. k \in Keys
  BY DEF Keys, Ops
<1>2. JournalBase'
  BY <1>1, BeginBase DEF SubmitOrder, TypeInv, TypeOK, JournalBase
<1>3. entries[k].vid \in Nat
  BY <1>1 DEF TypeInv, TypeOK, JournalTypeOK, Entry
<1>4. map' \in [Ids -> Nat]
  <2>1. map' = map \/ map' = Upsert(map, id, entries[k].vid)
    BY Zenon DEF SubmitOrder
  <2>2. map \in [Ids -> Nat]
    BY DEF TypeInv, TypeOK
  <2> HIDE DEF k
  <2>3. Upsert(map, id, entries[k].vid) \in [Ids -> Nat]
    BY <1>3, <2>2, MapTypes
  <2> QED
    BY <2>1, <2>2, <2>3
<1>5. venue' \in Seq(Order) /\ wire' \subseteq Request
  BY DEF SubmitOrder, TypeInv, TypeOK
<1>6. call' \in Call /\ out' \in Outcome /\ CallNamed'
  <2>1. CASE \E res \in Results : Return("SUBMIT", res)
    BY <2>1, ReturnTypes DEF Ops
  <2>2. CASE Start("SUBMIT", id, 0, 0, "PENDING")
    BY <2>2, StartTypes DEF Ops
  <2>3. UpsertResult(map, id) \in Results /\ "OK" \in Results /\ "ERROR_UNKNOWN" \in Results
    BY DEF UpsertResult, Results
  <2> QED
    BY <2>1, <2>2, <2>3 DEF SubmitOrder
<1> QED
  BY <1>2, <1>4, <1>5, <1>6 DEF TypeInv, TypeOK, JournalBase

LEMMA CancelTypes ==
  ASSUME TypeInv, NEW id \in Ids, CancelOrder(id)
  PROVE  TypeInv'
<1> DEFINE k == <<"CANCEL", id>>
<1>1. k \in Keys
  BY DEF Keys, Ops
<1>2. JournalBase'
  BY <1>1, BeginBase, UnchangedBase DEF CancelOrder, TypeInv, TypeOK, JournalBase
<1>3. map' \in [Ids -> Nat] /\ venue' \in Seq(Order) /\ wire' \subseteq Request
  BY DEF CancelOrder, TypeInv, TypeOK
<1>4. call' \in Call /\ out' \in Outcome /\ CallNamed'
  <2>1. CASE \E res \in Results : Return("CANCEL", res)
    BY <2>1, ReturnTypes DEF Ops
  <2>2. CASE \E res \in Results \cup {"PENDING"} : Start("CANCEL", id, 0, map[id], res)
    <3>1. map[id] \in Nat
      BY DEF TypeInv, TypeOK
    <3> QED
      BY <2>2, <3>1, StartTypes DEF Ops
  <2> QED
    BY <2>1, <2>2 DEF CancelOrder, Results
<1> QED
  BY <1>2, <1>3, <1>4 DEF TypeInv, TypeOK, JournalBase

LEMMA ReplaceTypes ==
  ASSUME TypeInv, NEW id \in Ids, NEW rel \in Ids, ReplaceOrder(id, rel)
  PROVE  TypeInv'
<1> DEFINE k == <<"REPLACE", id>>
<1>1. k \in Keys
  BY DEF Keys, Ops
<1>2. JournalBase'
  BY <1>1, BeginBase, UnchangedBase DEF ReplaceOrder, TypeInv, TypeOK, JournalBase, journalVars
<1>3. entries[k].vid \in Nat /\ map[id] \in Nat /\ Erase(map, id) \in [Ids -> Nat]
  BY <1>1, MapTypes DEF TypeInv, TypeOK, JournalTypeOK, Entry
<1>4. map' \in [Ids -> Nat]
  <2>1. Upsert(Erase(map, id), rel, entries[k].vid) \in [Ids -> Nat]
    BY <1>3, MapTypes
  <2> QED
    BY <2>1 DEF ReplaceOrder, TypeInv, TypeOK
<1>5. venue' \in Seq(Order) /\ wire' \subseteq Request
  BY DEF ReplaceOrder, TypeInv, TypeOK
<1>6. call' \in Call /\ out' \in Outcome /\ CallNamed'
  <2>1. CASE \E res \in Results : Return("REPLACE", res)
    BY <2>1, ReturnTypes DEF Ops
  <2>2. CASE Start("REPLACE", id, rel, map[id], "PENDING")
    BY <2>2, <1>3, StartTypes DEF Ops
  <2>3. UpsertResult(Erase(map, id), rel) \in Results
    BY DEF UpsertResult, Results
  <2> QED
    BY <2>1, <2>2, <2>3 DEF ReplaceOrder, Results
<1> QED
  BY <1>2, <1>4, <1>5, <1>6 DEF TypeInv, TypeOK, JournalBase

LEMMA RequestType ==
  ASSUME TypeInv, Sending
  PROVE  PendingRequest \in Request
  BY DEF TypeInv, TypeOK, CallNamed, Call, Sending, Idle, PendingRequest, Request

LEMMA CallKeyType ==
  ASSUME TypeInv, ~Idle
  PROVE  CallKey \in Keys
  BY DEF TypeInv, TypeOK, CallNamed, Call, Idle, CallKey, Keys

\* What an attempt does to the call: it goes on, or has a result.
LEMMA AttemptTypes ==
  ASSUME TypeInv, Sending, NEW res \in Results, NEW vid \in Nat
  PROVE  /\ AfterAttempt(res, vid) \in Call
         /\ AfterAttempt(res, vid).op = call.op
         /\ AfterAttempt(res, vid).id = call.id
         /\ AfterAttempt(res, vid).rel = call.rel
         /\ AfterAttempt(res, vid).target = call.target
         /\ \/ AfterAttempt(res, vid).res = "PENDING"
            \/ AfterAttempt(res, vid).res = res /\ AfterAttempt(res, vid).vid = vid
<1>1. call \in Call /\ call.res = "PENDING" /\ MaxAttempts \in Nat
  BY ConnectorAssumption DEF TypeInv, TypeOK, Sending
<1>2. CASE is_retryable(res) /\ call.attempt < MaxAttempts
  <2>1. AfterAttempt(res, vid) = [call EXCEPT !.attempt = @ + 1]
    BY <1>2 DEF AfterAttempt
  <2> QED
    BY <1>1, <1>2, <2>1 DEF Call
<1>3. CASE ~(is_retryable(res) /\ call.attempt < MaxAttempts)
  <2>1. AfterAttempt(res, vid) = [call EXCEPT !.res = res, !.vid = vid]
    BY <1>3 DEF AfterAttempt
  <2> QED
    BY <1>1, <2>1 DEF Call
<1> QED
  BY <1>2, <1>3

LEMMA AttemptStepTypes ==
  ASSUME TypeInv, Sending, NEW res \in Results, NEW vid \in Nat,
         call' = AfterAttempt(res, vid), UNCHANGED <<entries, log, map>>,
         venue' \in Seq(Order), wire' \subseteq Request, out' = NoOutcome
  PROVE  TypeInv'
<1>1. call' \in Call /\ CallNamed'
  BY AttemptTypes DEF TypeInv, CallNamed, Idle
<1>2. out' \in Outcome
  BY DEF NoOutcome, Outcome, Results
<1>3. JournalBase'
  BY UnchangedBase DEF TypeInv, TypeOK, JournalBase, journalVars
<1> QED
  BY <1>1, <1>2, <1>3 DEF TypeInv, TypeOK, JournalBase

LEMMA CallStepTypes ==
  ASSUME TypeInv, CallStep
  PROVE  TypeInv'
<1>1. CASE Served
  <2>1. PICK e \in Effects(PendingRequest) : venue' = e.orders /\ call' = AfterAttempt(e.res, e.vid)
    BY <1>1 DEF Served
  <2>2. Sending /\ UNCHANGED <<entries, log, map, wire>> /\ out' = NoOutcome
    BY <1>1 DEF Served
  <2>3. e.orders \in Seq(Order) /\ e.res \in Results /\ e.vid \in Nat
    BY <2>1, <2>2, RequestType, EffectsFacts DEF TypeInv, TypeOK, Results
  <2> QED
    BY <2>1, <2>2, <2>3, AttemptStepTypes DEF TypeInv, TypeOK
<1>2. CASE ServerError
  BY <1>2, AttemptStepTypes DEF ServerError, TypeInv, TypeOK, Results
<1>3. CASE Timeout
  <2>1. wire' \subseteq Request
    BY <1>3, RequestType DEF Timeout, TypeInv, TypeOK
  <2> QED
    BY <1>3, <2>1, AttemptStepTypes DEF Timeout, TypeInv, TypeOK, Results
<1>4. ASSUME \/ SubmitDone
             \/ CancelDone
             \/ ReplaceDone
      PROVE  TypeInv'
  <2>1. ~Idle /\ call.res \in Results /\ call.vid \in Nat /\ call.target \in Nat
        /\ call.id \in Ids /\ call.rel \in Ids \cup {0}
        /\ (call.op = "REPLACE" => call.rel \in Ids)
    BY <1>4 DEF SubmitDone, CancelDone, ReplaceDone, Done, Idle, TypeInv, TypeOK, Call, CallNamed
  <2>2. CallKey \in Keys /\ JournalBase
    BY <2>1, CallKeyType DEF TypeInv, TypeOK, JournalBase
  <2>3. JournalBase'
    BY <1>4, <2>1, <2>2, AckBase, FailBase DEF SubmitDone, CancelDone, ReplaceDone
  <2>4. map' \in [Ids -> Nat]
    <3>1. map \in [Ids -> Nat] /\ Erase(map, call.id) \in [Ids -> Nat]
      BY <2>1, MapTypes DEF TypeInv, TypeOK
    <3>2. Upsert(map, call.id, call.vid) \in [Ids -> Nat]
      BY <2>1, <3>1, MapTypes
    <3>3. call.op = "REPLACE" => Upsert(Erase(map, call.id), call.rel, call.vid) \in [Ids -> Nat]
      BY <2>1, <3>1, MapTypes
    <3> QED
      BY <1>4, <3>1, <3>2, <3>3 DEF SubmitDone, CancelDone, ReplaceDone, Done
  <2>5. venue' \in Seq(Order) /\ wire' \subseteq Request
    BY <1>4 DEF SubmitDone, CancelDone, ReplaceDone, TypeInv, TypeOK
  <2>6. \E op \in Ops, res \in Results : Return(op, res)
    BY <1>4, <2>1 DEF SubmitDone, CancelDone, ReplaceDone, Ops, Results, UpsertResult
  <2>7. call' \in Call /\ out' \in Outcome /\ CallNamed'
    BY <2>6, ReturnTypes
  <2> QED
    BY <2>3, <2>4, <2>5, <2>7 DEF TypeInv, TypeOK, JournalBase
<1> QED
  BY <1>1, <1>2, <1>3, <1>4 DEF CallStep

LEMMA CloseAllFacts ==
  ASSUME venue \in Seq(Order)
  PROVE  LET all == [v \in 1..Len(venue) |-> [venue[v] EXCEPT !.status = "CLOSED"]]
         IN  all \in Seq(Order) /\ VenueGrows(venue, all)
<1> DEFINE all == [v \in 1..Len(venue) |-> [venue[v] EXCEPT !.status = "CLOSED"]]
<1>1. \A v \in 1..Len(venue) : venue[v] \in Order
  OBVIOUS
<1>2. \A v \in 1..Len(venue) : /\ all[v] \in Order
                              /\ all[v].key = venue[v].key
                              /\ all[v].status = "CLOSED"
  BY <1>1 DEF Order
<1>3. all \in Seq(Order) /\ Len(all) = Len(venue)
  BY <1>2
<1>4. VenueGrows(venue, all)
  BY <1>2, <1>3 DEF VenueGrows
<1> QED
  BY <1>3, <1>4

\* Whoever moves, the venue keeps its books.
LEMMA VenueStep ==
  ASSUME TypeInv, Next
  PROVE  venue' \in Seq(Order) /\ VenueGrows(venue, venue')
<1>0. venue \in Seq(Order) /\ VenueGrows(venue, venue)
  BY DEF TypeInv, TypeOK, VenueGrows
<1>1. CASE Served
  <2>1. PICK e \in Effects(PendingRequest) : venue' = e.orders
    BY <1>1 DEF Served
  <2> QED
    BY <1>1, <1>0, <2>1, RequestType, EffectsFacts DEF Served
<1>2. CASE VenueClose
  BY <1>0, <1>2, ClosedFacts DEF VenueClose
<1>3. CASE LateArrival
  <2>1. PICK r \in wire : \E e \in Effects(r) : venue' = e.orders
    BY <1>3 DEF LateArrival
  <2>2. r \in Request
    BY DEF TypeInv, TypeOK
  <2> QED
    BY <1>0, <2>1, <2>2, EffectsFacts
<1>4. CASE CancelAll
  BY <1>0, <1>4, CloseAllFacts DEF CancelAll
<1>5. CASE venue' = venue
  BY <1>0, <1>5
<1> QED
  BY <1>1, <1>2, <1>3, <1>4, <1>5
  DEF Next, CallStep, SubmitOrder, CancelOrder, ReplaceOrder, ServerError, Timeout,
      SubmitDone, CancelDone, ReplaceDone, WireLoss, Reconcile, CrashRestart

LEMMA TypeInvStep == TypeInv /\ [Next]_vars => TypeInv'
<1> SUFFICES ASSUME TypeInv, [Next]_vars PROVE TypeInv'
  OBVIOUS
<1>1. CASE \E id \in Ids : SubmitOrder(id) \/ CancelOrder(id)
  BY <1>1, SubmitTypes, CancelTypes
<1>2. CASE \E id, rel \in Ids : ReplaceOrder(id, rel)
  BY <1>2, ReplaceTypes
<1>3. CASE CallStep
  BY <1>3, CallStepTypes
<1>4. CASE VenueClose \/ LateArrival \/ WireLoss \/ CancelAll
  <2>1. venue' \in Seq(Order)
    BY <1>4, VenueStep DEF Next
  <2>2. JournalBase'
    BY <1>4, UnchangedBase
    DEF TypeInv, TypeOK, JournalBase, journalVars, VenueClose, LateArrival, WireLoss, CancelAll
  <2>3. /\ map' = map /\ call' = call /\ out' = NoOutcome
        /\ wire' \subseteq wire
    BY <1>4 DEF VenueClose, LateArrival, WireLoss, CancelAll
  <2> QED
    BY <2>1, <2>2, <2>3
    DEF TypeInv, TypeOK, JournalBase, CallNamed, Idle, NoOutcome, Outcome, Results
<1>5. CASE Reconcile \/ CrashRestart
  <2>1. JournalBase'
    BY <1>5, RecoverBase DEF TypeInv, TypeOK, JournalBase, Reconcile, CrashRestart
  <2>2. /\ map' = [i \in Ids |-> 0] /\ UNCHANGED <<venue, wire>> /\ out' = NoOutcome
        /\ (call' = call \/ call' = NoCall)
    BY <1>5 DEF Reconcile, CrashRestart
  <2>3. NoCall \in Call
    BY ConnectorAssumption DEF NoCall, Call
  <2> QED
    BY <2>1, <2>2, <2>3
    DEF TypeInv, TypeOK, JournalBase, CallNamed, Idle, NoOutcome, NoCall, Outcome, Results
<1>6. CASE UNCHANGED vars
  <2>1. JournalBase'
    BY <1>6, UnchangedBase DEF vars, journalVars, TypeInv, TypeOK, JournalBase
  <2> QED
    BY <1>6, <2>1 DEF vars, TypeInv, TypeOK, JournalBase, CallNamed, Idle
<1> QED
  BY <1>1, <1>2, <1>3, <1>4, <1>5, <1>6 DEF Next

LEMMA TypeInvInit == Init => TypeInv
<1> SUFFICES ASSUME Init PROVE TypeInv
  OBVIOUS
<1>1. NoEntry \in Entry /\ NoCall \in Call /\ NoOutcome \in Outcome
  BY ConnectorAssumption DEF NoEntry, Entry, States, NoCall, Call, NoOutcome, Outcome, Results
<1>2. LogOrdered(log)
  BY DEF Init, JournalInit, LogOrdered, KeysOf, Positions
<1> QED
  BY <1>1, <1>2 DEF Init, JournalInit, TypeInv, TypeOK, JournalTypeOK, CallNamed, Idle, NoCall

LEMMA TypeInvariant == Spec => []TypeInv
<1>1. TypeInv /\ [Next]_vars => TypeInv'
  BY TypeInvStep
<1> QED
  BY TypeInvInit, <1>1, PTL DEF Spec

\* Type correctness: no sequence of calls, replies, timeouts and crashes puts a
\* value of the wrong shape into the journal, its file or the order map
\* (live_connector_base.hpp:62-186).
THEOREM TypeCorrect == Spec => []TypeOK
<1>1. TypeInv => TypeOK
  BY DEF TypeInv
<1> QED
  BY TypeInvariant, <1>1, PTL

-----------------------------------------------------------------------------
(* How one step may move the journal *)

\* Entry e of key k tells the truth about these orders.
TrueAt(orders, k, e) ==
  e.state = "ACKED" =>
    /\ k[1] = "SUBMIT" => e.vid \in 1..Len(orders) /\ orders[e.vid].key = k[2]
    /\ k[1] = "CANCEL" => e.vid \in 1..Len(orders) /\ orders[e.vid].status = "CLOSED"
    /\ k[1] = "REPLACE" => e.vid \in 1..Len(orders)

\* A successful result that is not journalled yet is true as well.
CallTrue ==
  ~Idle /\ call.res = "OK" =>
    /\ call.op = "SUBMIT" => call.vid \in 1..Len(venue) /\ venue[call.vid].key = call.id
    /\ call.op = "CANCEL" => call.target \in 1..Len(venue) /\ venue[call.target].status = "CLOSED"
    /\ call.op = "REPLACE" => call.vid \in 1..Len(venue)

Other(op) == IF op = "CANCEL" THEN "REPLACE" ELSE "CANCEL"

\* Key k is opened with entry e ...
Opens(k, e) ==
  /\ HasSlot(k) /\ Store(k, e)
  /\ entries[k].state \in {"NONE", "FAILED"} /\ e.state = "IN_FLIGHT"
  /\ k[1] \in {"CANCEL", "REPLACE"} => ~Open(<<Other(k[1]), k[2]>>)

\* ... or settled with it.
Settles(k, e) ==
  /\ Store(k, e)
  /\ entries[k].state = "IN_FLIGHT" /\ e.state \in {"ACKED", "FAILED"}
  /\ TrueAt(venue, k, e)

JournalMove ==
  \/ UNCHANGED journalVars
  \/ Recover /\ map' = [i \in Ids |-> 0]
  \/ \E k \in Keys, e \in Entry : Opens(k, e) \/ Settles(k, e)

\* begin() opens the key or leaves the journal alone; in the end the key is in
\* flight if that is what it answers.
LEMMA BeginMove ==
  ASSUME JournalBase, NEW k \in Keys, NEW rel \in Ids \cup {0}, Begin(k, rel),
         k[1] \in {"CANCEL", "REPLACE"} => ~Open(<<Other(k[1]), k[2]>>)
  PROVE  /\ UNCHANGED journalVars \/ \E e \in Entry : Opens(k, e)
         /\ BeginDecision(k) = "IN_FLIGHT" => entries'[k].state = "IN_FLIGHT"
<1>0. entries \in [Keys -> Entry]
  BY DEF JournalBase, JournalTypeOK
<1>1. CASE BeginWrites(k)
  <2> DEFINE e == [entries[k] EXCEPT !.state = "IN_FLIGHT", !.rel = rel]
  <2>1. e \in Entry /\ e.state = "IN_FLIGHT"
    BY <1>0 DEF Entry, States
  <2>2. Store(k, e) /\ entries'[k] = e
    BY <1>0, <1>1 DEF Begin, Store
  <2>3. Opens(k, e)
    BY <1>1, <2>1, <2>2 DEF Opens, BeginWrites
  <2> QED
    BY <2>1, <2>2, <2>3
<1>2. CASE ~BeginWrites(k)
  <2>1. UNCHANGED journalVars
    BY <1>2 DEF Begin
  <2>2. entries[k].state \in States
    BY <1>0 DEF Entry
  <2> QED
    BY <1>2, <2>1, <2>2 DEF journalVars, BeginDecision, BeginWrites, States
<1> QED
  BY <1>1, <1>2

LEMMA StartKey ==
  ASSUME NEW op \in Ops, NEW id, NEW rel, NEW target, NEW res, Start(op, id, rel, target, res)
  PROVE  /\ call'.op = op /\ call'.id = id /\ call'.res = res
         /\ call'.target = target /\ CallKey' = <<op, id>>
  BY DEF Start, NoCall, CallKey

LEMMA ReturnIdle ==
  ASSUME NEW op, NEW res, Return(op, res)
  PROVE  Idle'
  BY DEF Return, NoCall, Idle

CallSound == CallInFlight /\ CallTrue

\* The calls up to their first attempt.
LEMMA OrderCallMove ==
  ASSUME TypeInv, NEW id \in Ids, NEW rel \in Ids,
         SubmitOrder(id) \/ CancelOrder(id) \/ ReplaceOrder(id, rel)
  PROVE  JournalMove /\ CallSound'
<1>1. JournalBase
  BY DEF TypeInv, TypeOK, JournalBase
<1>2. CASE SubmitOrder(id)
  <2> DEFINE k == <<"SUBMIT", id>>
  <2>1. k \in Keys /\ Begin(k, 0) /\ k[1] = "SUBMIT"
    BY <1>2 DEF SubmitOrder, Keys, Ops
  <2>2. /\ UNCHANGED journalVars \/ \E e \in Entry : Opens(k, e)
        /\ BeginDecision(k) = "IN_FLIGHT" => entries'[k].state = "IN_FLIGHT"
    BY <1>1, <2>1, BeginMove
  <2>3. JournalMove
    BY <2>1, <2>2 DEF JournalMove
  <2>4. CASE BeginDecision(k) # "IN_FLIGHT"
    <3>1. Idle'
      BY <1>2, <2>4, ReturnIdle DEF SubmitOrder
    <3> QED
      BY <2>3, <3>1 DEF CallSound, CallInFlight, CallTrue
  <2>5. CASE BeginDecision(k) = "IN_FLIGHT"
    <3>1. Start("SUBMIT", id, 0, 0, "PENDING")
      BY <1>2, <2>5 DEF SubmitOrder
    <3>2. CallKey' = k /\ call'.res = "PENDING"
      BY <3>1, StartKey DEF Ops
    <3> QED
      BY <2>2, <2>3, <2>5, <3>2 DEF CallSound, CallInFlight, CallTrue
  <2> QED
    BY <2>4, <2>5
<1>3. CASE CancelOrder(id)
  <2> DEFINE k == <<"CANCEL", id>>
  <2>1. k \in Keys /\ k[1] = "CANCEL" /\ k[2] = id
    BY DEF Keys, Ops
  <2>2. CASE UNCHANGED journalVars /\ \E res : Return("CANCEL", res)
    <3>1. Idle'
      BY <2>2, ReturnIdle
    <3> QED
      BY <2>2, <3>1 DEF JournalMove, CallSound, CallInFlight, CallTrue
  <2>3. CASE /\ ~CancelRefused(id) /\ BeginDecision(k) = "IN_FLIGHT" /\ Begin(k, 0)
             /\ \E res \in {"PENDING", "ERROR_INVALID_ORDER"} : Start("CANCEL", id, 0, map[id], res)
    <3>1. ~Open(<<Other(k[1]), k[2]>>)
      BY <2>1, <2>3 DEF CancelRefused, Other
    <3>2. /\ UNCHANGED journalVars \/ \E e \in Entry : Opens(k, e)
          /\ entries'[k].state = "IN_FLIGHT"
      BY <1>1, <2>1, <2>3, <3>1, BeginMove
    <3>3. CallKey' = k /\ call'.res \in {"PENDING", "ERROR_INVALID_ORDER"}
      BY <2>3, StartKey DEF Ops
    <3> QED
      BY <2>1, <3>2, <3>3 DEF JournalMove, CallSound, CallInFlight, CallTrue
  <2> QED
    BY <1>3, <2>2, <2>3 DEF CancelOrder
<1>4. CASE ReplaceOrder(id, rel)
  <2> DEFINE k == <<"REPLACE", id>>
  <2>1. k \in Keys /\ k[1] = "REPLACE" /\ k[2] = id
    BY DEF Keys, Ops
  <2>2. CASE UNCHANGED journalVars /\ \E res : Return("REPLACE", res)
    <3>1. Idle'
      BY <2>2, ReturnIdle
    <3> QED
      BY <2>2, <3>1 DEF JournalMove, CallSound, CallInFlight, CallTrue
  <2>3. CASE /\ ~ReplaceRefused(id) /\ BeginDecision(k) = "IN_FLIGHT" /\ Begin(k, rel)
             /\ Start("REPLACE", id, rel, map[id], "PENDING")
    <3>1. ~Open(<<Other(k[1]), k[2]>>)
      BY <2>1, <2>3 DEF ReplaceRefused, Other
    <3>2. /\ UNCHANGED journalVars \/ \E e \in Entry : Opens(k, e)
          /\ entries'[k].state = "IN_FLIGHT"
      BY <1>1, <2>1, <2>3, <3>1, BeginMove
    <3>3. CallKey' = k /\ call'.res = "PENDING"
      BY <2>3, StartKey DEF Ops
    <3> QED
      BY <2>1, <3>2, <3>3 DEF JournalMove, CallSound, CallInFlight, CallTrue
  <2> QED
    BY <1>4, <2>2, <2>3 DEF ReplaceOrder, journalVars
<1> QED
  BY <1>2, <1>3, <1>4

LEMMA CallTrueGrows ==
  ASSUME TypeInv, CallSound, VenueGrows(venue, venue'), UNCHANGED <<entries, call>>
  PROVE  CallSound'
<1>1. Len(venue) \in Nat /\ (venue' \in Seq(Order) => Len(venue') \in Nat)
  BY DEF TypeInv, TypeOK
<1>2. CallInFlight'
  BY DEF CallSound, CallInFlight, Idle, CallKey
<1>3. CallTrue'
  BY <1>1 DEF CallSound, CallTrue, VenueGrows, Idle
<1> QED
  BY <1>2, <1>3 DEF CallSound

\* One HTTP attempt: the journal rests, and a success is a true one.
LEMMA AttemptMove ==
  ASSUME TypeInv, TypeInv', CallSound, Served \/ ServerError \/ Timeout
  PROVE  JournalMove /\ CallSound'
<1>1. UNCHANGED journalVars /\ JournalMove /\ Sending
  BY DEF Served, ServerError, Timeout, journalVars, JournalMove
<1>2. CASE ServerError \/ Timeout
  <2>1. call' = AfterAttempt("ERROR_UNKNOWN", 0)
    BY <1>2 DEF ServerError, Timeout
  <2>2. call'.op = call.op /\ call'.id = call.id /\ call'.res # "OK"
    BY <1>1, <2>1, AttemptTypes DEF Results
  <2> QED
    BY <1>1, <2>2 DEF CallSound, CallInFlight, CallTrue, Idle, CallKey, journalVars
<1>3. CASE Served
  <2>1. PICK e \in Effects(PendingRequest) : venue' = e.orders /\ call' = AfterAttempt(e.res, e.vid)
    BY <1>3 DEF Served
  <2>2. /\ e.res \in Results /\ e.vid \in Nat
        /\ ReplyIsTrue(PendingRequest, e)
    BY <1>1, <2>1, RequestType, EffectsFacts DEF TypeInv, TypeOK, Results
  <2>3. /\ call'.op = call.op /\ call'.id = call.id /\ call'.target = call.target
        /\ call'.res = "PENDING" \/ (call'.res = e.res /\ call'.vid = e.vid)
    BY <1>1, <2>1, <2>2, AttemptTypes
  <2>4. CallInFlight'
    BY <1>1, <2>3 DEF CallSound, CallInFlight, Idle, CallKey, journalVars
  <2>5. CallTrue'
    BY <2>1, <2>2, <2>3 DEF CallTrue, ReplyIsTrue, PendingRequest, Idle
  <2> QED
    BY <1>1, <2>4, <2>5 DEF CallSound
<1> QED
  BY <1>2, <1>3

\* The end of a call settles its key.
LEMMA DoneMove ==
  ASSUME TypeInv, CallSound, SubmitDone \/ CancelDone \/ ReplaceDone
  PROVE  JournalMove /\ CallSound'
<1>1. ~Idle /\ CallKey \in Keys /\ entries[CallKey].state = "IN_FLIGHT"
  BY CallKeyType DEF SubmitDone, CancelDone, ReplaceDone, Done, Idle, CallSound, CallInFlight
<1>2. CallSound'
  <2>1. Idle'
    BY ReturnIdle DEF SubmitDone, CancelDone, ReplaceDone
  <2> QED
    BY <2>1 DEF CallSound, CallInFlight, CallTrue
<1>3. entries \in [Keys -> Entry] /\ call \in Call /\ CallNamed
  BY DEF TypeInv, TypeOK, JournalTypeOK
<1>4. ASSUME NEW rel \in Ids \cup {0}, Fail(CallKey, rel)
      PROVE  JournalMove
  <2> DEFINE e == [entries[CallKey] EXCEPT !.state = "FAILED", !.rel = rel]
  <2>1. e \in Entry /\ e.state = "FAILED"
    BY <1>1, <1>3 DEF Entry, States
  <2>2. Settles(CallKey, e)
    BY <1>1, <1>4, <2>1 DEF Fail, Settles, TrueAt
  <2> QED
    BY <1>1, <2>1, <2>2 DEF JournalMove
<1>5. ASSUME NEW vid \in Nat, NEW rel \in Ids \cup {0}, Ack(CallKey, vid, rel),
             TrueAt(venue, CallKey, [state |-> "ACKED", rel |-> rel, vid |-> vid])
      PROVE  JournalMove
  <2> DEFINE e == [state |-> "ACKED", rel |-> rel, vid |-> vid]
  <2>1. e \in Entry /\ e.state = "ACKED"
    BY DEF Entry, States
  <2>2. Settles(CallKey, e)
    BY <1>1, <1>5, <2>1 DEF Ack, Settles
  <2> QED
    BY <1>1, <2>1, <2>2 DEF JournalMove
<1>6. call.vid \in Nat /\ call.target \in Nat /\ call.rel \in Ids \cup {0}
  BY <1>3 DEF Call
<1>7. CASE SubmitDone
  <2>1. CASE call.res # "OK"
    BY <1>2, <1>4, <1>7, <2>1 DEF SubmitDone
  <2>2. CASE call.res = "OK"
    <3>1. TrueAt(venue, CallKey, [state |-> "ACKED", rel |-> 0, vid |-> call.vid])
      BY <1>1, <1>7, <2>2 DEF SubmitDone, Done, TrueAt, CallKey, CallSound, CallTrue
    <3> QED
      BY <1>2, <1>5, <1>6, <1>7, <2>2, <3>1 DEF SubmitDone
  <2> QED
    BY <2>1, <2>2
<1>8. CASE CancelDone
  <2>1. CASE call.res # "OK"
    BY <1>2, <1>4, <1>8, <2>1 DEF CancelDone
  <2>2. CASE call.res = "OK"
    <3>1. TrueAt(venue, CallKey, [state |-> "ACKED", rel |-> 0, vid |-> call.target])
      BY <1>1, <1>8, <2>2 DEF CancelDone, Done, TrueAt, CallKey, CallSound, CallTrue
    <3> QED
      BY <1>2, <1>5, <1>6, <1>8, <2>2, <3>1 DEF CancelDone
  <2> QED
    BY <2>1, <2>2
<1>9. CASE ReplaceDone
  <2>1. CASE call.res # "OK"
    BY <1>2, <1>4, <1>6, <1>9, <2>1 DEF ReplaceDone
  <2>2. CASE call.res = "OK"
    <3>1. TrueAt(venue, CallKey, [state |-> "ACKED", rel |-> call.rel, vid |-> call.vid])
      BY <1>1, <1>9, <2>2 DEF ReplaceDone, Done, TrueAt, CallKey, CallSound, CallTrue
    <3> QED
      BY <1>2, <1>5, <1>6, <1>9, <2>2, <3>1 DEF ReplaceDone
  <2> QED
    BY <2>1, <2>2
<1> QED
  BY <1>2, <1>7, <1>8, <1>9

LEMMA NextMove ==
  ASSUME TypeInv, TypeInv', CallSound, Next
  PROVE  JournalMove /\ CallSound'
<1>1. CASE \E id \in Ids : SubmitOrder(id) \/ CancelOrder(id)
  BY <1>1, OrderCallMove
<1>2. CASE \E id, rel \in Ids : ReplaceOrder(id, rel)
  BY <1>2, OrderCallMove
<1>3. CASE CallStep
  BY <1>3, AttemptMove, DoneMove DEF CallStep
<1>4. CASE VenueClose \/ LateArrival \/ WireLoss \/ CancelAll
  <2>1. UNCHANGED journalVars /\ UNCHANGED <<entries, call>>
    BY <1>4 DEF VenueClose, LateArrival, WireLoss, CancelAll, journalVars
  <2>2. VenueGrows(venue, venue')
    BY VenueStep
  <2> QED
    BY <2>1, <2>2, CallTrueGrows DEF JournalMove
<1>5. CASE Reconcile \/ CrashRestart
  <2>1. Idle' /\ Recover /\ map' = [i \in Ids |-> 0]
    BY <1>5 DEF Reconcile, CrashRestart, Idle, NoCall
  <2> QED
    BY <2>1 DEF JournalMove, CallSound, CallInFlight, CallTrue
<1> QED
  BY <1>1, <1>2, <1>3, <1>4, <1>5 DEF Next

-----------------------------------------------------------------------------
(* What is acknowledged is true, whether or not the file can be written *)

JournalTrue ==
  /\ \A k \in Keys : TrueAt(venue, k, entries[k])
  /\ \A i \in 1..Len(log) : TrueAt(venue, log[i].key, log[i].entry)

TruthInv == TypeInv /\ CallSound /\ JournalTrue

LEMMA TrueAtGrows ==
  ASSUME NEW o \in Seq(Order), NEW n \in Seq(Order), VenueGrows(o, n),
         NEW k, NEW e, TrueAt(o, k, e)
  PROVE  TrueAt(n, k, e)
  BY DEF TrueAt, VenueGrows

LEMMA StoreTrue ==
  ASSUME TypeInv, NEW k \in Keys, NEW e \in Entry, Store(k, e),
         JournalTrue, TrueAt(venue, k, e), venue' \in Seq(Order), VenueGrows(venue, venue')
  PROVE  JournalTrue'
<1>1. venue \in Seq(Order) /\ entries \in [Keys -> Entry] /\ log \in Seq(LogRecord)
  BY DEF TypeInv, TypeOK, JournalTypeOK
<1>2. \A j \in Keys : TrueAt(venue', j, entries[j])
  BY <1>1, TrueAtGrows DEF JournalTrue
<1>3. \A i \in 1..Len(log) : TrueAt(venue', log[i].key, log[i].entry)
  BY <1>1, TrueAtGrows DEF JournalTrue
<1>4. TrueAt(venue', k, e)
  BY <1>1, TrueAtGrows
<1>5. \A j \in Keys : TrueAt(venue', j, entries'[j])
  BY <1>1, <1>2, <1>4 DEF Store
<1>6. \A i \in 1..Len(log') : TrueAt(venue', log'[i].key, log'[i].entry)
  <2>1. CASE log' = log
    BY <1>3, <2>1
  <2>2. CASE log' = Append(log, [key |-> k, entry |-> e])
    <3>1. /\ Len(log') = Len(log) + 1 /\ Len(log) \in Nat
          /\ log'[Len(log) + 1] = [key |-> k, entry |-> e]
          /\ \A i \in 1..Len(log) : log'[i] = log[i]
      BY <1>1, <2>2
    <3> QED
      BY <1>3, <1>4, <3>1
  <2> QED
    BY <2>1, <2>2 DEF Store, AppendRecord
<1> QED
  BY <1>5, <1>6 DEF JournalTrue, TrueAt

LEMMA RecoverTrue ==
  ASSUME TypeInv, JournalTrue, Recover, venue' \in Seq(Order), VenueGrows(venue, venue')
  PROVE  JournalTrue'
<1>1. venue \in Seq(Order) /\ log \in Seq(LogRecord) /\ LogOrdered(log)
  BY DEF TypeInv, TypeOK, JournalTypeOK
<1>2. \A i \in 1..Len(log) : TrueAt(venue', log[i].key, log[i].entry)
  BY <1>1, TrueAtGrows DEF JournalTrue
<1>3. ASSUME NEW k \in Keys PROVE TrueAt(venue', k, Replay(log)[k])
  <2>1. CASE GetsSlot(log, k)
    <3>1. k \in KeysOf(log) /\ Replay(log)[k] = log[LastAt(log, k)].entry
      BY <2>1 DEF GetsSlot, Replay
    <3>2. LastAt(log, k) \in 1..Len(log) /\ log[LastAt(log, k)].key = k
      BY <1>1, <3>1, LogOrderedAt DEF Positions
    <3> QED
      BY <1>2, <3>1, <3>2
  <2>2. CASE ~GetsSlot(log, k)
    BY <2>2 DEF Replay, NoEntry, TrueAt
  <2> QED
    BY <2>1, <2>2
<1> QED
  BY <1>2, <1>3 DEF Recover, JournalTrue, TrueAt

LEMMA TruthStep == TruthInv /\ [Next]_vars => TruthInv'
<1> SUFFICES ASSUME TruthInv, [Next]_vars PROVE TruthInv'
  OBVIOUS
<1>1. TypeInv'
  BY TypeInvStep DEF TruthInv
<1>2. CASE Next
  <2>1. JournalMove /\ CallSound'
    BY <1>1, <1>2, NextMove DEF TruthInv
  <2>2. venue' \in Seq(Order) /\ VenueGrows(venue, venue')
    BY <1>2, VenueStep DEF TruthInv
  <2>3. CASE UNCHANGED journalVars
    <3>1. venue \in Seq(Order)
      BY DEF TruthInv, TypeInv, TypeOK
    <3>2. /\ \A k \in Keys : TrueAt(venue', k, entries[k])
          /\ \A i \in 1..Len(log) : TrueAt(venue', log[i].key, log[i].entry)
      BY <2>2, <3>1, TrueAtGrows DEF TruthInv, JournalTrue
    <3>3. JournalTrue'
      BY <2>3, <3>2 DEF journalVars, JournalTrue, TrueAt
    <3> QED
      BY <1>1, <2>1, <3>3 DEF TruthInv
  <2>4. CASE Recover
    BY <1>1, <2>1, <2>2, <2>4, RecoverTrue DEF TruthInv
  <2>5. CASE \E k \in Keys, e \in Entry : Opens(k, e) \/ Settles(k, e)
    <3>1. PICK k \in Keys, e \in Entry : Store(k, e) /\ TrueAt(venue, k, e)
      BY <2>5 DEF Opens, Settles, TrueAt
    <3> QED
      BY <1>1, <2>1, <2>2, <3>1, StoreTrue DEF TruthInv
  <2> QED
    BY <2>1, <2>3, <2>4, <2>5 DEF JournalMove
<1>3. CASE UNCHANGED vars
  BY <1>1, <1>3
  DEF vars, TruthInv, CallSound, CallInFlight, CallTrue, Idle, CallKey, JournalTrue, TrueAt
<1> QED
  BY <1>2, <1>3

LEMMA TruthInit == Init => TruthInv
<1> SUFFICES ASSUME Init PROVE TruthInv
  OBVIOUS
<1>1. JournalTrue
  BY DEF Init, JournalInit, JournalTrue, TrueAt, NoEntry
<1>2. CallSound
  BY DEF Init, NoCall, CallSound, CallInFlight, CallTrue, Idle
<1> QED
  BY <1>1, <1>2, TypeInvInit DEF TruthInv

LEMMA TruthInvariant == Spec => []TruthInv
BY TruthInit, TruthStep, PTL DEF Spec

\* A submit that the journal, or any record of its file, holds as acknowledged
\* is an order the venue accepted under that client id - even when appends to
\* the file fail (live_connector_base.hpp:84).
THEOREM AckedSubmitsAreReal == Spec => []AckedSubmitIsReal
<1>1. TruthInv => AckedSubmitIsReal
  BY DEF TruthInv, JournalTrue, TrueAt, AckedSubmitIsReal, SubmitIsReal
<1> QED
  BY <1>1, TruthInvariant, PTL

\* A cancel that the journal, or any record of its file, holds as acknowledged
\* names an order that is closed and stays closed
\* (live_connector_base.hpp:118).
THEOREM AckedCancelsAreDead == Spec => []AckedCancelIsDead
<1>1. TruthInv => AckedCancelIsDead
  BY DEF TruthInv, JournalTrue, TrueAt, AckedCancelIsDead, CancelIsDead
<1> QED
  BY <1>1, TruthInvariant, PTL

-----------------------------------------------------------------------------
(* The order map only names orders the journal can account for *)

\* A venue id that enters the map comes out of an acknowledged entry.
LEMMA MapMove ==
  ASSUME TruthInv, Next, NEW i \in Ids, map'[i] # 0, map'[i] # map[i]
  PROVE  \E k \in Keys : /\ k[1] \in {"SUBMIT", "REPLACE"}
                         /\ entries'[k].state = "ACKED" /\ entries'[k].vid = map'[i]
<1>1. /\ map \in [Ids -> Nat] /\ entries \in [Keys -> Entry]
      /\ call \in Call /\ CallNamed
  BY DEF TruthInv, TypeInv, TypeOK, JournalTypeOK
<1>2. ASSUME NEW m \in [Ids -> Nat], NEW j \in Ids, NEW v \in Nat,
             m = map \/ \E x \in Ids : m = Erase(map, x), map' = Upsert(m, j, v)
      PROVE  map'[i] = v
  BY <1>1, <1>2 DEF Upsert, Erase
<1>3. ASSUME NEW k \in Keys, BeginDecision(k) = "ACKED", entries' = entries
      PROVE  entries'[k].state = "ACKED" /\ entries[k].vid \in Nat
  BY <1>1, <1>3 DEF BeginDecision, Entry
<1>4. ASSUME NEW vid \in Nat, NEW rel \in Ids \cup {0}, CallKey \in Keys, Ack(CallKey, vid, rel)
      PROVE  entries'[CallKey].state = "ACKED" /\ entries'[CallKey].vid = vid
  BY <1>1, <1>4 DEF Ack, Store
<1>5. ASSUME NEW id \in Ids, SubmitOrder(id)
      PROVE  LET k == <<"SUBMIT", id>>
             IN  entries'[k].state = "ACKED" /\ entries'[k].vid = map'[i]
  <2> DEFINE k == <<"SUBMIT", id>>
  <2>1. k \in Keys
    BY DEF Keys, Ops
  <2>2. BeginDecision(k) = "ACKED" /\ map' = Upsert(map, id, entries[k].vid)
    BY <1>5 DEF SubmitOrder
  <2>3. entries' = entries
    BY <1>5, <2>2 DEF SubmitOrder, Begin, BeginDecision, BeginWrites, journalVars
  <2> QED
    BY <1>1, <1>2, <1>3, <2>1, <2>2, <2>3
<1>6. ASSUME NEW id \in Ids, NEW rel \in Ids, ReplaceOrder(id, rel)
      PROVE  LET k == <<"REPLACE", id>>
             IN  entries'[k].state = "ACKED" /\ entries'[k].vid = map'[i]
  <2> DEFINE k == <<"REPLACE", id>>
  <2>1. k \in Keys
    BY DEF Keys, Ops
  <2>2. /\ BeginDecision(k) = "ACKED" /\ entries' = entries
        /\ map' = Upsert(Erase(map, id), rel, entries[k].vid)
    BY <1>6 DEF ReplaceOrder, journalVars
  <2>3. Erase(map, id) \in [Ids -> Nat]
    BY <1>1 DEF Erase
  <2> QED
    BY <1>2, <1>3, <2>1, <2>2, <2>3
<1>7. CASE SubmitDone
  <2>1. call.op = "SUBMIT" /\ CallKey \in Keys /\ CallKey[1] = "SUBMIT"
    BY <1>1, <1>7 DEF SubmitDone, Done, CallKey, CallNamed, Idle, Keys, Ops
  <2>2. Ack(CallKey, call.vid, 0) /\ map' = Upsert(map, call.id, call.vid)
    BY <1>7 DEF SubmitDone
  <2>3. call.vid \in Nat /\ call.id \in Ids
    BY <1>1, <2>1 DEF Call, CallNamed, Idle
  <2>4. map'[i] = call.vid
    BY <1>1, <1>2, <2>2, <2>3
  <2> QED
    BY <1>4, <2>1, <2>2, <2>3, <2>4
<1>8. CASE ReplaceDone
  <2>1. call.op = "REPLACE" /\ CallKey \in Keys /\ CallKey[1] = "REPLACE"
    BY <1>1, <1>8 DEF ReplaceDone, Done, CallKey, CallNamed, Idle, Keys, Ops
  <2>2. /\ Ack(CallKey, call.vid, call.rel)
        /\ map' = Upsert(Erase(map, call.id), call.rel, call.vid)
    BY <1>8 DEF ReplaceDone
  <2>3. call.vid \in Nat /\ call.id \in Ids /\ call.rel \in Ids
    BY <1>1, <2>1 DEF Call, CallNamed, Idle
  <2>4. Erase(map, call.id) \in [Ids -> Nat]
    BY <1>1 DEF Erase
  <2>5. map'[i] = call.vid
    BY <1>2, <2>2, <2>3, <2>4
  <2> QED
    BY <1>4, <2>1, <2>2, <2>3, <2>5
<1>9. CASE CancelDone
  <2>1. map' = map \/ map' = Erase(map, call.id)
    BY <1>9 DEF CancelDone
  <2> QED
    BY <1>1, <2>1 DEF Erase
<1>10. CASE map' = map \/ map' = [j \in Ids |-> 0]
  BY <1>10
<1>11. ASSUME NEW id \in Ids PROVE <<"SUBMIT", id>> \in Keys /\ <<"REPLACE", id>> \in Keys
  BY DEF Keys, Ops
<1>12. CASE \E id \in Ids : SubmitOrder(id)
  BY <1>5, <1>11, <1>12
<1>13. CASE \E id, rel \in Ids : ReplaceOrder(id, rel)
  BY <1>6, <1>11, <1>13
<1> QED
  BY <1>7, <1>8, <1>9, <1>10, <1>12, <1>13
  DEF Next, CallStep, CancelOrder, Served, ServerError, Timeout, VenueClose, LateArrival,
      WireLoss, CancelAll, Reconcile, CrashRestart

\* The inductive invariant: an entry, once acknowledged, leaves only when
\* recovery replaces all of them, and that is when the map is emptied.
MapInv == TruthInv /\ MapIsBacked

LEMMA MapStep == MapInv /\ [Next]_vars => MapInv'
<1> SUFFICES ASSUME MapInv, [Next]_vars PROVE MapInv'
  OBVIOUS
<1>1. TruthInv'
  BY TruthStep DEF MapInv
<1>2. CASE UNCHANGED vars
  BY <1>1, <1>2 DEF vars, MapInv, MapIsBacked, Mapped
<1>3. CASE Next
  <2>1. JournalMove
    BY <1>1, <1>3, NextMove DEF MapInv, TruthInv
  <2>2. CASE map' = [i \in Ids |-> 0]
    BY <1>1, <2>2 DEF MapInv, MapIsBacked, Mapped
  <2>3. CASE \/ UNCHANGED journalVars
             \/ \E k \in Keys, e \in Entry : Opens(k, e) \/ Settles(k, e)
    <3>1. entries \in [Keys -> Entry]
      BY DEF MapInv, TruthInv, TypeInv, TypeOK, JournalTypeOK
    <3>2. ASSUME NEW j \in Keys, entries[j].state = "ACKED" PROVE entries'[j] = entries[j]
      BY <2>3, <3>1, <3>2 DEF journalVars, Opens, Settles, Store
    <3> SUFFICES ASSUME NEW i \in Ids, map'[i] # 0
                 PROVE  /\ map'[i] \in 1..Len(venue')
                        /\ \E k \in Keys : /\ k[1] \in {"SUBMIT", "REPLACE"}
                                           /\ entries'[k].state = "ACKED"
                                           /\ entries'[k].vid = map'[i]
      BY <1>1 DEF MapInv, MapIsBacked, Mapped
    <3>3. \E k \in Keys : /\ k[1] \in {"SUBMIT", "REPLACE"}
                          /\ entries'[k].state = "ACKED" /\ entries'[k].vid = map'[i]
      <4>1. CASE map'[i] = map[i]
        <5>1. PICK k \in Keys : /\ k[1] \in {"SUBMIT", "REPLACE"}
                                /\ entries[k].state = "ACKED" /\ entries[k].vid = map[i]
          BY <4>1 DEF MapInv, MapIsBacked, Mapped
        <5> QED
          BY <3>2, <4>1, <5>1
      <4> QED
        BY <1>3, <4>1, MapMove DEF MapInv
    <3>4. PICK k \in Keys : /\ k[1] \in {"SUBMIT", "REPLACE"}
                            /\ entries'[k].state = "ACKED" /\ entries'[k].vid = map'[i]
      BY <3>3
    <3>5. TrueAt(venue', k, entries'[k])
      BY <1>1 DEF TruthInv, JournalTrue, TrueAt
    <3> QED
      BY <3>3, <3>4, <3>5 DEF TrueAt
  <2> QED
    BY <2>1, <2>2, <2>3 DEF JournalMove
<1> QED
  BY <1>2, <1>3

\* The order map can be rebuilt from the journal: every order it names is one
\* the venue holds and an acknowledged submit or replace names as well
\* (live_connector_base.hpp:85 and :164).
THEOREM MapRebuildable == Spec => []MapIsBacked
<1>1. Init => MapInv
  <2>1. Init => TruthInv
    BY TruthInit
  <2> QED
    BY <2>1 DEF Init, MapInv, MapIsBacked, Mapped
<1>2. MapInv => MapIsBacked
  BY DEF MapInv
<1> QED
  BY <1>1, <1>2, MapStep, PTL DEF Spec

-----------------------------------------------------------------------------
(* What survives a crash, when appends to the file succeed *)

WrittenAhead ==
  /\ \A v \in 1..Len(venue) : Journalled(entries, venue[v].key)
  /\ \A r \in wire : r.op # "CANCEL" => Journalled(entries, r.key)

\* The inductive invariant.  JournalKept makes recovery invisible; without it
\* neither exclusion nor the write-ahead rule survives a crash step.
DurInv == TruthInv /\ JournalKept /\ CancelReplaceExclusive /\ WrittenAhead

LEMMA UnchangedKept ==
  ASSUME JournalKept, UNCHANGED journalVars
  PROVE  JournalKept'
<1>1. entries' = entries /\ log' = log
  BY DEF journalVars
<1>2. Replay(log') = Replay(log) /\ KeysOf(log') = KeysOf(log)
  BY <1>1
<1>3. Used' = Used
  BY <1>1 DEF Used
<1>4. JournalDurable'
  BY <1>1, <1>2 DEF JournalKept, JournalDurable
<1> QED
  BY <1>2, <1>3, <1>4 DEF JournalKept

\* The moves left once recovery is known to change nothing.
LEMMA KeptMove ==
  ASSUME AppendMayFail = FALSE, DurInv, Next
  PROVE  /\ JournalKept'
         /\ \/ UNCHANGED journalVars
            \/ \E k \in Keys, e \in Entry :
                 /\ Opens(k, e) \/ Settles(k, e)
                 /\ entries' = [entries EXCEPT ![k] = e]
<1>1. JournalMove /\ JournalBase
  BY NextMove, TypeInvStep DEF DurInv, TruthInv, TypeInv, TypeOK, JournalBase
<1>2. ASSUME UNCHANGED journalVars PROVE JournalKept'
  BY <1>2, UnchangedKept DEF DurInv
<1>3. ASSUME NEW k \in Keys, NEW e \in Entry, Opens(k, e) \/ Settles(k, e)
      PROVE  JournalKept' /\ entries' = [entries EXCEPT ![k] = e]
  <2>1. Store(k, e) /\ e.state # "NONE" /\ HasSlot(k)
    BY <1>3 DEF Opens, Settles, HasSlot, Used
  <2> QED
    BY <1>1, <2>1, StoreKept DEF DurInv, Store
<1> QED
  BY <1>1, <1>2, <1>3, RecoverKept DEF JournalMove, DurInv

\* A settled or opened key keeps some state other than NONE.
LEMMA JournalledStays ==
  ASSUME AppendMayFail = FALSE, DurInv, Next, NEW key \in Ids, Journalled(entries, key)
  PROVE  Journalled(entries', key)
<1>1. CASE UNCHANGED journalVars
  BY <1>1 DEF journalVars
<1>2. CASE \E k \in Keys, e \in Entry :
             (Opens(k, e) \/ Settles(k, e)) /\ entries' = [entries EXCEPT ![k] = e]
  <2>1. PICK k \in Keys, e \in Entry : e.state # "NONE" /\ entries' = [entries EXCEPT ![k] = e]
    BY <1>2 DEF Opens, Settles
  <2>2. entries \in [Keys -> Entry]
    BY DEF DurInv, TruthInv, TypeInv, TypeOK, JournalTypeOK
  <2>3. \A j \in Keys : entries[j].state # "NONE" => entries'[j].state # "NONE"
    BY <2>1, <2>2
  <2>4. <<"SUBMIT", key>> \in Keys /\ \A id \in Ids : <<"REPLACE", id>> \in Keys
    BY DEF Keys, Ops
  <2> QED
    BY <2>3, <2>4 DEF Journalled
<1> QED
  BY <1>1, <1>2, KeptMove

\* A new order at the venue carries the key of the request that made it.
LEMMA EffectsKeys ==
  ASSUME venue \in Seq(Order), NEW r \in Request, NEW e \in Effects(r),
         NEW v \in 1..Len(e.orders)
  PROVE  \/ v \in 1..Len(venue) /\ e.orders[v].key = venue[v].key
         \/ r.op # "CANCEL" /\ e.orders[v].key = r.key
<1>1. CASE e \in Refusals
  BY <1>1 DEF Refusals, Reply
<1>2. CASE e \in SubmitEffects(r)
  BY <1>2 DEF SubmitEffects, Reply, Placed
<1>3. CASE e \in CancelEffects(r)
  <2>1. r.vid \in 1..Len(venue) /\ e.orders = Closed(r.vid)
    BY <1>3 DEF CancelEffects, Live, Reply
  <2> QED
    BY <2>1, ClosedFacts DEF VenueGrows
<1>4. CASE e \in ReplaceEffects(r)
  <2>1. r.op = "REPLACE" /\ r.vid \in 1..Len(venue) /\ r.key \in Ids
    BY <1>4 DEF ReplaceEffects, Answers, Request
  <2>2. /\ Closed(r.vid) \in Seq(Order)
        /\ Len(Closed(r.vid)) = Len(venue)
        /\ \A w \in 1..Len(venue) : Closed(r.vid)[w].key = venue[w].key
    BY <2>1, ClosedFacts DEF VenueGrows
  <2>3. e.orders \in {venue, Closed(r.vid), Placed(Closed(r.vid), r.key)}
    BY <1>4 DEF ReplaceEffects, AmendEffects, CancelReplaceEffects, Reply
  <2>4. CASE e.orders = Placed(Closed(r.vid), r.key)
    BY <2>1, <2>2, <2>4 DEF Placed
  <2> QED
    BY <2>1, <2>2, <2>3, <2>4
<1> QED
  BY <1>1, <1>2, <1>3, <1>4 DEF Effects

LEMMA WrittenAheadStep ==
  ASSUME AppendMayFail = FALSE, DurInv, Next
  PROVE  WrittenAhead'
<1>0. /\ venue \in Seq(Order) /\ wire \subseteq Request /\ TypeInv /\ CallSound
      /\ \A v \in 1..Len(venue) : venue[v] \in Order
      /\ venue' \in Seq(Order)
  BY VenueStep DEF DurInv, TruthInv, TypeInv, TypeOK
<1>1. Sending /\ call.op # "CANCEL" => Journalled(entries, PendingRequest.key)
  BY <1>0 DEF CallSound, CallInFlight, Sending, Journalled, PendingRequest, CallKey,
              TypeInv, TypeOK, Call, CallNamed, Idle, Ops
<1>2. \A r \in wire' : r \in wire \/ (Sending /\ r = PendingRequest)
  BY DEF Next, CallStep, SubmitOrder, CancelOrder, ReplaceOrder, Served, ServerError, Timeout,
         SubmitDone, CancelDone, ReplaceDone, VenueClose, LateArrival, WireLoss, CancelAll,
         Reconcile, CrashRestart
<1>3. ASSUME NEW r \in wire', r.op # "CANCEL" PROVE Journalled(entries', r.key)
  <2>1. Journalled(entries, r.key)
    BY <1>1, <1>2, <1>3 DEF DurInv, WrittenAhead, PendingRequest
  <2>2. r \in Request
    BY <1>0, <1>2, RequestType
  <2>3. r.key \in Ids
    BY <2>2 DEF Request
  <2> QED
    BY <2>1, <2>3, JournalledStays
<1>4. ASSUME NEW v \in 1..Len(venue') PROVE Journalled(entries, venue'[v].key)
  <2>1. CASE v \in 1..Len(venue) /\ venue'[v].key = venue[v].key
    BY <2>1 DEF DurInv, WrittenAhead
  <2>2. ASSUME NEW r \in Request, NEW e \in Effects(r), venue' = e.orders,
               r.op # "CANCEL" => Journalled(entries, r.key)
        PROVE  Journalled(entries, venue'[v].key)
    <3>1. \/ v \in 1..Len(venue) /\ venue'[v].key = venue[v].key
          \/ r.op # "CANCEL" /\ venue'[v].key = r.key
      BY <1>0, <2>2, EffectsKeys
    <3> QED
      BY <2>1, <2>2, <3>1
  <2>3. CASE Served
    <3>1. PICK e \in Effects(PendingRequest) : venue' = e.orders
      BY <2>3 DEF Served
    <3>2. PendingRequest \in Request /\ PendingRequest.op = call.op /\ Sending
      BY <1>0, <2>3, RequestType DEF Served, PendingRequest
    <3> QED
      BY <1>1, <2>2, <3>1, <3>2
  <2>4. CASE LateArrival
    <3>1. PICK r \in wire : \E e \in Effects(r) : venue' = e.orders
      BY <2>4 DEF LateArrival
    <3> QED
      BY <1>0, <2>2, <3>1 DEF DurInv, WrittenAhead
  <2>5. CASE VenueClose \/ CancelAll
    <3>1. Len(venue') = Len(venue)
      BY <1>0, <2>5, ClosedFacts DEF VenueClose, CancelAll
    <3> QED
      BY <2>1, <3>1, VenueStep, <1>0 DEF VenueGrows
  <2>6. CASE venue' = venue
    BY <2>1, <2>6
  <2> QED
    BY <2>3, <2>4, <2>5, <2>6
    DEF Next, CallStep, SubmitOrder, CancelOrder, ReplaceOrder, ServerError, Timeout,
        SubmitDone, CancelDone, ReplaceDone, WireLoss, Reconcile, CrashRestart
<1>5. ASSUME NEW v \in 1..Len(venue') PROVE Journalled(entries', venue'[v].key)
  <2>1. venue'[v] \in Order
    BY <1>0
  <2>2. venue'[v].key \in Ids
    BY <2>1 DEF Order
  <2> QED
    BY <1>4, <2>2, JournalledStays
<1> QED
  BY <1>3, <1>5 DEF WrittenAhead, Journalled

LEMMA ExclusiveStep ==
  ASSUME AppendMayFail = FALSE, DurInv, Next
  PROVE  CancelReplaceExclusive'
<1>0. entries \in [Keys -> Entry]
  BY DEF DurInv, TruthInv, TypeInv, TypeOK, JournalTypeOK
<1>1. CASE UNCHANGED journalVars
  BY <1>1 DEF DurInv, CancelReplaceExclusive, Open, journalVars
<1>2. CASE \E k \in Keys, e \in Entry :
             (Opens(k, e) \/ Settles(k, e)) /\ entries' = [entries EXCEPT ![k] = e]
  <2>1. PICK k \in Keys, e \in Entry :
             (Opens(k, e) \/ Settles(k, e)) /\ entries' = [entries EXCEPT ![k] = e]
    BY <1>2
  <2> SUFFICES ASSUME NEW id \in Ids
               PROVE  ~(Open(<<"CANCEL", id>>)' /\ Open(<<"REPLACE", id>>)')
    BY DEF CancelReplaceExclusive
  <2>2. ~(Open(<<"CANCEL", id>>) /\ Open(<<"REPLACE", id>>))
    BY DEF DurInv, CancelReplaceExclusive
  <2>3. <<"CANCEL", id>> \in Keys /\ <<"REPLACE", id>> \in Keys
    BY DEF Keys, Ops
  <2>4. CASE k \notin {<<"CANCEL", id>>, <<"REPLACE", id>>}
    BY <1>0, <2>1, <2>2, <2>3, <2>4 DEF Open
  <2>5. CASE k = <<"CANCEL", id>>
    <3>1. entries'[<<"REPLACE", id>>] = entries[<<"REPLACE", id>>]
      BY <1>0, <2>1, <2>3, <2>5
    <3>2. CASE Opens(k, e)
      BY <3>1, <3>2, <2>5 DEF Opens, Other, Open
    <3>3. CASE Settles(k, e)
      BY <3>1, <3>3, <2>2, <2>5 DEF Settles, Open
    <3> QED
      BY <2>1, <3>2, <3>3
  <2>6. CASE k = <<"REPLACE", id>>
    <3>1. entries'[<<"CANCEL", id>>] = entries[<<"CANCEL", id>>]
      BY <1>0, <2>1, <2>3, <2>6
    <3>2. CASE Opens(k, e)
      BY <3>1, <3>2, <2>6 DEF Opens, Other, Open
    <3>3. CASE Settles(k, e)
      BY <3>1, <3>3, <2>2, <2>6 DEF Settles, Open
    <3> QED
      BY <2>1, <3>2, <3>3
  <2> QED
    BY <2>4, <2>5, <2>6
<1> QED
  BY <1>1, <1>2, KeptMove

LEMMA DurStep ==
  ASSUME AppendMayFail = FALSE
  PROVE  DurInv /\ [Next]_vars => DurInv'
<1> SUFFICES ASSUME DurInv, [Next]_vars PROVE DurInv'
  OBVIOUS
<1>1. TruthInv'
  BY TruthStep DEF DurInv
<1>2. CASE Next
  BY <1>1, <1>2, KeptMove, ExclusiveStep, WrittenAheadStep DEF DurInv
<1>3. CASE UNCHANGED vars
  <2>1. JournalKept'
    BY <1>3, UnchangedKept DEF vars, journalVars, DurInv
  <2>2. CancelReplaceExclusive' /\ WrittenAhead'
    BY <1>3 DEF vars, DurInv, CancelReplaceExclusive, Open, WrittenAhead, Journalled
  <2> QED
    BY <1>1, <2>1, <2>2 DEF DurInv
<1> QED
  BY <1>2, <1>3

LEMMA DurInvariant ==
  ASSUME AppendMayFail = FALSE
  PROVE  Spec => []DurInv
<1>1. Init => DurInv
  <2> SUFFICES ASSUME Init PROVE DurInv
    OBVIOUS
  <2>1. TruthInv
    BY TypeInvInit
    DEF Init, JournalInit, TruthInv, JournalTrue, TrueAt, NoEntry, NoCall, CallSound,
        CallInFlight, CallTrue, Idle
  <2>2. KeysOf(log) = {} /\ Used = {}
    BY DEF Init, JournalInit, KeysOf, Positions, Used, NoEntry
  <2>3. JournalKept
    <3>1. Replay(log) = [k \in Keys |-> NoEntry]
      BY <2>2 DEF Replay, GetsSlot
    <3>2. Cardinality(Used) = 0
      BY <2>2, FS_EmptySet
    <3> QED
      BY <2>2, <3>1, <3>2, JournalAssumption DEF Init, JournalInit, JournalKept, JournalDurable
  <2>4. CancelReplaceExclusive
    BY DEF Init, JournalInit, CancelReplaceExclusive, Open, NoEntry, Keys, Ops
  <2>5. WrittenAhead
    BY DEF Init, WrittenAhead
  <2> QED
    BY <2>1, <2>3, <2>4, <2>5 DEF DurInv
<1>2. DurInv /\ [Next]_vars => DurInv'
  BY DurStep
<1> QED
  BY <1>1, <1>2, PTL DEF Spec

\* Whenever the process dies, recovery finds the journal exactly as it was in
\* memory: every append precedes the step it guards, the last record of a key
\* wins and there is always room (idempotency_journal.hpp:122-158).
THEOREM JournalSurvivesCrash ==
  ASSUME AppendMayFail = FALSE
  PROVE  Spec => []JournalDurable
<1>1. DurInv => JournalDurable
  BY DEF DurInv, JournalKept
<1> QED
  BY <1>1, DurInvariant, PTL

\* Cancel and replace of one order exclude each other, crashes included
\* (live_connector_base.hpp:97-101 and :127-131).
THEOREM CancelReplaceExclusion ==
  ASSUME AppendMayFail = FALSE
  PROVE  Spec => []CancelReplaceExclusive
<1>1. DurInv => CancelReplaceExclusive
  BY DEF DurInv
<1> QED
  BY <1>1, DurInvariant, PTL

\* No order is at the venue, or on its way there, that the file does not know
\* of (live_connector_base.hpp:63 and :137).
THEOREM OrdersAreJournalledFirst ==
  ASSUME AppendMayFail = FALSE
  PROVE  Spec => []WriteAhead
<1>1. DurInv => WriteAhead
  <2> SUFFICES ASSUME DurInv PROVE WriteAhead
    OBVIOUS
  <2>1. Replay(log) = entries
    BY DEF DurInv, JournalKept, JournalDurable
  <2> QED
    BY <2>1 DEF DurInv, WrittenAhead, WriteAhead
<1> QED
  BY <1>1, DurInvariant, PTL

-----------------------------------------------------------------------------
(* Crashes are invisible to the journal's contract *)

StatusOf == [k \in Keys |-> entries[k].state]

LEMMA ContractStep ==
  ASSUME AppendMayFail = FALSE, DurInv, [Next]_vars
  PROVE  [Contract!Next]_StatusOf
<1>1. CASE UNCHANGED entries
  BY <1>1 DEF StatusOf
<1>2. CASE \E k \in Keys, e \in Entry :
             (Opens(k, e) \/ Settles(k, e)) /\ entries' = [entries EXCEPT ![k] = e]
  <2>1. PICK k \in Keys, e \in Entry :
             (Opens(k, e) \/ Settles(k, e)) /\ entries' = [entries EXCEPT ![k] = e]
    BY <1>2
  <2>2. entries \in [Keys -> Entry]
    BY DEF DurInv, TruthInv, TypeInv, TypeOK, JournalTypeOK
  <2>3. StatusOf' = [StatusOf EXCEPT ![k] = e.state] /\ StatusOf[k] = entries[k].state
    BY <2>1, <2>2 DEF StatusOf
  <2>4. CASE Opens(k, e)
    <3>1. Contract!Open(k)
      BY <2>3, <2>4 DEF Opens, Contract!Open, StatusOf
    <3> QED
      BY <3>1 DEF Contract!Next
  <2>5. CASE Settles(k, e)
    <3>1. Contract!Settle(k, e.state) /\ e.state \in {"ACKED", "FAILED"}
      BY <2>3, <2>5 DEF Settles, Contract!Settle, StatusOf
    <3> QED
      BY <3>1 DEF Contract!Next
  <2> QED
    BY <2>1, <2>4, <2>5
<1> QED
  BY <1>1, <1>2, KeptMove DEF journalVars, vars

\* The connector, its crashes, recoveries and reconciles included, implements
\* the journal that never crashes: each key is opened, settled and, once
\* acknowledged, left alone (idempotency_journal.hpp:45-158).
THEOREM ConnectorImplementsContract ==
  ASSUME AppendMayFail = FALSE
  PROVE  Spec => ImplementsContract
<1>1. Init => Contract!Init
  BY DEF Init, JournalInit, NoEntry, Contract!Init
<1>2. DurInv /\ [Next]_vars => [Contract!Next]_StatusOf
  BY ContractStep
<1> QED
  BY <1>1, <1>2, DurInvariant, PTL DEF Spec, ImplementsContract, Contract!Spec, StatusOf
=============================================================================
