--------------------------- MODULE LiveConnector ---------------------------
(***************************************************************************)
(* A live exchange connector: LiveConnectorBase with its idempotency        *)
(* journal and its VenueOrderMap, the venue it talks to over HTTP, and      *)
(* crashes of the trading process                                          *)
(* (core/execution/common/connectors/live_connector_base.hpp).             *)
(*                                                                         *)
(* One thread calls the connector, so at most one call is in progress; it   *)
(* is split where the world can interfere: after journal begin(), at every  *)
(* HTTP attempt, and before the result is journalled.  The venue is          *)
(* external: it accepts, refuses, fills and expires orders on its own, and  *)
(* a request that times out here may still reach it later.                  *)
(***************************************************************************)
EXTENDS IdempotencyJournal

CONSTANTS
  MaxEntries,    \* capacity of the VenueOrderMap (512 in the code)
  MaxAttempts,   \* RetryPolicy::max_attempts
  AmendInPlace,  \* TRUE: replace amends the order (same venue id);
                 \* FALSE: cancel-replace (Binance, a new order)
  AmendConfirmed, \* FALSE: any HTTP 200 to an amend is OK (Kraken does not
                 \* look for an error in the body)
  MaxOrders,     \* bound of the model: orders the venue ever accepts
  MaxWire        \* bound of the model: late requests under way at a time

ASSUME ConnectorAssumption == /\ MaxEntries \in Nat \ {0}
                              /\ MaxAttempts \in Nat \ {0}
                              /\ AmendInPlace \in BOOLEAN /\ AmendConfirmed \in BOOLEAN
                              /\ MaxOrders \in Nat
                              /\ MaxWire \in Nat

VARIABLES
  map,    \* venue_order_map_: client id -> venue id, 0 when absent
  venue,  \* the venue's orders, by venue id: the client id in the order's key
          \* (make_idempotency_key) and whether the order is still live
  wire,   \* requests that timed out here and may still reach the venue
  call,   \* the call in progress
  out     \* what the last step returned to the caller, if anything

vars == <<entries, log, map, venue, wire, call, out>>

Results == {"OK", "ERROR_INVALID_ORDER", "ERROR_UNKNOWN"}
Order == [key : Ids, status : {"LIVE", "CLOSED"}]
Request == [op : Ops, key : Ids, vid : Nat]
Call == [op : Ops \cup {"NONE"}, id : Ids \cup {0}, rel : Ids \cup {0}, target : Nat,
         attempt : 1..MaxAttempts, res : Results \cup {"PENDING"}, vid : Nat]
Outcome == [op : Ops \cup {"NONE"}, res : Results]

NoCall == [op |-> "NONE", id |-> 0, rel |-> 0, target |-> 0,
           attempt |-> 1, res |-> "PENDING", vid |-> 0]
NoOutcome == [op |-> "NONE", res |-> "OK"]

Idle == call.op = "NONE"

Init ==
  /\ JournalInit
  /\ map = [i \in Ids |-> 0]
  /\ venue = << >>
  /\ wire = {}
  /\ call = NoCall
  /\ out = NoOutcome

-----------------------------------------------------------------------------
(* VenueOrderMap *)

Mapped == {i \in Ids : map[i] # 0}
Upserts(m, i) == m[i] # 0 \/ Cardinality({j \in Ids : m[j] # 0}) < MaxEntries
Upsert(m, i, v) == IF Upserts(m, i) THEN [m EXCEPT ![i] = v] ELSE m
Erase(m, i) == [m EXCEPT ![i] = 0]
UpsertResult(m, i) == IF Upserts(m, i) THEN "OK" ELSE "ERROR_UNKNOWN"

-----------------------------------------------------------------------------
(* The venue.  Effects(r) is the set of what it may do with a request that   *)
(* reaches it: the orders afterwards, the reply, and the order id in it.     *)
(* A key is refused while a live order carries it.                          *)

Live(v) == v \in 1..Len(venue) /\ venue[v].status = "LIVE"
KeyTaken(orders, k) == \E v \in DOMAIN orders : orders[v].status = "LIVE" /\ orders[v].key = k
Closed(v) == [venue EXCEPT ![v].status = "CLOSED"]
Placed(orders, k) == Append(orders, [key |-> k, status |-> "LIVE"])
Reply(orders, res, vid) == [orders |-> orders, res |-> res, vid |-> vid]

Refusals == {Reply(venue, "ERROR_INVALID_ORDER", 0)}

SubmitEffects(r) ==
  IF r.op = "SUBMIT" /\ ~KeyTaken(venue, r.key) /\ Len(venue) < MaxOrders
  THEN {Reply(Placed(venue, r.key), "OK", Len(venue) + 1)} ELSE {}

CancelEffects(r) ==
  IF r.op = "CANCEL" /\ Live(r.vid) THEN {Reply(Closed(r.vid), "OK", r.vid)} ELSE {}

\* Kraken, OKX, Coinbase and Binance futures change the order they have.
AmendEffects(r) == {Reply(venue, "OK", r.vid)}

\* Binance cancel-replace stops when the cancel fails; when the cancel is done
\* and the new order is refused, the reply is an error all the same.
CancelReplaceEffects(r) ==
  {Reply(Closed(r.vid), "ERROR_INVALID_ORDER", 0)}
  \cup (IF ~KeyTaken(Closed(r.vid), r.key) /\ Len(venue) < MaxOrders
        THEN {Reply(Placed(Closed(r.vid), r.key), "OK", Len(venue) + 1)} ELSE {})

\* A refused amend looks like an accepted one to a connector that does not
\* read the reply.
Answers(v) == v \in 1..Len(venue) /\ (Live(v) \/ (AmendInPlace /\ ~AmendConfirmed))

ReplaceEffects(r) ==
  IF r.op = "REPLACE" /\ Answers(r.vid)
  THEN IF AmendInPlace THEN AmendEffects(r) ELSE CancelReplaceEffects(r)
  ELSE {}

Effects(r) == Refusals \cup SubmitEffects(r) \cup CancelEffects(r) \cup ReplaceEffects(r)

\* An order fills or expires.
VenueClose ==
  /\ \E v \in 1..Len(venue) : Live(v) /\ venue' = Closed(v)
  /\ out' = NoOutcome
  /\ UNCHANGED <<entries, log, map, wire, call>>

\* A request whose caller gave up reaches the venue; nobody sees the reply.
LateArrival ==
  /\ \E r \in wire :
       /\ wire' = wire \ {r}
       /\ \E e \in Effects(r) : venue' = e.orders
  /\ out' = NoOutcome
  /\ UNCHANGED <<entries, log, map, call>>

\* Or it never arrives.
WireLoss ==
  /\ \E r \in wire : wire' = wire \ {r}
  /\ out' = NoOutcome
  /\ UNCHANGED <<entries, log, map, venue, call>>

-----------------------------------------------------------------------------
(* Calls: the part up to the first HTTP attempt *)

Return(op, res) ==
  /\ out' = [op |-> op, res |-> res]
  /\ call' = NoCall

Start(op, id, rel, target, res) ==
  /\ call' = [NoCall EXCEPT !.op = op, !.id = id, !.rel = rel,
                            !.target = target, !.res = res]
  /\ out' = NoOutcome

\* submit_order: an acknowledged id is only put back into the map.
SubmitOrder(id) ==
  LET k == <<"SUBMIT", id>> IN
  /\ Idle
  /\ Begin(k, 0)
  /\ \/ /\ BeginDecision(k) = "ACKED"
        /\ IF entries[k].vid # 0
           THEN /\ map' = Upsert(map, id, entries[k].vid)
                /\ Return("SUBMIT", UpsertResult(map, id))
           ELSE map' = map /\ Return("SUBMIT", "OK")
     \/ /\ BeginDecision(k) = "NONE"
        /\ Return("SUBMIT", "ERROR_UNKNOWN")
        /\ map' = map
     \/ /\ BeginDecision(k) = "IN_FLIGHT"
        /\ Start("SUBMIT", id, 0, 0, "PENDING")
        /\ map' = map
  /\ UNCHANGED <<venue, wire>>

\* Mutant of CancelRefused: cancel_order does not look at the replace's key.
CancelNeverRefused(id) == FALSE

\* cancel_order: refused while a replace of the id is open; the cancel of an
\* order that is not in the map is journalled as begun and then as failed.
CancelRefused(id) == Open(<<"REPLACE", id>>)

CancelOrder(id) ==
  LET k == <<"CANCEL", id>> IN
  /\ Idle
  /\ \/ /\ CancelRefused(id)
        /\ Return("CANCEL", "ERROR_INVALID_ORDER")
        /\ UNCHANGED journalVars
     \/ /\ ~CancelRefused(id)
        /\ BeginDecision(k) # "IN_FLIGHT"
        /\ Return("CANCEL", IF BeginDecision(k) = "ACKED" THEN "OK" ELSE "ERROR_UNKNOWN")
        /\ UNCHANGED journalVars
     \/ /\ ~CancelRefused(id)
        /\ BeginDecision(k) = "IN_FLIGHT"
        /\ Begin(k, 0)
        /\ Start("CANCEL", id, 0, map[id],
                 IF id \in Mapped THEN "PENDING" ELSE "ERROR_INVALID_ORDER")
  /\ UNCHANGED <<map, venue, wire>>

\* replace_order: refused while a cancel of the id is open or the id is not in
\* the map; an acknowledged replace is only put back into the map.
ReplaceRefused(id) == Open(<<"CANCEL", id>>) \/ id \notin Mapped

ReplaceOrder(id, rel) ==
  LET k == <<"REPLACE", id>> IN
  /\ Idle
  /\ \/ /\ ReplaceRefused(id)
        /\ Return("REPLACE", "ERROR_INVALID_ORDER")
        /\ UNCHANGED <<entries, log, map>>
     \/ /\ ~ReplaceRefused(id)
        /\ BeginDecision(k) = "NONE"
        /\ Return("REPLACE", "ERROR_UNKNOWN")
        /\ UNCHANGED <<entries, log, map>>
     \/ /\ ~ReplaceRefused(id)
        /\ BeginDecision(k) = "ACKED"
        /\ IF entries[k].vid # 0
           THEN /\ map' = Upsert(Erase(map, id), rel, entries[k].vid)
                /\ Return("REPLACE", UpsertResult(Erase(map, id), rel))
           ELSE map' = map /\ Return("REPLACE", "OK")
        /\ UNCHANGED journalVars
     \/ /\ ~ReplaceRefused(id)
        /\ BeginDecision(k) = "IN_FLIGHT"
        /\ Begin(k, rel)
        /\ Start("REPLACE", id, rel, map[id], "PENDING")
        /\ map' = map
  /\ UNCHANGED <<venue, wire>>

-----------------------------------------------------------------------------
(* with_retries: one HTTP attempt per step.  ERROR_UNKNOWN stands for every   *)
(* retryable result (rate limit, 5xx, timeout, a reply that does not parse).  *)

CallKey == <<call.op, call.id>>

PendingRequest ==
  [op |-> call.op, key |-> IF call.op = "REPLACE" THEN call.rel ELSE call.id,
   vid |-> call.target]

Sending == ~Idle /\ call.res = "PENDING"
is_retryable(res) == res = "ERROR_UNKNOWN"

\* Mutants of AfterAttempt: one attempt too many, and a loop that never counts.
AfterAttemptOneMore(res, vid) ==
  IF is_retryable(res) /\ call.attempt <= MaxAttempts
  THEN [call EXCEPT !.attempt = @ + 1]
  ELSE [call EXCEPT !.res = res, !.vid = vid]

AfterAttemptUncounted(res, vid) ==
  IF is_retryable(res) /\ call.attempt < MaxAttempts
  THEN call
  ELSE [call EXCEPT !.res = res, !.vid = vid]

\* The call after an attempt that ended with res.
AfterAttempt(res, vid) ==
  IF is_retryable(res) /\ call.attempt < MaxAttempts
  THEN [call EXCEPT !.attempt = @ + 1]
  ELSE [call EXCEPT !.res = res, !.vid = vid]

\* The request is served and the reply arrives.
Served ==
  /\ Sending
  /\ \E e \in Effects(PendingRequest) :
       /\ venue' = e.orders
       /\ call' = AfterAttempt(e.res, e.vid)
  /\ out' = NoOutcome
  /\ UNCHANGED <<entries, log, map, wire>>

\* 429 or 5xx: the venue did nothing.
ServerError ==
  /\ Sending
  /\ call' = AfterAttempt("ERROR_UNKNOWN", 0)
  /\ out' = NoOutcome
  /\ UNCHANGED <<entries, log, map, venue, wire>>

\* The HTTP timeout: the request may still be under way.
Timeout ==
  /\ Sending
  /\ call' = AfterAttempt("ERROR_UNKNOWN", 0)
  /\ Cardinality(wire) < MaxWire
  /\ wire' = wire \cup {PendingRequest}
  /\ out' = NoOutcome
  /\ UNCHANGED <<entries, log, map, venue>>

-----------------------------------------------------------------------------
(* The part of each call after with_retries *)

Done(op) == call.op = op /\ call.res # "PENDING"

SubmitDone ==
  /\ Done("SUBMIT")
  /\ \/ /\ call.res = "OK"
        /\ Ack(CallKey, call.vid, 0)
        /\ map' = Upsert(map, call.id, call.vid)
        /\ Return("SUBMIT", UpsertResult(map, call.id))
     \/ /\ call.res # "OK"
        /\ Fail(CallKey, 0)
        /\ map' = map
        /\ Return("SUBMIT", call.res)
  /\ UNCHANGED <<venue, wire>>

\* Mutant of CancelDone: an order the venue does not cancel is taken as gone.
CancelDoneTrustsRefusal ==
  /\ Done("CANCEL")
  /\ \/ /\ call.res # "ERROR_UNKNOWN"
        /\ Ack(CallKey, call.target, 0)
        /\ map' = Erase(map, call.id)
     \/ /\ call.res = "ERROR_UNKNOWN"
        /\ Fail(CallKey, 0)
        /\ map' = map
  /\ Return("CANCEL", call.res)
  /\ UNCHANGED <<venue, wire>>

CancelDone ==
  /\ Done("CANCEL")
  /\ \/ /\ call.res = "OK"
        /\ Ack(CallKey, call.target, 0)
        /\ map' = Erase(map, call.id)
     \/ /\ call.res # "OK"
        /\ Fail(CallKey, 0)
        /\ map' = map
  /\ Return("CANCEL", call.res)
  /\ UNCHANGED <<venue, wire>>

ReplaceDone ==
  /\ Done("REPLACE")
  /\ \/ /\ call.res = "OK"
        /\ Ack(CallKey, call.vid, call.rel)
        /\ map' = Upsert(Erase(map, call.id), call.rel, call.vid)
        /\ Return("REPLACE", UpsertResult(Erase(map, call.id), call.rel))
     \/ /\ call.res # "OK"
        /\ Fail(CallKey, call.rel)
        /\ map' = map
        /\ Return("REPLACE", call.res)
  /\ UNCHANGED <<venue, wire>>

-----------------------------------------------------------------------------
(* Calls that bypass the journal, and the life of the process *)

\* cancel_all: one request, neither journalled nor retried; the map keeps its
\* entries.  A venue without the endpoint (OKX, Coinbase) refuses it.
CancelAll ==
  /\ Idle
  /\ venue' \in {venue, [v \in 1..Len(venue) |-> [venue[v] EXCEPT !.status = "CLOSED"]]}
  /\ out' = NoOutcome
  /\ UNCHANGED <<entries, log, map, wire, call>>

\* reconcile(): the journal is read back and the map emptied.
Reconcile ==
  /\ Idle
  /\ Recover
  /\ map' = [i \in Ids |-> 0]
  /\ out' = NoOutcome
  /\ UNCHANGED <<venue, wire, call>>

\* The process dies and a new one constructs the connector.
CrashRestart ==
  /\ Recover
  /\ map' = [i \in Ids |-> 0]
  /\ call' = NoCall
  /\ out' = NoOutcome
  /\ UNCHANGED <<venue, wire>>

\* The steps a call takes on its own once it is under way.
CallStep == Served \/ ServerError \/ Timeout \/ SubmitDone \/ CancelDone \/ ReplaceDone

Next ==
  \/ \E id \in Ids : SubmitOrder(id) \/ CancelOrder(id)
  \/ \E id, rel \in Ids : ReplaceOrder(id, rel)
  \/ CallStep
  \/ VenueClose \/ LateArrival \/ WireLoss
  \/ CancelAll \/ Reconcile \/ CrashRestart

Spec == Init /\ [][Next]_vars

\* The retry loop is bounded and HTTP has a timeout, so a call under way goes on.
FairSpec == Spec /\ WF_vars(CallStep)

-----------------------------------------------------------------------------
(* What the connector promises *)

TypeOK ==
  /\ JournalTypeOK
  /\ map \in [Ids -> Nat]
  /\ venue \in Seq(Order)
  /\ wire \subseteq Request
  /\ call \in Call
  /\ out \in Outcome

\* A call under way has its key in flight, in memory and in the file.
CallInFlight == ~Idle => entries[CallKey].state = "IN_FLIGHT"

\* WriteAhead: every order the venue holds, and every request that may still
\* become one, was journalled before it was sent, and a crash at any moment
\* finds that record: no order exists that recovery knows nothing of
\* (live_connector_base.hpp:63 and :137, begin before with_retries).
Journalled(e, key) ==
  \/ e[<<"SUBMIT", key>>].state # "NONE"
  \/ \E id \in Ids : e[<<"REPLACE", id>>].state # "NONE"

WriteAhead ==
  /\ \A v \in 1..Len(venue) : Journalled(Replay(log), venue[v].key)
  /\ \A r \in wire : r.op # "CANCEL" => Journalled(Replay(log), r.key)

\* AckedSubmitIsReal: a submit recorded as acknowledged, in memory or in any
\* record of the file, names an order the venue really accepted under that
\* client id, whatever was retried, timed out, arrived late or was recovered
\* (live_connector_base.hpp:84).
SubmitIsReal(k, e) ==
  k[1] = "SUBMIT" /\ e.state = "ACKED"
    => e.vid \in 1..Len(venue) /\ venue[e.vid].key = k[2]

AckedSubmitIsReal ==
  /\ \A k \in Keys : SubmitIsReal(k, entries[k])
  /\ \A i \in 1..Len(log) : SubmitIsReal(log[i].key, log[i].entry)

\* AckedCancelIsDead: a cancel recorded as acknowledged names an order that is
\* not live at the venue, then or ever after (live_connector_base.hpp:118).
CancelIsDead(k, e) ==
  k[1] = "CANCEL" /\ e.state = "ACKED"
    => e.vid \in 1..Len(venue) /\ venue[e.vid].status = "CLOSED"

AckedCancelIsDead ==
  /\ \A k \in Keys : CancelIsDead(k, entries[k])
  /\ \A i \in 1..Len(log) : CancelIsDead(log[i].key, log[i].entry)

\* MapIsBacked: the map only names orders the venue accepted, each one found
\* in an acknowledged submit or replace of the journal, so it can be rebuilt
\* after it is cleared (live_connector_base.hpp:85 and :164).
MapIsBacked ==
  \A i \in Mapped :
    /\ map[i] \in 1..Len(venue)
    /\ \E k \in Keys : /\ k[1] \in {"SUBMIT", "REPLACE"}
                       /\ entries[k].state = "ACKED" /\ entries[k].vid = map[i]

\* CallReturns: a call that is under way comes to its end, by its own steps or
\* by the death of the process: the retry loop cannot spin
\* (live_connector_base.hpp:366, with_retries).
CallReturns == ~Idle ~> Idle

\* ImplementsContract: seen through the states of the entries, the connector
\* with its crashes, recoveries and reconciles is a journal that never
\* crashes: recover() is invisible (idempotency_journal.hpp:122).
Contract == INSTANCE JournalContract WITH status <- [k \in Keys |-> entries[k].state]
ImplementsContract == Contract!Spec
=============================================================================
