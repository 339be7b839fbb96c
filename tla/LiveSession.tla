---------------------------- MODULE LiveSession ----------------------------
(***************************************************************************)
(* The trading engine as the caller of a live connector                     *)
(* (core/engine/trading_engine_main.cpp, run).  The engine numbers its      *)
(* orders with next_id, which starts at 1 in every process, submits each    *)
(* number once and never cancels or replaces single orders; the journal     *)
(* file outlives the process.                                               *)
(***************************************************************************)
EXTENDS LiveConnector

VARIABLES
  next_id,  \* the next client order id of this process
  placed    \* how many orders the venue had accepted when this process began

sessionVars == <<vars, next_id, placed>>

SessionInit == Init /\ next_id = 1 /\ placed = 0

SubmitNext ==
  /\ next_id \in Ids
  /\ SubmitOrder(next_id)
  /\ next_id' = next_id + 1
  /\ UNCHANGED placed

\* The process ends, by a crash or an ordinary exit, and is started again.
NewProcess ==
  /\ CrashRestart
  /\ next_id' = 1
  /\ placed' = Len(venue)

SessionNext ==
  \/ SubmitNext
  \/ NewProcess
  \/ /\ CallStep \/ VenueClose \/ LateArrival \/ WireLoss \/ CancelAll \/ Reconcile
     /\ UNCHANGED <<next_id, placed>>

SessionSpec == SessionInit /\ [][SessionNext]_sessionVars

\* SubmittedOrderIsPlaced: when submit_order returns OK for an order of this
\* process, the venue has accepted that order in this process (README.md:142,
\* "Orders go either to shadow (paper) or live exchanges").
SubmittedOrderIsPlaced ==
  out.op = "SUBMIT" /\ out.res = "OK"
    => entries[<<"SUBMIT", next_id - 1>>].vid > placed
=============================================================================
