-------------------------- MODULE JournalContract --------------------------
(***************************************************************************)
(* What a connector's journal promises to its caller, without memory, file, *)
(* crash or recovery: the status of each operation, which is opened, then   *)
(* settled once and for all, or settled as failed and perhaps opened again. *)
(***************************************************************************)
CONSTANT Keys
VARIABLE status

Init == status = [k \in Keys |-> "NONE"]

\* An operation is opened: begin() on a fresh or failed key.
Open(k) ==
  /\ status[k] \in {"NONE", "FAILED"}
  /\ status' = [status EXCEPT ![k] = "IN_FLIGHT"]

\* It is settled: ack() or fail().
Settle(k, s) ==
  /\ status[k] = "IN_FLIGHT"
  /\ status' = [status EXCEPT ![k] = s]

Next == \E k \in Keys : Open(k) \/ \E s \in {"ACKED", "FAILED"} : Settle(k, s)

Spec == Init /\ [][Next]_status
=============================================================================
