----------------------------- MODULE SpscQueue -----------------------------
(***************************************************************************)
(* The single-producer single-consumer ring that carries fills from the     *)
(* connector's receive thread to the strategy thread                        *)
(* (core/execution/common/orders/order_manager.hpp, SpscQueue).             *)
(*                                                                         *)
(* push and pop are split at every shared access: the load of the other     *)
(* thread's index with the test on it, the copy of the item, the release    *)
(* store of the thread's own index.  An acquire load that reads a release   *)
(* store sees everything before it, so the steps interleave as written; a   *)
(* copy that meets the other thread's copy of the same cell is a data race. *)
(***************************************************************************)
EXTENDS Naturals, Sequences

CONSTANTS
  N,      \* cells of the ring; one stays free (128 in the code, a power of two)
  Items   \* what is queued

ASSUME RingAssumption == N \in Nat /\ N >= 2

VARIABLES
  buf,      \* buf_
  write,    \* write_
  read,     \* read_
  prod,     \* the producer: where it is in push, and the item it pushes
  cons,     \* the consumer: where it is in pop, and the item it copied
  pushRet,  \* what the last push returned
  popRet    \* what the last pop returned: << >> for false, <<item>> for true

queueVars == <<buf, write, read, prod, cons, pushRet, popRet>>
prodVars == <<write, prod, pushRet>>
consVars == <<read, cons, popRet>>

None == "none"
Places == 0..(N - 1)

\* Mutant of Succ: the mask is forgotten.
SuccUnmasked(i) == i + 1

\* (i + 1) & mask_
Succ(i) == IF i = N - 1 THEN 0 ELSE i + 1

QueueInit ==
  /\ buf = [i \in Places |-> None]
  /\ write = 0 /\ read = 0
  /\ prod = [pc |-> "idle", item |-> None]
  /\ cons = [pc |-> "idle", item |-> None]
  /\ pushRet = None /\ popRet = << >>

-----------------------------------------------------------------------------
(* push, on the connector's thread *)

\* Mutants of Full: the consumer's index is not looked at, or the wrong index
\* is compared with it.
NeverFull == FALSE
FullAtWrite == write = read

Full == Succ(write) = read

PushFull ==
  /\ prod.pc = "idle"
  /\ Full
  /\ pushRet' = "false"
  /\ UNCHANGED <<buf, write, prod, consVars>>

PushCheck(x) ==
  /\ prod.pc = "idle"
  /\ ~Full
  /\ prod' = [pc |-> "copy", item |-> x]
  /\ UNCHANGED <<buf, write, pushRet, consVars>>

PushCopy ==
  /\ prod.pc = "copy"
  /\ buf' = [buf EXCEPT ![write] = prod.item]
  /\ prod' = [prod EXCEPT !.pc = "store"]
  /\ UNCHANGED <<write, pushRet, consVars>>

PushStore ==
  /\ prod.pc = "store"
  /\ write' = Succ(write)
  /\ prod' = [pc |-> "idle", item |-> None]
  /\ pushRet' = "true"
  /\ UNCHANGED <<buf, consVars>>

-----------------------------------------------------------------------------
(* pop, on the strategy's thread *)

Empty == read = write

PopEmpty ==
  /\ cons.pc = "idle"
  /\ Empty
  /\ popRet' = << >>
  /\ UNCHANGED <<buf, read, cons, prodVars>>

PopCheck ==
  /\ cons.pc = "idle"
  /\ ~Empty
  /\ cons' = [cons EXCEPT !.pc = "copy"]
  /\ UNCHANGED <<buf, read, popRet, prodVars>>

PopCopy ==
  /\ cons.pc = "copy"
  /\ cons' = [pc |-> "store", item |-> buf[read]]
  /\ UNCHANGED <<buf, read, popRet, prodVars>>

PopStore ==
  /\ cons.pc = "store"
  /\ read' = Succ(read)
  /\ popRet' = <<cons.item>>
  /\ cons' = [pc |-> "idle", item |-> None]
  /\ UNCHANGED <<buf, prodVars>>

Producer == PushFull \/ (\E x \in Items : PushCheck(x)) \/ PushCopy \/ PushStore
Consumer == PopEmpty \/ PopCheck \/ PopCopy \/ PopStore

QueueNext == Producer \/ Consumer

QueueSpec == QueueInit /\ [][QueueNext]_queueVars

-----------------------------------------------------------------------------
(* What the ring promises *)

QueueTypeOK ==
  /\ buf \in [Places -> Items \cup {None}]
  /\ write \in Places
  /\ read \in Places
  /\ prod \in [pc : {"idle", "copy", "store"}, item : Items \cup {None}]
  /\ cons \in [pc : {"idle", "copy", "store"}, item : Items \cup {None}]
  /\ pushRet \in {None, "true", "false"}
  /\ popRet \in {<< >>} \cup {<<x>> : x \in Items \cup {None}}

\* NoTornItem: the consumer never copies the cell the producer is writing,
\* and what it has copied is not overwritten before it releases the cell,
\* although each thread tests an index the other may have moved since
\* (order_manager.hpp:26 and :35).
NoTornItem ==
  cons.pc # "idle" => /\ ~(prod.pc \in {"copy", "store"} /\ write = read)
                      /\ cons.pc = "store" => cons.item = buf[read]

\* The cells between the two indices, oldest first.
Count == IF write >= read THEN write - read ELSE write + N - read
Cell(i) == IF read + i < N THEN read + i ELSE read + i - N
Contents == [i \in 1..Count |-> buf[Cell(i - 1)]]

\* ImplementsQueue: the ring is a FIFO queue of N - 1 items: each push takes
\* effect at its release store and each pop at its own, nothing is lost,
\* repeated or reordered, a push is refused only when N - 1 items are queued
\* and a pop only when none is (order_manager.hpp:21 and :31).
Queue == INSTANCE BoundedQueue WITH q <- Contents, Cap <- N - 1
ImplementsQueue == Queue!Spec
=============================================================================
