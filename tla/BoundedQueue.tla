---------------------------- MODULE BoundedQueue ----------------------------
(***************************************************************************)
(* What the fill queue of the OrderManager promises to its two threads: a   *)
(* first-in first-out queue of at most Cap items, whose operations happen   *)
(* at one moment and whose refusals are true at that moment.  Implemented   *)
(* by SpscQueue.                                                            *)
(***************************************************************************)
EXTENDS Naturals, Sequences

CONSTANTS Items, Cap

VARIABLES
  q,        \* the items pushed and not yet popped
  pushRet,  \* what the producer's last push returned
  popRet    \* what the consumer's last pop returned

vars == <<q, pushRet, popRet>>

Init == q = << >> /\ pushRet = "none" /\ popRet = << >>

Push(x) ==
  /\ Len(q) < Cap
  /\ q' = Append(q, x)
  /\ pushRet' = "true"
  /\ popRet' = popRet

PushFull ==
  /\ Len(q) = Cap
  /\ pushRet' = "false"
  /\ UNCHANGED <<q, popRet>>

Pop ==
  /\ q # << >>
  /\ q' = Tail(q)
  /\ popRet' = <<Head(q)>>
  /\ pushRet' = pushRet

PopEmpty ==
  /\ q = << >>
  /\ popRet' = << >>
  /\ UNCHANGED <<q, pushRet>>

Next == (\E x \in Items : Push(x)) \/ PushFull \/ Pop \/ PopEmpty

Spec == Init /\ [][Next]_vars
=============================================================================
