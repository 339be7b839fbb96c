---------------------------- MODULE SharedMemory ----------------------------
(***************************************************************************)
(* The two shared-memory channels between the engine and the research       *)
(* process (core/ipc).                                                      *)
(*   ticks    the feed threads publish books into a ring (LobPublisher);    *)
(*            the research process polls it (CoreBridge);                   *)
(*   signals  the research process publishes a signal under a sequence lock *)
(*            and the engine reads it (AlphaSignalReader, and               *)
(*            RegimeSignalReader with the same protocol).                   *)
(* The sequence words and the data words of the signal are each read or     *)
(* written by a step of their own; a slot of the ring is filled by one.     *)
(* Either process may die anywhere and be started again: the engine zeroes  *)
(* the ring, the research process truncates the signal file to zeros.       *)
(***************************************************************************)
EXTENDS Naturals, FiniteSets

CONSTANTS
  Threads,      \* feed threads, one for each venue
  Capacity,     \* slots of the ring (k_capacity, 10000)
  MaxRetries,   \* k_max_retries (16)
  MaxTicks,     \* bound: books published
  MaxSignals,   \* bound: signals published between two restarts
  MaxRestarts   \* bound: restarts of the two processes

ASSUME IpcAssumption ==
  /\ Capacity \in Nat \ {0} /\ MaxRetries \in Nat \ {0}
  /\ MaxTicks \in Nat /\ MaxSignals \in Nat /\ MaxRestarts \in Nat

VARIABLES
  writeSeq,  \* header write_seq
  slots,     \* the ring: the number of the tick a slot holds, 0 if none
  feed,      \* each feed thread: where it is in publish
  ticks,     \* books published so far
  lock,      \* the sequence word of the signal file
  word1, word2,  \* two of its data words: the publication they come from
  py,        \* the research process
  rd,        \* the engine's read
  epoch      \* restarts so far

ringVars == <<writeSeq, slots, feed, ticks>>
fileVars == <<lock, word1, word2>>
vars == <<ringVars, fileVars, py, rd, epoch>>

Cells == 0..(Capacity - 1)
Odd(n) == n % 2 = 1

Init ==
  /\ writeSeq = 0
  /\ slots = [c \in Cells |-> 0]
  /\ feed = [t \in Threads |-> [pc |-> "idle", seq |-> 0]]
  /\ ticks = 0
  /\ lock = 0 /\ word1 = 0 /\ word2 = 0
  /\ py = [pc |-> "poll", last |-> 0, to |-> 0, seq |-> 0, pub |-> 0]
  /\ rd = [pc |-> "idle", tries |-> 0, seq |-> 0, w1 |-> 0, w2 |-> 0, epoch |-> 0,
           floor |-> 0, result |-> "none"]
  /\ epoch = 0

-----------------------------------------------------------------------------
(* LobPublisher::publish, on a feed thread *)

PublishLoad(t) ==
  /\ feed[t].pc = "idle" /\ ticks < MaxTicks
  /\ feed' = [feed EXCEPT ![t] = [pc |-> "fill", seq |-> writeSeq]]
  /\ UNCHANGED <<writeSeq, slots, ticks, fileVars, py, rd, epoch>>

PublishFill(t) ==
  /\ feed[t].pc = "fill"
  /\ slots' = [slots EXCEPT ![feed[t].seq % Capacity] = ticks + 1]
  /\ ticks' = ticks + 1
  /\ feed' = [feed EXCEPT ![t].pc = "store"]
  /\ UNCHANGED <<writeSeq, fileVars, py, rd, epoch>>

\* Mutant of PublishStore: one slot too many is announced.
PublishStoreAhead(t) ==
  /\ feed[t].pc = "store"
  /\ writeSeq' = feed[t].seq + 2
  /\ feed' = [feed EXCEPT ![t].pc = "idle"]
  /\ UNCHANGED <<slots, ticks, fileVars, py, rd, epoch>>

PublishStore(t) ==
  /\ feed[t].pc = "store"
  /\ writeSeq' = feed[t].seq + 1
  /\ feed' = [feed EXCEPT ![t].pc = "idle"]
  /\ UNCHANGED <<slots, ticks, fileVars, py, rd, epoch>>

\* The engine is started again: open() maps the same file, init_header zeroes
\* the slots and the write sequence under a research process that reads on.
EngineRestart ==
  /\ epoch < MaxRestarts
  /\ epoch' = epoch + 1
  /\ writeSeq' = 0
  /\ slots' = [c \in Cells |-> 0]
  /\ feed' = [t \in Threads |-> [pc |-> "idle", seq |-> 0]]
  /\ rd' = [rd EXCEPT !.pc = "idle", !.result = "none"]
  /\ UNCHANGED <<ticks, fileVars, py>>

-----------------------------------------------------------------------------
(* The research process: CoreBridge.read_new_ticks, then publish *)

PollStart ==
  /\ py.pc = "poll"
  /\ py' = [py EXCEPT !.pc = "ticks", !.to = writeSeq,
                      !.last = IF writeSeq > Capacity /\ @ < writeSeq - Capacity
                               THEN writeSeq - Capacity ELSE @]
  /\ UNCHANGED <<ringVars, fileVars, rd, epoch>>

\* One slot is copied; the last one read makes the next signal.
PollTick ==
  /\ py.pc = "ticks" /\ py.last < py.to
  /\ py' = [py EXCEPT !.last = @ + 1]
  /\ UNCHANGED <<ringVars, fileVars, rd, epoch>>

PollEnd ==
  /\ py.pc = "ticks" /\ py.last >= py.to
  /\ py' = [py EXCEPT !.last = py.to, !.pc = "seq"]
  /\ UNCHANGED <<ringVars, fileVars, rd, epoch>>

SignalOpen ==
  /\ py.pc = "seq" /\ py.pub < MaxSignals
  /\ lock' = lock + 1
  /\ py' = [py EXCEPT !.pc = "first", !.seq = lock, !.pub = @ + 1]
  /\ UNCHANGED <<ringVars, word1, word2, rd, epoch>>

SignalFirst ==
  /\ py.pc = "first"
  /\ word1' = py.pub
  /\ py' = [py EXCEPT !.pc = "second"]
  /\ UNCHANGED <<ringVars, lock, word2, rd, epoch>>

SignalSecond ==
  /\ py.pc = "second"
  /\ word2' = py.pub
  /\ py' = [py EXCEPT !.pc = "close"]
  /\ UNCHANGED <<ringVars, lock, word1, rd, epoch>>

\* Mutant of SignalClose: the lock is given back to its old value.
SignalCloseRestores ==
  /\ py.pc = "close"
  /\ lock' = py.seq
  /\ py' = [py EXCEPT !.pc = "poll"]
  /\ UNCHANGED <<ringVars, word1, word2, rd, epoch>>

SignalClose ==
  /\ py.pc = "close"
  /\ lock' = py.seq + 2
  /\ py' = [py EXCEPT !.pc = "poll"]
  /\ UNCHANGED <<ringVars, word1, word2, rd, epoch>>

\* The process dies and is started again: the file is opened with "w+b" and
\* zeroed, the ring is read from its present end.
Restart ==
  /\ epoch < MaxRestarts
  /\ epoch' = epoch + 1
  /\ lock' = 0 /\ word1' = 0 /\ word2' = 0
  /\ py' = [pc |-> "poll", last |-> writeSeq, to |-> writeSeq, seq |-> 0, pub |-> 0]
  /\ UNCHANGED <<ringVars, rd>>

-----------------------------------------------------------------------------
(* AlphaSignalReader::read and RegimeSignalReader::read, on the engine's thread *)

\* The publications that are complete, and cannot be taken back.
Complete == IF py.pc \in {"first", "second", "close"} THEN py.pub - 1 ELSE py.pub

\* The first load of an attempt; an odd word, or running out of attempts, and
\* the read comes back empty.
ReadSeq ==
  /\ rd.pc = "idle" \/ rd.pc = "seq"
  /\ LET n == IF rd.pc = "idle" THEN 1 ELSE rd.tries + 1
         start == [rd EXCEPT !.tries = n, !.seq = lock, !.epoch = epoch, !.floor = Complete, !.result = "none"]
     IN  rd' = CASE ~Odd(lock)                    -> [start EXCEPT !.pc = "first"]
                 [] Odd(lock) /\ n < MaxRetries  -> [start EXCEPT !.pc = "seq"]
                 [] Odd(lock) /\ n >= MaxRetries -> [start EXCEPT !.pc = "idle", !.result = "empty"]
  /\ UNCHANGED <<ringVars, fileVars, py, epoch>>

ReadFirst ==
  /\ rd.pc = "first"
  /\ rd' = [rd EXCEPT !.pc = "second", !.w1 = word1]
  /\ UNCHANGED <<ringVars, fileVars, py, epoch>>

ReadSecond ==
  /\ rd.pc = "second"
  /\ rd' = [rd EXCEPT !.pc = "check", !.w2 = word2]
  /\ UNCHANGED <<ringVars, fileVars, py, epoch>>

ReadCheck ==
  /\ rd.pc = "check"
  /\ rd' = CASE lock = rd.seq -> [rd EXCEPT !.pc = "idle", !.result = "signal"]
             [] lock # rd.seq /\ rd.tries < MaxRetries -> [rd EXCEPT !.pc = "seq"]
             [] lock # rd.seq /\ rd.tries >= MaxRetries -> [rd EXCEPT !.pc = "idle", !.result = "empty"]
  /\ UNCHANGED <<ringVars, fileVars, py, epoch>>

-----------------------------------------------------------------------------
Feed == (\E t \in Threads : PublishLoad(t) \/ PublishFill(t) \/ PublishStore(t)) \/ EngineRestart
Research ==
  PollStart \/ PollTick \/ PollEnd \/ SignalOpen \/ SignalFirst \/ SignalSecond \/ SignalClose \/ Restart
Read == ReadSeq \/ ReadFirst \/ ReadSecond \/ ReadCheck

Next == Feed \/ Research \/ Read

Spec == Init /\ [][Next]_vars

-----------------------------------------------------------------------------
(* What the channels promise *)

TypeOK ==
  /\ writeSeq \in Nat /\ ticks \in Nat /\ epoch \in Nat
  /\ slots \in [Cells -> Nat]
  /\ feed \in [Threads -> [pc : {"idle", "fill", "store"}, seq : Nat]]
  /\ lock \in Nat /\ word1 \in Nat /\ word2 \in Nat
  /\ py \in [pc : {"poll", "ticks", "seq", "first", "second", "close"},
             last : Nat, to : Nat, seq : Nat, pub : Nat]
  /\ rd \in [pc : {"idle", "seq", "first", "second", "check"}, tries : Nat, seq : Nat,
             w1 : Nat, w2 : Nat, epoch : Nat, floor : Nat, result : {"none", "signal", "empty"}]

\* NoTornSignal: a signal the engine accepts is one publication, not the head of
\* one and the tail of another, and no older than the last one complete when the
\* read began, whenever the read does not straddle a restart
\* (alpha_signal.hpp:71).
NoTornSignal ==
  rd.result = "signal" /\ rd.epoch = epoch => rd.w1 = rd.w2 /\ rd.w1 >= rd.floor

\* AnnouncedIsWritten: however the feed threads interleave in publish, every slot
\* below write_seq that the ring still holds has been filled: the research
\* process never reads one that was not written (lob_publisher.hpp:115).
AnnouncedIsWritten ==
  \A s \in 0..(writeSeq - 1) : slots[s % Capacity] # 0
=============================================================================
