--------------------------- MODULE ChannelProofs ---------------------------
(***************************************************************************)
(* Theorems about the channels that are read and written without a lock:    *)
(* the signal file and the tick ring of SharedMemory, for every number of   *)
(* feed threads, slots, retries and restarts, and the fill ring of          *)
(* SpscQueue, for every size.  They share no variable, so each has an       *)
(* inductive invariant of its own.                                          *)
(***************************************************************************)
EXTENDS SharedMemory, SpscQueue, SequenceTheorems, TLAPS

-----------------------------------------------------------------------------
(* The signal file *)

Writing == py.pc \in {"first", "second", "close"}
Reading == rd.pc \in {"first", "second", "check"}

SignalType ==
  /\ lock \in Nat /\ word1 \in Nat /\ word2 \in Nat /\ epoch \in Nat
  /\ py \in [pc : {"poll", "ticks", "seq", "first", "second", "close"},
             last : Nat, to : Nat, seq : Nat, pub : Nat]
  /\ rd \in [pc : {"idle", "seq", "first", "second", "check"}, tries : Nat, seq : Nat,
             w1 : Nat, w2 : Nat, epoch : Nat, floor : Nat, result : {"none", "signal", "empty"}]

\* The sequence word counts the publications twice, and is odd during one.
LockCounts ==
  /\ Writing => /\ py.pub >= 1 /\ py.seq = 2 * (py.pub - 1)
                /\ lock = 2 * (py.pub - 1) + 1
  /\ ~Writing => lock = 2 * py.pub

\* The data words are those of the last publication, or on their way there.
WordsFollow ==
  /\ py.pc \in {"poll", "ticks", "seq"} => word1 = py.pub /\ word2 = py.pub
  /\ py.pc = "first" => word1 = py.pub - 1 /\ word2 = py.pub - 1
  /\ py.pc = "second" => word1 = py.pub /\ word2 = py.pub - 1
  /\ py.pc = "close" => word1 = py.pub /\ word2 = py.pub

\* A read that did not meet a restart: as long as the word is the one it began
\* with, what it has copied is the publication that was complete then.
ReadSound ==
  /\ rd.epoch <= epoch
  /\ Reading /\ rd.epoch = epoch => rd.seq = 2 * rd.floor /\ rd.seq <= lock
  /\ rd.pc \in {"second", "check"} /\ rd.epoch = epoch /\ lock = rd.seq => rd.w1 = rd.floor
  /\ rd.pc = "check" /\ rd.epoch = epoch /\ lock = rd.seq => rd.w2 = rd.floor
  /\ rd.result = "signal" => rd.pc = "idle"
  /\ rd.result = "signal" /\ rd.epoch = epoch => rd.w1 = rd.floor /\ rd.w2 = rd.floor

SignalInv == SignalType /\ LockCounts /\ WordsFollow /\ ReadSound

LEMMA SignalInit == Init => SignalInv
BY DEF Init, SignalInv, SignalType, LockCounts, WordsFollow, ReadSound, Writing, Reading

\* The ring's steps touch none of the file's variables.
LEMMA RingKeepsSignal ==
  ASSUME SignalInv, UNCHANGED <<fileVars, py, rd, epoch>>
  PROVE  SignalInv'
BY DEF SignalInv, SignalType, LockCounts, WordsFollow, ReadSound, Writing, Reading, fileVars

LEMMA PublisherKeepsSignal ==
  ASSUME SignalInv, SignalOpen \/ SignalFirst \/ SignalSecond \/ SignalClose
  PROVE  SignalInv'
<1>1. CASE SignalOpen
  <2>1. SignalType'
    <3>1. lock' = lock + 1 /\ lock \in Nat /\ UNCHANGED <<word1, word2, rd, epoch>>
      BY <1>1 DEF SignalInv, SignalType, SignalOpen
    <3>2. py.pub + 1 \in Nat /\ lock' \in Nat
      BY <3>1 DEF SignalInv, SignalType
    <3>3. py' = [py EXCEPT !.pc = "first", !.seq = lock, !.pub = py.pub + 1]
      BY <1>1 DEF SignalOpen
    <3>4. py' \in [pc : {"poll", "ticks", "seq", "first", "second", "close"},
                   last : Nat, to : Nat, seq : Nat, pub : Nat]
      BY <3>1, <3>2, <3>3 DEF SignalInv, SignalType
    <3> QED
      BY <3>1, <3>2, <3>4 DEF SignalInv, SignalType
  <2>2. py'.pc = "first" /\ py'.seq = lock /\ py'.pub = py.pub + 1
    BY <1>1 DEF SignalInv, SignalType, SignalOpen
  <2>3. LockCounts' /\ WordsFollow'
    BY <1>1, <2>2 DEF SignalInv, SignalType, LockCounts, WordsFollow, Writing, SignalOpen
  <2>4. ReadSound'
    BY <1>1 DEF SignalInv, SignalType, ReadSound, Reading, SignalOpen
  <2> QED
    BY <2>1, <2>3, <2>4 DEF SignalInv
<1>2. CASE SignalFirst
  <2>1. SignalType'
    BY <1>2 DEF SignalInv, SignalType, SignalFirst
  <2>2. py'.pc = "second" /\ py'.seq = py.seq /\ py'.pub = py.pub
    BY <1>2 DEF SignalInv, SignalType, SignalFirst
  <2>3. LockCounts' /\ WordsFollow'
    BY <1>2, <2>2 DEF SignalInv, SignalType, LockCounts, WordsFollow, Writing, SignalFirst
  <2>4. ReadSound'
    BY <1>2 DEF SignalInv, SignalType, ReadSound, Reading, SignalFirst
  <2> QED
    BY <2>1, <2>3, <2>4 DEF SignalInv
<1>3. CASE SignalSecond
  <2>1. SignalType'
    BY <1>3 DEF SignalInv, SignalType, SignalSecond
  <2>2. py'.pc = "close" /\ py'.seq = py.seq /\ py'.pub = py.pub
    BY <1>3 DEF SignalInv, SignalType, SignalSecond
  <2>3. LockCounts' /\ WordsFollow'
    BY <1>3, <2>2 DEF SignalInv, SignalType, LockCounts, WordsFollow, Writing, SignalSecond
  <2>4. ReadSound'
    BY <1>3 DEF SignalInv, SignalType, ReadSound, Reading, SignalSecond
  <2> QED
    BY <2>1, <2>3, <2>4 DEF SignalInv
<1>4. CASE SignalClose
  <2>1. SignalType'
    BY <1>4 DEF SignalInv, SignalType, SignalClose
  <2>2. py'.pc = "poll" /\ py'.pub = py.pub /\ lock' = lock + 1
    BY <1>4 DEF SignalInv, SignalType, LockCounts, Writing, SignalClose
  <2>3. LockCounts' /\ WordsFollow'
    BY <1>4, <2>2 DEF SignalInv, SignalType, LockCounts, WordsFollow, Writing, SignalClose
  <2>4. ReadSound'
    BY <1>4, <2>2 DEF SignalInv, SignalType, ReadSound, Reading, SignalClose
  <2> QED
    BY <2>1, <2>3, <2>4 DEF SignalInv
<1> QED
  BY <1>1, <1>2, <1>3, <1>4

LEMMA PollKeepsSignal ==
  ASSUME SignalInv, writeSeq \in Nat, PollStart \/ PollTick \/ PollEnd
  PROVE  SignalInv'
<1>1. SignalType'
  <2>1. CASE PollStart
    <3>1. writeSeq > Capacity => writeSeq - Capacity \in Nat
      BY IpcAssumption
    <3> QED
      BY <2>1, <3>1, IpcAssumption DEF SignalInv, SignalType, PollStart, fileVars
  <2>2. CASE PollTick
    BY <2>2 DEF SignalInv, SignalType, PollTick, fileVars
  <2>3. CASE PollEnd
    BY <2>3 DEF SignalInv, SignalType, PollEnd, fileVars
  <2> QED
    BY <2>1, <2>2, <2>3
<1>2. LockCounts' /\ WordsFollow'
  BY DEF SignalInv, SignalType, LockCounts, WordsFollow, Writing, PollStart, PollTick, PollEnd, fileVars
<1>3. ReadSound'
  BY DEF SignalInv, ReadSound, Reading, PollStart, PollTick, PollEnd, fileVars
<1> QED
  BY <1>1, <1>2, <1>3 DEF SignalInv

LEMMA RestartKeepsSignal ==
  ASSUME SignalInv, writeSeq \in Nat, Restart \/ EngineRestart
  PROVE  SignalInv'
<1>1. CASE Restart
  BY <1>1 DEF SignalInv, SignalType, LockCounts, WordsFollow, ReadSound, Writing, Reading, Restart
<1>2. CASE EngineRestart
  <2>1. SignalType'
    <3>1. epoch' \in Nat /\ UNCHANGED <<lock, word1, word2, py>>
      BY <1>2 DEF SignalInv, SignalType, EngineRestart, fileVars
    <3>2. rd' = [rd EXCEPT !.pc = "idle", !.result = "none"]
      BY <1>2 DEF EngineRestart
    <3>3. rd' \in [pc : {"idle", "seq", "first", "second", "check"}, tries : Nat, seq : Nat,
                   w1 : Nat, w2 : Nat, epoch : Nat, floor : Nat, result : {"none", "signal", "empty"}]
      BY <3>2 DEF SignalInv, SignalType
    <3> QED
      BY <3>1, <3>3 DEF SignalInv, SignalType
  <2>2. LockCounts' /\ WordsFollow'
    BY <1>2 DEF SignalInv, LockCounts, WordsFollow, Writing, EngineRestart, fileVars
  <2>3. rd'.pc = "idle" /\ rd'.result = "none" /\ rd'.epoch = rd.epoch /\ epoch' = epoch + 1
    BY <1>2 DEF SignalInv, SignalType, EngineRestart
  <2>4. ReadSound'
    BY <2>3 DEF SignalInv, SignalType, ReadSound, Reading
  <2> QED
    BY <2>1, <2>2, <2>4 DEF SignalInv
<1> QED
  BY <1>1, <1>2

LEMMA ReadKeepsSignal ==
  ASSUME SignalInv, Read
  PROVE  SignalInv'
<1>1. UNCHANGED <<lock, word1, word2, py, epoch>>
  BY DEF Read, ReadSeq, ReadFirst, ReadSecond, ReadCheck, fileVars
<1>2. LockCounts' /\ WordsFollow'
  BY <1>1 DEF SignalInv, LockCounts, WordsFollow, Writing
<1>3. CASE ReadSeq
  <2>1. Writing => Odd(lock)
    BY DEF SignalInv, SignalType, LockCounts, Odd
  <2>2. Complete \in Nat
    BY DEF SignalInv, SignalType, LockCounts, Writing, Complete
  <2> DEFINE n == IF rd.pc = "idle" THEN 1 ELSE rd.tries + 1
             start == [rd EXCEPT !.tries = n, !.seq = lock, !.epoch = epoch, !.floor = Complete,
                                 !.result = "none"]
             RdType == [pc : {"idle", "seq", "first", "second", "check"}, tries : Nat, seq : Nat,
                        w1 : Nat, w2 : Nat, epoch : Nat, floor : Nat,
                        result : {"none", "signal", "empty"}]
  <2>a. n \in Nat /\ MaxRetries \in Nat
    BY IpcAssumption DEF SignalInv, SignalType
  <2> HIDE DEF n
  <2>b. /\ start \in RdType
        /\ start.epoch = epoch /\ start.result = "none" /\ start.seq = lock /\ start.floor = Complete
    BY <2>2, <2>a DEF SignalInv, SignalType
  <2>c. \/ ~Odd(lock) /\ rd' = [start EXCEPT !.pc = "first"]
        \/ rd' = [start EXCEPT !.pc = "seq"]
        \/ rd' = [start EXCEPT !.pc = "idle", !.result = "empty"]
    BY <1>3, <2>a DEF ReadSeq, n
  <2> HIDE DEF start
  <2>d. /\ rd' \in RdType /\ rd'.epoch = epoch /\ rd'.result # "signal"
        /\ rd'.pc \in {"first", "seq", "idle"}
        /\ rd'.pc = "first" => rd'.seq = lock /\ rd'.floor = Complete /\ ~Odd(lock)
    BY <2>b, <2>c
  <2>3. SignalType'
    BY <1>1, <2>d DEF SignalInv, SignalType
  <2>4. rd'.epoch = epoch /\ rd'.result # "signal" /\ rd'.pc \in {"first", "seq", "idle"}
    BY <2>d
  <2>5. rd'.pc = "first" => rd'.seq = lock /\ rd'.floor = Complete /\ ~Odd(lock)
    BY <2>d
  <2>6. rd'.pc = "first" => rd'.seq = 2 * rd'.floor /\ rd'.seq <= lock
    BY <2>1, <2>5 DEF SignalInv, SignalType, LockCounts, Writing, Complete
  <2>7. ReadSound'
    BY <1>1, <2>4, <2>6 DEF SignalInv, SignalType, ReadSound, Reading
  <2> QED
    BY <1>2, <2>3, <2>7 DEF SignalInv
<1>4. CASE ReadFirst
  <2>1. lock = rd.seq /\ rd.epoch = epoch => word1 = rd.floor
    BY <1>4 DEF SignalInv, SignalType, LockCounts, WordsFollow, ReadSound, Writing, Reading, ReadFirst
  <2> QED
    BY <1>1, <1>2, <1>4, <2>1 DEF SignalInv, SignalType, ReadSound, Reading, ReadFirst
<1>5. CASE ReadSecond
  <2>1. lock = rd.seq /\ rd.epoch = epoch => word2 = rd.floor
    BY <1>5 DEF SignalInv, SignalType, LockCounts, WordsFollow, ReadSound, Writing, Reading, ReadSecond
  <2> QED
    BY <1>1, <1>2, <1>5, <2>1 DEF SignalInv, SignalType, ReadSound, Reading, ReadSecond
<1>6. CASE ReadCheck
  <2>1. \/ lock = rd.seq /\ rd' = [rd EXCEPT !.pc = "idle", !.result = "signal"]
        \/ rd' = [rd EXCEPT !.pc = "seq"]
        \/ rd' = [rd EXCEPT !.pc = "idle", !.result = "empty"]
    BY <1>6, IpcAssumption DEF SignalInv, SignalType, ReadCheck
  <2>2. SignalType'
    BY <1>1, <2>1 DEF SignalInv, SignalType
  <2>3. /\ rd'.pc \in {"idle", "seq"} /\ rd'.epoch = rd.epoch
        /\ rd'.w1 = rd.w1 /\ rd'.w2 = rd.w2 /\ rd'.floor = rd.floor
        /\ rd'.result = "signal" => lock = rd.seq /\ rd'.pc = "idle"
    <3>1. rd.result # "signal"
      BY <1>6 DEF SignalInv, SignalType, ReadSound, ReadCheck
    <3> QED
      BY <2>1, <3>1 DEF SignalInv, SignalType
  <2>4. ReadSound'
    BY <1>1, <1>6, <2>3 DEF SignalInv, SignalType, ReadSound, Reading, ReadCheck
  <2> QED
    BY <1>2, <2>2, <2>4 DEF SignalInv
<1> QED
  BY <1>3, <1>4, <1>5, <1>6 DEF Read

-----------------------------------------------------------------------------
(* The tick ring *)

\* Every slot below the n-th is filled.
Filled(n) == \A s \in 0..(n - 1) : slots[s % Capacity] # 0

RingType ==
  /\ writeSeq \in Nat /\ ticks \in Nat
  /\ slots \in [Cells -> Nat]
  /\ feed \in [Threads -> [pc : {"idle", "fill", "store"}, seq : Nat]]

\* What a thread is about to announce is filled already, except for its own slot.
RingInv ==
  /\ RingType
  /\ Filled(writeSeq)
  /\ \A t \in Threads : feed[t].pc # "idle" => Filled(feed[t].seq)
  /\ \A t \in Threads : feed[t].pc = "store" => slots[feed[t].seq % Capacity] # 0

LEMMA CellOf == \A s \in Nat : s % Capacity \in Cells
BY IpcAssumption DEF Cells

LEMMA RingInit == Init => RingInv
BY DEF Init, RingInv, RingType, Filled, Cells

LEMMA LoadKeepsRing ==
  ASSUME RingInv, NEW t \in Threads, PublishLoad(t)
  PROVE  RingInv'
BY DEF RingInv, RingType, Filled, PublishLoad

\* A slot that is filled stays filled.
LEMMA FillKeepsRing ==
  ASSUME RingInv, NEW t \in Threads, PublishFill(t)
  PROVE  RingInv'
<1>1. /\ feed[t].seq \in Nat /\ ticks + 1 \in Nat \ {0} /\ feed[t].pc = "fill"
      /\ feed[t].seq % Capacity \in Cells
  BY CellOf DEF RingInv, RingType, PublishFill
<1>2. RingType'
  BY <1>1 DEF RingInv, RingType, PublishFill
<1>3. \A c \in Cells : slots[c] # 0 => slots'[c] # 0
  BY <1>1 DEF RingInv, RingType, PublishFill
<1>4. slots'[feed[t].seq % Capacity] # 0
  BY <1>1 DEF RingInv, RingType, PublishFill
<1>5. \A n \in Nat : Filled(n) => Filled(n)'
  <2> SUFFICES ASSUME NEW n \in Nat, Filled(n), NEW s \in 0..(n - 1)
               PROVE  slots'[s % Capacity] # 0
    BY DEF Filled
  <2>1. s \in Nat /\ s % Capacity \in Cells
    BY CellOf
  <2> QED
    BY <1>3, <2>1 DEF Filled
<1>6. \A u \in Threads : /\ feed'[u].seq = feed[u].seq
                         /\ u # t => feed'[u].pc = feed[u].pc
  BY DEF RingInv, RingType, PublishFill
<1>7. Filled(writeSeq)'
  BY <1>5 DEF RingInv, RingType, PublishFill, Filled
<1>8. \A u \in Threads : feed'[u].pc # "idle" => Filled(feed[u].seq)'
  <2> SUFFICES ASSUME NEW u \in Threads, feed'[u].pc # "idle"
               PROVE  Filled(feed[u].seq)'
    OBVIOUS
  <2>1. feed[u].pc # "idle" /\ feed[u].seq \in Nat /\ feed'[u].seq = feed[u].seq
    BY <1>1, <1>6 DEF RingInv, RingType
  <2>2. \A s \in 0..(feed[u].seq - 1) : slots'[s % Capacity] # 0
    BY <1>5, <2>1 DEF RingInv, Filled
  <2> QED
    BY <2>1, <2>2 DEF Filled
<1>9. \A u \in Threads : feed'[u].pc = "store" => slots'[feed'[u].seq % Capacity] # 0
  <2> SUFFICES ASSUME NEW u \in Threads, feed'[u].pc = "store"
               PROVE  slots'[feed'[u].seq % Capacity] # 0
    OBVIOUS
  <2>1. feed[u].seq % Capacity \in Cells
    BY CellOf DEF RingInv, RingType
  <2> QED
    BY <1>3, <1>4, <1>6, <2>1 DEF RingInv
<1> QED
  BY <1>2, <1>7, <1>8, <1>9 DEF RingInv

LEMMA StoreKeepsRing ==
  ASSUME RingInv, NEW t \in Threads, PublishStore(t)
  PROVE  RingInv'
<1>1. /\ feed[t].seq \in Nat /\ writeSeq' = feed[t].seq + 1 /\ slots' = slots
      /\ feed[t].pc = "store" /\ Filled(feed[t].seq) /\ slots[feed[t].seq % Capacity] # 0
  BY DEF RingInv, RingType, PublishStore
<1>2. RingType'
  BY <1>1 DEF RingInv, RingType, PublishStore
<1>3. \A u \in Threads : /\ feed'[u].seq = feed[u].seq
                         /\ feed'[u].pc # "idle" => feed'[u].pc = feed[u].pc
  BY DEF RingInv, RingType, PublishStore
<1>4. Filled(writeSeq)'
  <2> SUFFICES ASSUME NEW s \in 0..(writeSeq' - 1) PROVE slots'[s % Capacity] # 0
    BY DEF Filled
  <2>1. s \in 0..(feed[t].seq - 1) \/ s = feed[t].seq
    BY <1>1
  <2> QED
    BY <1>1, <2>1 DEF Filled
<1> QED
  BY <1>1, <1>2, <1>3, <1>4 DEF RingInv, Filled

LEMMA RestartKeepsRing ==
  ASSUME EngineRestart, RingInv
  PROVE  RingInv'
BY DEF EngineRestart, RingInv, RingType, Filled, Cells

-----------------------------------------------------------------------------
(* Both channels of the shared memory *)

Inv == SignalInv /\ RingInv

LEMMA InvStep == Inv /\ [Next]_vars => Inv'
<1> SUFFICES ASSUME Inv, [Next]_vars PROVE Inv'
  OBVIOUS
<1>1. writeSeq \in Nat
  BY DEF Inv, RingInv, RingType
<1>2. ASSUME NEW t \in Threads, PublishLoad(t) \/ PublishFill(t) \/ PublishStore(t) PROVE Inv'
  <2>1. SignalInv'
    BY <1>2, RingKeepsSignal DEF Inv, PublishLoad, PublishFill, PublishStore
  <2> QED
    BY <1>2, <2>1, LoadKeepsRing, FillKeepsRing, StoreKeepsRing DEF Inv
<1>3. CASE EngineRestart
  BY <1>1, <1>3, RestartKeepsSignal, RestartKeepsRing DEF Inv
<1>4. CASE Research \/ Read \/ UNCHANGED vars
  <2>1. UNCHANGED ringVars
    BY <1>4 DEF Research, PollStart, PollTick, PollEnd, SignalOpen, SignalFirst, SignalSecond,
                SignalClose, Restart, Read, ReadSeq, ReadFirst, ReadSecond, ReadCheck, vars
  <2>2. RingInv'
    BY <2>1 DEF Inv, RingInv, RingType, Filled, ringVars
  <2>3. SignalInv'
    <3>1. CASE Research
      BY <1>1, <3>1, PublisherKeepsSignal, PollKeepsSignal, RestartKeepsSignal DEF Inv, Research
    <3>2. CASE Read
      BY <3>2, ReadKeepsSignal DEF Inv
    <3>3. CASE UNCHANGED vars
      BY <3>3, RingKeepsSignal DEF Inv, vars
    <3> QED
      BY <1>4, <3>1, <3>2, <3>3
  <2> QED
    BY <2>2, <2>3 DEF Inv
<1> QED
  BY <1>2, <1>3, <1>4 DEF Next, Feed

\* The type invariant of the two channels (alpha_signal.hpp, lob_publisher.hpp).
THEOREM TypeCorrect == Spec => []TypeOK
<1>1. Init => Inv
  BY SignalInit, RingInit DEF Inv
<1>2. Inv => TypeOK
  BY DEF Inv, SignalInv, SignalType, RingInv, RingType, TypeOK
<1> QED
  BY <1>1, <1>2, InvStep, PTL DEF Spec

\* A signal the engine accepts is whole and no older than the last complete one,
\* for every number of retries, publications and restarts (alpha_signal.hpp:71).
THEOREM SignalIsWhole == Spec => []NoTornSignal
<1>1. Init => Inv
  BY SignalInit, RingInit DEF Inv
<1>2. Inv => NoTornSignal
  BY DEF Inv, SignalInv, SignalType, ReadSound, NoTornSignal
<1> QED
  BY <1>1, <1>2, InvStep, PTL DEF Spec

\* No announced slot is unwritten, for every number of feed threads and slots
\* (lob_publisher.hpp:115).
THEOREM RingIsFilled == Spec => []AnnouncedIsWritten
<1>1. Init => Inv
  BY SignalInit, RingInit DEF Inv
<1>2. Inv => AnnouncedIsWritten
  BY DEF Inv, RingInv, Filled, AnnouncedIsWritten
<1> QED
  BY <1>1, <1>2, InvStep, PTL DEF Spec

-----------------------------------------------------------------------------
(* The fill ring: a first-in first-out queue, for every size of the ring *)

USE RingAssumption

\* The inductive invariant.  Each thread's test stays true until the thread
\* acts on it, because the other thread can only move its index away: the
\* producer's "not full" while it writes, the consumer's "not empty" while it
\* reads.
ProducerSound ==
  /\ prod.pc # "idle" => prod.item \in Items /\ Succ(write) # read
  /\ prod.pc = "store" => buf[write] = prod.item

ConsumerSound ==
  /\ cons.pc # "idle" => read # write
  /\ cons.pc = "store" => cons.item = buf[read]

QueueInv == QueueTypeOK /\ ProducerSound /\ ConsumerSound

\* Succ permutes the cells (order_manager.hpp:23 and :36, the masked indices).
LEMMA SuccProperties ==
  ASSUME NEW i \in Places, NEW j \in Places
  PROVE  Succ(i) \in Places /\ Succ(i) # i /\ (Succ(i) = Succ(j) => i = j)
BY DEF Succ, Places

\* Every step of either thread keeps the invariant.
LEMMA QueueInvInductive == QueueInv /\ [QueueNext]_queueVars => QueueInv'
<1> SUFFICES ASSUME QueueInv, [QueueNext]_queueVars PROVE QueueInv'
  OBVIOUS
<1> USE DEF QueueInv, QueueTypeOK, ProducerSound, ConsumerSound
<1>0. /\ Succ(write) \in Places /\ Succ(read) \in Places
      /\ Succ(write) = Succ(read) => write = read
      /\ Succ(write) # write /\ Succ(read) # read
  BY SuccProperties
<1>1. CASE PushFull
  BY <1>1 DEF PushFull, consVars
<1>2. ASSUME NEW x \in Items, PushCheck(x) PROVE QueueInv'
  BY <1>2 DEF PushCheck, consVars, Full
<1>3. CASE PushCopy
  BY <1>3 DEF PushCopy, consVars
<1>4. CASE PushStore
  BY <1>0, <1>4 DEF PushStore, consVars
<1>5. CASE PopEmpty
  BY <1>5 DEF PopEmpty, prodVars
<1>6. CASE PopCheck
  BY <1>6 DEF PopCheck, prodVars, Empty
<1>7. CASE PopCopy
  BY <1>7 DEF PopCopy, prodVars
<1>8. CASE PopStore
  BY <1>0, <1>8 DEF PopStore, prodVars
<1>9. CASE UNCHANGED queueVars
  BY <1>9 DEF queueVars
<1> QED
  BY <1>1, <1>2, <1>3, <1>4, <1>5, <1>6, <1>7, <1>8, <1>9 DEF QueueNext, Producer, Consumer

LEMMA QueueInvHolds == QueueSpec => []QueueInv
<1>1. QueueInit => QueueInv
  BY DEF QueueInit, QueueInv, QueueTypeOK, ProducerSound, ConsumerSound, Places
<1> QED
  BY <1>1, QueueInvInductive, PTL DEF QueueSpec

\* RingTypeCorrect: the indices stay inside the ring whatever its size.
THEOREM RingTypeCorrect == QueueSpec => []QueueTypeOK
<1>1. QueueInv => QueueTypeOK
  BY DEF QueueInv
<1> QED
  BY <1>1, QueueInvHolds, PTL

\* NoItemIsTorn: no interleaving of push and pop makes the two threads copy
\* the same cell at once (order_manager.hpp:26 and :35).
THEOREM NoItemIsTorn == QueueSpec => []NoTornItem
<1>1. QueueInv => NoTornItem
  BY DEF QueueInv, QueueTypeOK, ProducerSound, ConsumerSound, NoTornItem
<1> QED
  BY <1>1, QueueInvHolds, PTL

-----------------------------------------------------------------------------
(* The refinement: facts about the cells between the two indices. *)

LEMMA CountProperties ==
  ASSUME QueueTypeOK
  PROVE  /\ Count \in 0..(N - 1)
         /\ Count = 0 <=> read = write
         /\ Count = N - 1 <=> Succ(write) = read
         /\ \A i \in 0..(N - 1) : Cell(i) \in Places
         /\ \A i \in 0..(N - 1) : Cell(i) = write <=> i = Count
         /\ Cell(0) = read
BY DEF QueueTypeOK, Places, Count, Cell, Succ

LEMMA ContentsType ==
  ASSUME QueueTypeOK
  PROVE  /\ Contents \in Seq(Items \cup {None})
         /\ Len(Contents) = Count
         /\ \A i \in 1..Count : Contents[i] = buf[Cell(i - 1)]
<1>1. Count \in Nat /\ Count <= N - 1
  BY CountProperties
<1>2. \A i \in 1..Count : buf[Cell(i - 1)] \in Items \cup {None}
  BY <1>1, CountProperties DEF QueueTypeOK
<1>3. Contents \in [1..Count -> Items \cup {None}]
  BY <1>2 DEF Contents
<1>4. Contents \in Seq(Items \cup {None})
  BY <1>1, <1>3
<1>5. Len(Contents) = Count
  BY <1>1, <1>3, <1>4
<1>6. \A i \in 1..Count : Contents[i] = buf[Cell(i - 1)]
  BY DEF Contents
<1> QED
  BY <1>4, <1>5, <1>6

\* A step that moves no index and writes no queued cell leaves the contents.
LEMMA ContentsKept ==
  ASSUME QueueTypeOK, write' = write, read' = read,
         \A c \in Places : c # write => buf'[c] = buf[c]
  PROVE  Contents' = Contents
<1>1. Count' = Count
  BY DEF Count
<1>2. \A i \in 1..Count : Cell(i - 1)' = Cell(i - 1) /\ buf'[Cell(i - 1)] = buf[Cell(i - 1)]
  <2> SUFFICES ASSUME NEW i \in 1..Count
               PROVE  Cell(i - 1)' = Cell(i - 1) /\ buf'[Cell(i - 1)] = buf[Cell(i - 1)]
    OBVIOUS
  <2>1. i - 1 \in 0..(N - 1) /\ i - 1 # Count
    BY CountProperties
  <2>2. Cell(i - 1) \in Places /\ Cell(i - 1) # write
    BY <2>1, CountProperties
  <2> QED
    BY <2>2 DEF Cell
<1> QED
  BY <1>1, <1>2 DEF Contents

\* The producer's release store appends the item it wrote.
LEMMA StoreAppends ==
  ASSUME QueueInv, PushStore
  PROVE  Contents' = Append(Contents, prod.item) /\ Count < N - 1
<1>1. /\ prod.item = buf[write] /\ Succ(write) # read
      /\ write' = Succ(write) /\ read' = read /\ buf' = buf
  BY DEF QueueInv, ProducerSound, PushStore, consVars
<1>2. QueueTypeOK /\ QueueTypeOK'
  BY QueueInvInductive DEF QueueInv, QueueNext, Producer
<1>3. Count < N - 1
  BY <1>1, <1>2, CountProperties
<1>4. Count' = Count + 1
  BY <1>1, <1>2, <1>3 DEF QueueTypeOK, Places, Count, Succ
<1>5. \A i \in 1..(Count + 1) :
        buf'[Cell(i - 1)'] = IF i = Count + 1 THEN prod.item ELSE buf[Cell(i - 1)]
  <2> SUFFICES ASSUME NEW i \in 1..(Count + 1)
               PROVE  buf'[Cell(i - 1)'] = IF i = Count + 1 THEN prod.item ELSE buf[Cell(i - 1)]
    OBVIOUS
  <2>1. Cell(i - 1)' = Cell(i - 1)
    BY <1>1 DEF Cell
  <2>2. Count \in 0..(N - 1) /\ Cell(Count) = write
    BY <1>2, CountProperties
  <2>3. CASE i = Count + 1
    BY <1>1, <2>1, <2>2, <2>3
  <2>4. CASE i # Count + 1
    BY <1>1, <2>1, <2>4
  <2> QED
    BY <2>3, <2>4
<1>6. Contents' = [i \in 1..(Count + 1) |-> IF i = Count + 1 THEN prod.item ELSE buf[Cell(i - 1)]]
  BY <1>4, <1>5 DEF Contents
<1>7. Append(Contents, prod.item)
        = [i \in 1..(Count + 1) |-> IF i = Count + 1 THEN prod.item ELSE Contents[i]]
  BY <1>2, ContentsType
<1>8. \A i \in 1..(Count + 1) : i # Count + 1 => Contents[i] = buf[Cell(i - 1)]
  BY <1>2, ContentsType, CountProperties
<1> QED
  BY <1>3, <1>6, <1>7, <1>8

\* The consumer's release store removes the item it copied.
LEMMA StoreRemoves ==
  ASSUME QueueInv, PopStore
  PROVE  /\ Contents # << >>
         /\ Contents' = Tail(Contents)
         /\ cons.item = Head(Contents)
<1>1. /\ cons.item = buf[read] /\ read # write
      /\ read' = Succ(read) /\ write' = write /\ buf' = buf
  BY DEF QueueInv, ConsumerSound, PopStore, prodVars
<1>2. QueueTypeOK /\ QueueTypeOK'
  BY QueueInvInductive DEF QueueInv, QueueNext, Consumer
<1>3. Count \in 1..(N - 1)
  BY <1>1, <1>2, CountProperties
<1>4. Count' = Count - 1
  BY <1>1, <1>2, <1>3 DEF QueueTypeOK, Places, Count, Succ
<1>5. \A i \in 1..(Count - 1) : Cell(i - 1)' = Cell(i)
  BY <1>1, <1>2, <1>3 DEF QueueTypeOK, Places, Cell, Succ
<1>6. Contents' = [i \in 1..(Count - 1) |-> buf[Cell(i)]]
  BY <1>1, <1>4, <1>5 DEF Contents
<1>7. /\ Contents \in Seq(Items \cup {None}) /\ Len(Contents) = Count
      /\ \A i \in 1..Count : Contents[i] = buf[Cell(i - 1)]
  BY <1>2, ContentsType
<1>8. \A i \in 1..(Count - 1) : Contents[i + 1] = buf[Cell(i)]
  <2> SUFFICES ASSUME NEW i \in 1..(Count - 1) PROVE Contents[i + 1] = buf[Cell(i)]
    OBVIOUS
  <2>1. i + 1 \in 1..Count /\ (i + 1) - 1 = i
    BY <1>3
  <2> QED
    BY <1>7, <2>1
<1>9. Contents # << >> /\ Contents' = Tail(Contents)
  <2>1. Contents # << >>
    BY <1>3, <1>7
  <2>2. /\ Tail(Contents) \in Seq(Items \cup {None})
        /\ Len(Tail(Contents)) = Count - 1
        /\ \A i \in 1..(Count - 1) : Tail(Contents)[i] = Contents[i + 1]
    BY <1>7, <2>1, HeadTailProperties
  <2>3. \A i \in 1..(Count - 1) : buf[Cell(i)] \in Items \cup {None}
    BY <1>2, <1>3, CountProperties DEF QueueTypeOK
  <2>4. Contents' \in Seq(Items \cup {None}) /\ Len(Contents') = Count - 1
    <3>1. Contents' \in [1..(Count - 1) -> Items \cup {None}] /\ Count - 1 \in Nat
      BY <1>3, <1>6, <2>3
    <3> QED
      BY <3>1
  <2>5. \A i \in 1..(Count - 1) : Contents'[i] = Tail(Contents)[i]
    BY <1>6, <1>8, <2>2
  <2> QED
    BY <2>1, <2>2, <2>4, <2>5, SeqEqual
<1>10. Head(Contents) = buf[read]
  <2>1. Head(Contents) = Contents[1]
    BY <1>3, <1>7
  <2>2. Contents[1] = buf[Cell(1 - 1)] /\ 1 - 1 = 0
    BY <1>3, <1>7
  <2>3. Cell(0) = read
    BY <1>2, CountProperties
  <2> QED
    BY <2>1, <2>2, <2>3
<1> QED
  BY <1>1, <1>9, <1>10

\* RingImplementsQueue: whatever the interleaving and the size of the ring,
\* push and pop are those of a FIFO queue of N - 1 items
\* (order_manager.hpp:21 and :31).
THEOREM RingImplementsQueue == QueueSpec => ImplementsQueue
<1>1. QueueInit => Queue!Init
  <2> SUFFICES ASSUME QueueInit PROVE Queue!Init
    OBVIOUS
  <2>1. QueueTypeOK /\ Count = 0
    BY DEF QueueInit, QueueTypeOK, Places, Count
  <2>2. Contents = << >>
    BY <2>1, ContentsType
  <2> QED
    BY <2>2 DEF QueueInit, Queue!Init, None
<1>2. QueueInv /\ [QueueNext]_queueVars => [Queue!Next]_(Queue!vars)
  <2> SUFFICES ASSUME QueueInv, [QueueNext]_queueVars PROVE [Queue!Next]_(Queue!vars)
    OBVIOUS
  <2> USE DEF Queue!vars
  <2>0. /\ QueueTypeOK
        /\ Len(Contents) = Count
        /\ Contents \in Seq(Items \cup {None})
        /\ Count = N - 1 <=> Succ(write) = read
        /\ Count \in Nat
        /\ Count = 0 <=> read = write
    BY CountProperties, ContentsType DEF QueueInv
  <2>1. CASE PushFull
    <3>1. Contents' = Contents
      BY <2>0, <2>1, ContentsKept DEF PushFull, consVars
    <3> QED
      BY <2>0, <2>1, <3>1 DEF PushFull, Full, consVars, Queue!Next, Queue!PushFull
  <2>2. ASSUME NEW x \in Items, PushCheck(x) PROVE UNCHANGED Queue!vars
    <3>1. Contents' = Contents
      BY <2>0, <2>2, ContentsKept DEF PushCheck, consVars
    <3> QED
      BY <2>2, <3>1 DEF PushCheck, consVars
  <2>3. CASE PushCopy
    <3>1. Contents' = Contents
      BY <2>0, <2>3, ContentsKept DEF PushCopy, consVars, QueueTypeOK
    <3> QED
      BY <2>3, <3>1 DEF PushCopy, consVars
  <2>4. CASE PushStore
    <3>1. Contents' = Append(Contents, prod.item) /\ Count < N - 1
      BY <2>4, StoreAppends
    <3>2. prod.item \in Items
      BY <2>4 DEF PushStore, QueueInv, ProducerSound
    <3>3. Queue!Push(prod.item)
      BY <2>0, <2>4, <3>1 DEF PushStore, consVars, Queue!Push
    <3> QED
      BY <3>2, <3>3 DEF Queue!Next
  <2>5. CASE PopEmpty
    <3>1. Contents' = Contents
      BY <2>0, <2>5, ContentsKept DEF PopEmpty, prodVars
    <3>2. Contents = << >>
      BY <2>0, <2>5 DEF PopEmpty, Empty
    <3> QED
      BY <2>5, <3>1, <3>2 DEF PopEmpty, prodVars, Queue!Next, Queue!PopEmpty
  <2>6. CASE PopCheck
    <3>1. Contents' = Contents
      BY <2>0, <2>6, ContentsKept DEF PopCheck, prodVars
    <3> QED
      BY <2>6, <3>1 DEF PopCheck, prodVars
  <2>7. CASE PopCopy
    <3>1. Contents' = Contents
      BY <2>0, <2>7, ContentsKept DEF PopCopy, prodVars
    <3> QED
      BY <2>7, <3>1 DEF PopCopy, prodVars
  <2>8. CASE PopStore
    <3>1. Contents # << >> /\ Contents' = Tail(Contents) /\ cons.item = Head(Contents)
      BY <2>8, StoreRemoves
    <3> QED
      BY <2>8, <3>1 DEF PopStore, prodVars, Queue!Next, Queue!Pop
  <2>9. CASE UNCHANGED queueVars
    <3>1. Contents' = Contents
      BY <2>0, <2>9, ContentsKept DEF queueVars
    <3> QED
      BY <2>9, <3>1 DEF queueVars
  <2> QED
    BY <2>1, <2>2, <2>3, <2>4, <2>5, <2>6, <2>7, <2>8, <2>9 DEF QueueNext, Producer, Consumer
<1> QED
  BY <1>1, <1>2, QueueInvHolds, PTL DEF QueueSpec, ImplementsQueue, Queue!Spec
=============================================================================
