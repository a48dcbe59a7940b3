----------------------------- MODULE PipeProofs -----------------------------
(***************************************************************************)
(* Proofs about Pipe, for any number of readers and writers, any size of   *)
(* the pipe and any width of its counters.  NoSleeperForgotten speaks of    *)
(* the moments at which pi->lock is free; in between the caller that holds  *)
(* it may owe the sleepers a wakeup.  Awaited says who: a writer that wrote *)
(* a byte, a reader that is past its first loop.  PipeIsFifo rests on the   *)
(* facts of RingProofs about rings whose size divides the range of indices. *)
(***************************************************************************)
EXTENDS Pipe, RingProofs

\* The labels at which a process holds pi->lock.
Inside == {"wloop", "rwait", "rcopy", "rdone"}

Holding ==
  \A p \in Procs :
    /\ pc[p] \in Inside <=> lock = p
    /\ pc[p] \in {"wlock", "wloop", "wsleep"} => p \in Writers
    /\ pc[p] \in {"rlock", "rwait", "rcopy", "rdone", "rsleep"} => p \in Readers
    /\ i[p] <= n[p]

\* An end is open as long as a process has it; nobody is in a call without, and
\* nobody sleeps on a pipe whose other end is closed.
Ends ==
  /\ \A p \in open : IF p \in Readers THEN readopen ELSE writeopen
  /\ \A p \in Procs \ open : pc[p] = "idle"
  /\ freed => ~readopen /\ ~writeopen
  /\ \A p \in Procs : (pc[p] = "rsleep" => writeopen) /\ (pc[p] = "wsleep" => readopen)

Awaited ==
  \A p \in Procs :
    /\ pc[p] = "rsleep" =>
         empty \/ KilledMidWrite \/ \E w \in Writers : lock = w /\ i[w] > 0
    /\ pc[p] = "wsleep" =>
         full \/ \E r \in Readers : lock = r /\ pc[r] \in {"rcopy", "rdone"}

PipeInv == TypeOK /\ Holding /\ Ends /\ Awaited

-----------------------------------------------------------------------------
\* Every process is idle, with both ends open.
LEMMA InitInv == Init => PipeInv
<1> SUFFICES ASSUME Init PROVE PipeInv
  OBVIOUS
<1> USE PipeConstantsOK DEF Init, PipeConstantsOK, Procs
<1>1. TypeOK
  <2>1. /\ readopen \in BOOLEAN /\ writeopen \in BOOLEAN /\ freed \in BOOLEAN
        /\ killed \in [Procs -> BOOLEAN]
    BY Zenon
  <2>2. QED
    BY <2>1 DEF TypeOK
<1>2. Holding
  BY DEF Holding, Inside
<1>3. Ends
  <2>1. readopen /\ writeopen /\ ~freed
    BY Zenon
  <2>2. QED
    BY <2>1 DEF Ends
<1>4. Awaited
  BY DEF Awaited
<1>5. QED
  BY <1>1, <1>2, <1>3, <1>4 DEF PipeInv

\* The counters stay unsigned.
LEMMA Unsigned == \A k \in Nat : (k + 1) % UINT \in 0 .. UINT - 1
BY PipeConstantsOK DEF PipeConstantsOK

\* One step per operation and per part of the invariant.
LEMMA NextInv == PipeInv /\ [Next]_vars => PipeInv'
<1> SUFFICES ASSUME PipeInv, [Next]_vars PROVE PipeInv'
  OBVIOUS
<1> USE PipeConstantsOK DEF PipeConstantsOK, Procs, PipeInv
<1>1. ASSUME NEW p \in Procs, NEW k \in 0 .. MaxCount, Call(p, k) PROVE PipeInv'
  <2> USE <1>1 DEF Call, goto, wake, relock, forget, pipe
  <2>1. TypeOK'
    BY Unsigned DEF TypeOK, Holding
  <2>2. Holding'
    BY DEF TypeOK, Holding, Inside
  <2>3. Ends'
    BY DEF TypeOK, Holding, Ends, Inside, bothclosed
  <2>4. Awaited'
    BY DEF TypeOK, Holding, Ends, Awaited, Inside, KilledMidWrite, full, empty
  <2>5. QED
    BY <2>1, <2>2, <2>3, <2>4
<1>2. ASSUME NEW p \in Procs, Acquire(p) PROVE PipeInv'
  <2> USE <1>2 DEF Acquire, goto, wake, relock, forget, pipe
  <2>1. TypeOK'
    BY Unsigned DEF TypeOK, Holding
  <2>2. Holding'
    BY DEF TypeOK, Holding, Inside
  <2>3. Ends'
    BY DEF TypeOK, Holding, Ends, Inside, bothclosed
  <2>4. Awaited'
    BY DEF TypeOK, Holding, Ends, Awaited, Inside, KilledMidWrite, full, empty
  <2>5. QED
    BY <2>1, <2>2, <2>3, <2>4
<1>3. ASSUME NEW p \in Procs, WriteFail(p) PROVE PipeInv'
  <2> USE <1>3 DEF WriteFail, goto, wake, relock, forget, pipe
  <2>1. TypeOK'
    BY Unsigned DEF TypeOK, Holding
  <2>2. Holding'
    BY DEF TypeOK, Holding, Inside
  <2>3. Ends'
    BY DEF TypeOK, Holding, Ends, Inside, bothclosed
  <2>4. Awaited'
    BY DEF TypeOK, Holding, Ends, Awaited, Inside, KilledMidWrite, full, empty
  <2>5. QED
    BY <2>1, <2>2, <2>3, <2>4
<1>4. ASSUME NEW p \in Procs, WriteSleep(p) PROVE PipeInv'
  <2> USE <1>4 DEF WriteSleep, goto, wake, relock, forget, pipe
  <2>1. TypeOK'
    BY Unsigned DEF TypeOK, Holding
  <2>2. Holding'
    BY DEF TypeOK, Holding, Inside
  <2>3. Ends'
    BY DEF TypeOK, Holding, Ends, Inside, bothclosed
  <2>4. Awaited'
    BY DEF TypeOK, Holding, Ends, Awaited, Inside, KilledMidWrite, full, empty
  <2>5. QED
    BY <2>1, <2>2, <2>3, <2>4
<1>5. ASSUME NEW p \in Procs, NEW b \in Bytes, WriteByte(p, b) PROVE PipeInv'
  <2> USE <1>5 DEF WriteByte, goto, wake, relock, forget, pipe
  <2>1. TypeOK'
    BY Unsigned DEF TypeOK, Holding
  <2>2. Holding'
    BY DEF TypeOK, Holding, Inside
  <2>3. Ends'
    BY DEF TypeOK, Holding, Ends, Inside, bothclosed
  <2>4. Awaited'
    BY DEF TypeOK, Holding, Ends, Awaited, Inside, KilledMidWrite, full, empty
  <2>5. QED
    BY <2>1, <2>2, <2>3, <2>4
<1>6. ASSUME NEW p \in Procs, WriteDone(p) PROVE PipeInv'
  <2> USE <1>6 DEF WriteDone, goto, wake, relock, forget, pipe
  <2>1. TypeOK'
    BY Unsigned DEF TypeOK, Holding
  <2>2. Holding'
    BY DEF TypeOK, Holding, Inside
  <2>3. Ends'
    BY DEF TypeOK, Holding, Ends, Inside, bothclosed
  <2>4. Awaited'
    BY DEF TypeOK, Holding, Ends, Awaited, Inside, KilledMidWrite, full, empty
  <2>5. QED
    BY <2>1, <2>2, <2>3, <2>4
<1>7. ASSUME NEW p \in Procs, ReadWait(p) PROVE PipeInv'
  <2> USE <1>7 DEF ReadWait, goto, wake, relock, forget, pipe
  <2>1. TypeOK'
    BY Unsigned DEF TypeOK, Holding
  <2>2. Holding'
    BY DEF TypeOK, Holding, Inside
  <2>3. Ends'
    BY DEF TypeOK, Holding, Ends, Inside, bothclosed
  <2>4. Awaited'
    BY DEF TypeOK, Holding, Ends, Awaited, Inside, KilledMidWrite, full, empty
  <2>5. QED
    BY <2>1, <2>2, <2>3, <2>4
<1>8. ASSUME NEW p \in Procs, ReadByte(p) PROVE PipeInv'
  <2> USE <1>8 DEF ReadByte, goto, wake, relock, forget, pipe
  <2>1. TypeOK'
    <3>1. nread' \in 0 .. UINT - 1
      BY Unsigned DEF TypeOK
    <3>2. i' \in [Procs -> 0 .. MaxCount]
      <4>1. i[p] + 1 \in 0 .. MaxCount
        BY DEF TypeOK
      <4>2. QED
        BY <4>1 DEF TypeOK
    <3>3. pc' \in [Procs -> {"idle", "wlock", "wloop", "wsleep", "rlock", "rwait", "rcopy",
                             "rdone", "rsleep"}]
      BY DEF TypeOK
    <3>4. QED
      BY <3>1, <3>2, <3>3 DEF TypeOK
  <2>2. Holding'
    BY DEF TypeOK, Holding, Inside
  <2>3. Ends'
    BY DEF TypeOK, Holding, Ends, Inside, bothclosed
  <2>4. Awaited'
    BY DEF TypeOK, Holding, Ends, Awaited, Inside, KilledMidWrite, full, empty
  <2>5. QED
    BY <2>1, <2>2, <2>3, <2>4
<1>9. ASSUME NEW p \in Procs, ReadDone(p) PROVE PipeInv'
  <2> USE <1>9 DEF ReadDone, goto, wake, relock, forget, pipe
  <2>1. TypeOK'
    BY Unsigned DEF TypeOK, Holding
  <2>2. Holding'
    BY DEF TypeOK, Holding, Inside
  <2>3. Ends'
    BY DEF TypeOK, Holding, Ends, Inside, bothclosed
  <2>4. Awaited'
    BY DEF TypeOK, Holding, Ends, Awaited, Inside, KilledMidWrite, full, empty
  <2>5. QED
    BY <2>1, <2>2, <2>3, <2>4
<1>10. ASSUME NEW p \in Procs, Close(p) PROVE PipeInv'
  <2> USE <1>10 DEF Close, goto, wake, relock, forget, pipe
  <2>1. TypeOK'
    <3>1. readopen' \in BOOLEAN /\ writeopen' \in BOOLEAN /\ freed' \in BOOLEAN
      BY Zenon
    <3>2. pc' \in [Procs -> {"idle", "wlock", "wloop", "wsleep", "rlock", "rwait", "rcopy",
                             "rdone", "rsleep"}]
      BY DEF TypeOK
    <3>3. UNCHANGED <<data, nread, nwrite, lock, killed, i, n>> /\ open' \subseteq open
      OBVIOUS
    <3>4. QED
      BY <3>1, <3>2, <3>3 DEF TypeOK
  <2>2. Holding'
    <3>1. \A q \in Procs : \/ pc'[q] = pc[q]
                           \/ pc[q] = "rsleep" /\ pc'[q] = "rlock"
                           \/ pc[q] = "wsleep" /\ pc'[q] = "wlock"
      BY DEF TypeOK
    <3>2. UNCHANGED <<lock, i, n>>
      OBVIOUS
    <3>3. QED
      BY <3>1, <3>2 DEF Holding, Inside
  <2>3. Ends'
    <3>1. freed' => ~readopen' /\ ~writeopen'
      BY Zenon DEF bothclosed
    <3>2. ASSUME NEW q \in open' PROVE IF q \in Readers THEN readopen' ELSE writeopen'
      <4>1. q \in open /\ q # p
        BY <3>2
      <4>2. CASE q \in Readers
        <5>1. readopen /\ ~(p \in Readers /\ open \cap Readers = {p})
          BY <4>1, <4>2 DEF Ends
        <5>2. QED
          BY <4>2, <5>1, Zenon
      <4>3. CASE q \notin Readers
        <5>1. writeopen /\ ~(p \in Writers /\ open \cap Writers = {p})
          BY <4>1, <4>3 DEF Ends, TypeOK
        <5>2. p \in Writers => p \notin Readers
          OBVIOUS
        <5>3. QED
          BY <4>3, <5>1, <5>2, Zenon
      <4>4. QED
        BY <4>2, <4>3
    <3>3. \A q \in Procs \ open' : pc'[q] = "idle"
      BY DEF TypeOK, Ends
    <3>4. ASSUME NEW q \in Procs, pc'[q] = "rsleep" PROVE writeopen'
      <4>1. pc[q] = "rsleep" /\ ~(p \in Writers /\ open \cap Writers = {p})
        BY <3>4 DEF TypeOK
      <4>2. writeopen /\ (p \in Writers => p \notin Readers)
        BY <4>1 DEF Ends
      <4>3. QED
        BY <4>1, <4>2, Zenon
    <3>5. ASSUME NEW q \in Procs, pc'[q] = "wsleep" PROVE readopen'
      <4>1. pc[q] = "wsleep" /\ ~(p \in Readers /\ open \cap Readers = {p})
        BY <3>5 DEF TypeOK
      <4>2. readopen
        BY <4>1 DEF Ends
      <4>3. QED
        BY <4>1, <4>2, Zenon
    <3>6. QED
      BY <3>1, <3>2, <3>3, <3>4, <3>5 DEF Ends
  <2>4. Awaited'
    <3>1. \A q \in Procs : pc'[q] \in {"rsleep", "wsleep"} => pc'[q] = pc[q]
      BY DEF TypeOK
    <3>2. lock = NULL /\ UNCHANGED <<nread, nwrite, lock, killed, i, n>>
      OBVIOUS
    <3>3. QED
      BY <3>1, <3>2 DEF Awaited, KilledMidWrite, full, empty
  <2>5. QED
    BY <2>1, <2>2, <2>3, <2>4
<1>11. ASSUME NEW p \in Procs, Kill(p) PROVE PipeInv'
  <2> USE <1>11 DEF Kill, goto, wake, relock, forget, pipe
  <2>1. TypeOK'
    BY Unsigned DEF TypeOK, Holding
  <2>2. Holding'
    BY DEF TypeOK, Holding, Inside
  <2>3. Ends'
    BY DEF TypeOK, Holding, Ends, Inside, bothclosed
  <2>4. Awaited'
    BY DEF TypeOK, Holding, Ends, Awaited, Inside, KilledMidWrite, full, empty
  <2>5. QED
    BY <2>1, <2>2, <2>3, <2>4
<1>12. CASE UNCHANGED vars
  BY <1>12 DEF vars, pipe, TypeOK, Holding, Ends, Awaited, Inside, KilledMidWrite, full, empty
<1>13. QED
  BY <1>1, <1>2, <1>3, <1>4, <1>5, <1>6, <1>7, <1>8, <1>9, <1>10, <1>11, <1>12 DEF Next, Proceed

\* Whatever readers, writers, kill() and close() do, the variables have their types.
THEOREM TypesHold == Spec => []TypeOK
<1>1. PipeInv => TypeOK
  BY DEF PipeInv
<1>2. QED
  BY InitInv, NextInv, <1>1, PTL DEF Spec

\* pipeclose() frees the pipe only when nobody can be in one of its operations.
THEOREM FreeHolds == Spec => []NoUseAfterFree
<1>1. PipeInv => NoUseAfterFree
  <2> SUFFICES ASSUME PipeInv, freed PROVE open = {} /\ \A p \in Procs : pc[p] = "idle"
    BY DEF NoUseAfterFree
  <2>1. ASSUME NEW p \in open PROVE FALSE
    BY <2>1 DEF PipeInv, Ends
  <2>2. QED
    BY <2>1 DEF PipeInv, Ends
<1>2. QED
  BY InitInv, NextInv, <1>1, PTL DEF Spec

\* No wakeup is lost in piperead(), pipewrite() and pipeclose(), but for the early
\* return of a killed writer.
THEOREM SleepersHold == Spec => []NoSleeperForgotten
<1>1. PipeInv => NoSleeperForgotten
  <2> SUFFICES ASSUME PipeInv, lock = NULL, NEW p \in Procs
               PROVE /\ pc[p] = "rsleep" => (empty \/ KilledMidWrite) /\ writeopen
                     /\ pc[p] = "wsleep" => full /\ readopen
    BY DEF NoSleeperForgotten
  <2> USE PipeConstantsOK DEF PipeConstantsOK, PipeInv, Procs
  <2>1. pc[p] = "rsleep" => empty \/ KilledMidWrite
    BY DEF Awaited
  <2>2. pc[p] = "wsleep" => full
    BY DEF Awaited
  <2>3. QED
    BY <2>1, <2>2 DEF Ends, Holding
<1>2. QED
  BY InitInv, NextInv, <1>1, PTL DEF Spec
-----------------------------------------------------------------------------
held == Held(nread, nwrite, UINT)
bytes == Queue(data, nread, nwrite, PIPESIZE, UINT)

\* The pipe never holds more than PIPESIZE bytes.
Bounded == PipeInv /\ held <= PIPESIZE

\* The assumption on the constants, as RingProofs wants it.
LEMMA Sizes ==
  /\ UINT \in Nat \ {0} /\ Divides(PIPESIZE, UINT)
  /\ PIPESIZE \in 1 .. UINT /\ PIPESIZE \in 1 .. UINT - 1
<1>1. UINT \in Nat \ {0} /\ PIPESIZE \in 1 .. UINT /\ PIPESIZE \in 1 .. UINT - 1
  BY PipeConstantsOK DEF PipeConstantsOK
<1>2. Divides(PIPESIZE, UINT)
  BY PipeConstantsOK, Zenon DEF PipeConstantsOK, Divides
<1>3. QED
  BY <1>1, <1>2

\* A write puts its byte behind the bytes in the pipe and disturbs none of them.
LEMMA WriteAppends ==
  ASSUME Bounded, NEW p \in Procs, NEW b \in Bytes, WriteByte(p, b)
  PROVE  held < PIPESIZE /\ held' <= PIPESIZE /\ bytes' = Append(bytes, b)
<1>1. /\ nread \in 0 .. UINT - 1 /\ nwrite \in 0 .. UINT - 1
      /\ data \in [0 .. PIPESIZE - 1 -> Bytes]
  BY DEF Bounded, PipeInv, TypeOK
<1>2. /\ data' = Stored(data, nwrite, b, PIPESIZE)
      /\ nwrite' = Inc(nwrite, UINT) /\ nread' = nread
  BY Zenon DEF WriteByte, Inc, Stored
<1>3. held \in 0 .. UINT - 1
  BY <1>1, Sizes, Counters DEF held
<1>4. held # PIPESIZE
  BY <1>1, Sizes, Full, Zenon DEF held, WriteByte, full
<1>5. held < PIPESIZE
  BY <1>3, <1>4, Sizes DEF Bounded
<1>room. held + 1 < UINT
  BY <1>3, <1>5, Sizes
<1>6. /\ Held(nread, Inc(nwrite, UINT), UINT) = held + 1
      /\ Appended(bytes, b, Queue(Stored(data, nwrite, b, PIPESIZE), nread,
                                  Inc(nwrite, UINT), PIPESIZE, UINT))
      /\ Queue(Stored(data, nwrite, b, PIPESIZE), nread,
               Inc(nwrite, UINT), PIPESIZE, UINT) \in Seq(Bytes)
  BY <1>1, <1>5, <1>room, Sizes, RingPut DEF held, bytes
<1>7. held' = held + 1 /\ bytes' = Append(bytes, b)
  BY <1>2, <1>6, Zenon DEF held, bytes, Appended
<1>8. QED
  BY <1>3, <1>5, <1>7, Sizes

\* A read takes the first byte and leaves the others.
LEMMA ReadRemoves ==
  ASSUME Bounded, NEW p \in Procs, ReadByte(p)
  PROVE  held' <= PIPESIZE /\ bytes # <<>> /\ bytes' = Tail(bytes)
<1>1. /\ nread \in 0 .. UINT - 1 /\ nwrite \in 0 .. UINT - 1
      /\ data \in [0 .. PIPESIZE - 1 -> Bytes]
  BY DEF Bounded, PipeInv, TypeOK
<1>2. nread' = Inc(nread, UINT) /\ nwrite' = nwrite /\ data' = data /\ nread # nwrite
  BY DEF ReadByte, empty, Inc
<1>3. /\ Held(Inc(nread, UINT), nwrite, UINT) = held - 1
      /\ Taken(bytes, Queue(data, Inc(nread, UINT), nwrite, PIPESIZE, UINT))
      /\ Queue(data, Inc(nread, UINT), nwrite, PIPESIZE, UINT) \in Seq(Bytes)
  BY <1>1, <1>2, Sizes, RingTake DEF held, bytes
<1>4. held' = held - 1 /\ bytes # <<>> /\ bytes' = Tail(bytes)
  BY <1>2, <1>3, Zenon DEF held, bytes, Taken
<1>5. held \in 0 .. UINT - 1
  BY <1>1, Sizes, Counters DEF held
<1>6. QED
  BY <1>4, <1>5, Sizes DEF Bounded

\* A new pipe is empty.
LEMMA BoundedInit == Init => Bounded /\ bytes = <<>>
<1> SUFFICES ASSUME Init PROVE Bounded /\ bytes = <<>>
  OBVIOUS
<1>1. PipeInv
  BY InitInv
<1>2. held = 0
  <2>1. 0 \in 0 .. UINT - 1
    BY Sizes
  <2>2. QED
    BY <2>1, Sizes, Counters DEF Init, held
<1>3. bytes = <<>>
  BY <1>2 DEF bytes, held, Queue
<1>4. QED
  BY <1>1, <1>2, <1>3, Sizes DEF Bounded

\* Only a write and a read change what is in the pipe.
LEMMA Others ==
  [Next]_vars => \/ UNCHANGED <<data, nread, nwrite>>
                 \/ \E p \in Procs : ReadByte(p) \/ \E b \in Bytes : WriteByte(p, b)
BY Zenon DEF Next, vars, pipe, Proceed, Call, Acquire, WriteFail, WriteSleep, WriteDone,
             ReadWait, ReadDone, Close, Kill

LEMMA BoundedNext == Bounded /\ [Next]_vars => Bounded'
<1> SUFFICES ASSUME Bounded, [Next]_vars PROVE Bounded'
  OBVIOUS
<1>1. PipeInv'
  BY NextInv DEF Bounded
<1>2. CASE UNCHANGED <<data, nread, nwrite>>
  BY <1>1, <1>2 DEF Bounded, held
<1>3. QED
  BY <1>1, <1>2, Others, WriteAppends, ReadRemoves, Zenon DEF Bounded

\* The pipe is a queue of at most PIPESIZE bytes, whatever the counters are modulo
\* 2^32: pipewrite() appends a byte, piperead() takes the first one, and no other
\* step changes what is in the pipe.
THEOREM PipeImplementsFifo == Spec => PipeIsFifo
<1>1. Init => FIFO!Init
  BY BoundedInit DEF FIFO!Init, bytes, Queue, Held
<1>2. Bounded /\ [Next]_vars => [FIFO!Next]_bytes
  <2> SUFFICES ASSUME Bounded, [Next]_vars PROVE [FIFO!Next]_bytes
    OBVIOUS
  <2>1. ASSUME NEW p \in Procs, NEW b \in Bytes, WriteByte(p, b) PROVE FIFO!Next
    <3>1. held < PIPESIZE /\ bytes' = Append(bytes, b)
      BY <2>1, WriteAppends
    <3>2. Len(bytes) = held
      BY Sizes, QueueLen DEF Bounded, PipeInv, TypeOK, bytes, held
    <3>3. QED
      BY <3>1, <3>2 DEF FIFO!Next, FIFO!Put, bytes, held, Queue, Held
  <2>2. ASSUME NEW p \in Procs, ReadByte(p) PROVE FIFO!Next
    BY <2>2, ReadRemoves DEF FIFO!Next, FIFO!Get, bytes, Queue, Held
  <2>3. CASE UNCHANGED <<data, nread, nwrite>>
    BY <2>3 DEF bytes, Queue, Held
  <2>4. QED
    BY <2>1, <2>2, <2>3, Others
<1>3. QED
  BY BoundedInit, BoundedNext, <1>1, <1>2, PTL
  DEF Spec, PipeIsFifo, FIFO!Spec, bytes, Queue, Held
=============================================================================
