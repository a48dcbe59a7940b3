------------------------------- MODULE Console -------------------------------
(***************************************************************************)
(* The console (console.c) and the UART driver (uart.c): the input buffer  *)
(* that the interrupt handler edits and readers empty, the transmit ring   *)
(* that writers fill and the handler empties, and the kernel's own output  *)
(* (printf.c), which goes round the ring.  cons.lock, uart_tx_lock and     *)
(* pr.lock disable interrupts, so the handler is a process of its own.     *)
(* The indices are unsigned and wrap.                                      *)
(***************************************************************************)
EXTENDS Integers, Sequences

CONSTANTS
  Readers, Writers, Printers,  \* processes in consoleread(), consolewrite(), printf()
  Intr,                        \* the interrupt handler: the PLIC serves one at a time
  NULL,
  Letter, Newline, EndOfFile,  \* a printing character, '\n', C('D')
  KillLine, Backspace, Dump,   \* C('U'), C('H') or '\x7f', C('P')
  INPUT_BUF_SIZE, UART_TX_BUF_SIZE,
  UINT,                        \* values of an index: 2^32 and 2^64 in the code
  Mixes,                       \* bound: who runs, who is killed, which keys are typed,
                               \* how many characters a call has
  RXFIFO                       \* bound: typed characters the UART holds

ASSUME ConsoleConstantsOK ==
  /\ INPUT_BUF_SIZE \in Nat \ {0} /\ UART_TX_BUF_SIZE \in Nat \ {0} /\ UINT \in Nat
  /\ UINT > INPUT_BUF_SIZE /\ UINT % INPUT_BUF_SIZE = 0
  /\ UINT > UART_TX_BUF_SIZE /\ UINT % UART_TX_BUF_SIZE = 0
  /\ RXFIFO \in Nat
  /\ \A m \in Mixes : m.counts \subseteq Nat
  /\ Intr \notin Readers \cup Writers \cup Printers
  /\ NULL \notin Readers \cup Writers \cup Printers \cup {Intr}

Keys == {Letter, Newline, EndOfFile, KillLine, Backspace, Dump}
Users == Readers \cup Writers \cup Printers
Procs == Users \cup {Intr}

VARIABLES
  buf, r, w, e,                      \* cons
  conslock, txlock, prlock,          \* who holds cons.lock, uart_tx_lock, pr.lock
  uart_tx_buf, uart_tx_w, uart_tx_r,
  rx, thr, irq,       \* the UART: received characters, characters to send, interrupt pending
  mix,                \* the bounds of this behaviour
  killed,             \* p->killed
  pc, n, target       \* where p is, and the locals of its call

input == <<buf, r, w, e>>
ring == <<uart_tx_buf, uart_tx_w, uart_tx_r>>
uart == <<rx, thr, irq>>
locks == <<conslock, txlock, prlock>>
locals == <<n, target>>
vars == <<input, ring, uart, locks, mix, killed, pc, locals>>

goto(p, label) == pc' = [pc EXCEPT ![p] = label]

\* sleep() goes on by taking the lock again.
relock(sleeping) == IF sleeping = "rsleep" THEN "rlock" ELSE "wlock"

\* Mutant of wake: only the process itself moves on.
wake_nobody(sleeping, p, label) == goto(p, label)

\* wakeup(&cons.r) with "rsleep", wakeup(&uart_tx_r) with "wsleep", by p.
wake(sleeping, p, label) ==
  pc' = [[q \in Procs |-> IF pc[q] = sleeping THEN relock(sleeping) ELSE pc[q]]
           EXCEPT ![p] = label]

Edited == (e - r) % UINT     \* characters in the buffer
Ready == (w - r) % UINT      \* those that a reader may take

-----------------------------------------------------------------------------
\* A call of consoleread(), consolewrite() or printf(), of k characters.
Call(p, k) ==
  /\ p \in mix.users /\ k \in mix.counts /\ pc[p] = "idle" /\ ~killed[p]
  /\ n' = [n EXCEPT ![p] = k] /\ target' = [target EXCEPT ![p] = k]
  /\ goto(p, CASE p \in Readers -> "rlock" [] p \in Writers -> "write" [] OTHER -> "prlock")
  /\ UNCHANGED <<input, ring, uart, locks, mix, killed>>

return(p) == goto(p, "idle") /\ conslock' = NULL

ReadLock(p) ==
  /\ pc[p] = "rlock" /\ conslock = NULL
  /\ conslock' = p
  /\ goto(p, "read")
  /\ UNCHANGED <<input, ring, uart, txlock, prlock, mix, killed, locals>>

\* No input: consoleread() gives up when killed, or sleeps.
ReadWait(p) ==
  /\ pc[p] = "read" /\ n[p] > 0 /\ r = w
  /\ \/ killed[p] /\ return(p)
     \/ ~killed[p] /\ goto(p, "rsleep") /\ conslock' = NULL
  /\ UNCHANGED <<input, ring, uart, txlock, prlock, mix, killed, locals>>

\* Mutant of ReadChar: the end of a line empties the buffer.
ReadChar_flushes(p) ==
  LET c == buf[r % INPUT_BUF_SIZE]
  IN /\ pc[p] = "read" /\ n[p] > 0 /\ r # w
     /\ r' = IF c = EndOfFile /\ n[p] < target[p] THEN r
             ELSE IF c = Newline THEN w ELSE (r + 1) % UINT
     /\ \/ c = EndOfFile /\ return(p) /\ UNCHANGED n
        \/ c # EndOfFile /\ return(p) /\ UNCHANGED n
        \/ /\ c # EndOfFile
           /\ n' = [n EXCEPT ![p] = @ - 1]
           /\ IF c = Newline THEN return(p) ELSE UNCHANGED <<pc, conslock>>
     /\ UNCHANGED <<buf, w, e, ring, uart, txlock, prlock, mix, killed, target>>

\* One character: a ^D that ends a partial read stays for the next one; a
\* character whose either_copyout() fails is lost.
ReadChar(p) ==
  LET c == buf[r % INPUT_BUF_SIZE]
  IN /\ pc[p] = "read" /\ n[p] > 0 /\ r # w
     /\ r' = IF c = EndOfFile /\ n[p] < target[p] THEN r ELSE (r + 1) % UINT
     /\ \/ c = EndOfFile /\ return(p) /\ UNCHANGED n
        \/ c # EndOfFile /\ return(p) /\ UNCHANGED n
        \/ /\ c # EndOfFile
           /\ n' = [n EXCEPT ![p] = @ - 1]
           /\ IF c = Newline THEN return(p) ELSE UNCHANGED <<pc, conslock>>
     /\ UNCHANGED <<buf, w, e, ring, uart, txlock, prlock, mix, killed, target>>

ReadDone(p) ==
  /\ pc[p] = "read" /\ n[p] = 0
  /\ return(p)
  /\ UNCHANGED <<input, ring, uart, txlock, prlock, mix, killed, locals>>

-----------------------------------------------------------------------------
\* The loop of consolewrite(); either_copyin() may fail.
WriteNext(p) ==
  /\ pc[p] = "write"
  /\ \/ n[p] > 0 /\ goto(p, "wlock") /\ n' = [n EXCEPT ![p] = @ - 1]
     \/ goto(p, "idle") /\ UNCHANGED n
  /\ UNCHANGED <<input, ring, uart, locks, mix, killed, target>>

\* Mutant of ringfull: the sum does not wrap as an unsigned one does.
ringfull_unwrapped == uart_tx_w = uart_tx_r + UART_TX_BUF_SIZE

ringfull == uart_tx_w = (uart_tx_r + UART_TX_BUF_SIZE) % UINT

\* uartputc() up to uartstart(), or to its sleep.
Put(p) ==
  /\ pc[p] = "wlock" /\ txlock = NULL
  /\ \/ ringfull /\ goto(p, "wsleep") /\ UNCHANGED <<ring, txlock>>
     \/ /\ ~ringfull
        /\ uart_tx_buf' = [uart_tx_buf EXCEPT ![uart_tx_w % UART_TX_BUF_SIZE] = p]
        /\ uart_tx_w' = (uart_tx_w + 1) % UINT
        /\ txlock' = p
        /\ goto(p, "start")
        /\ UNCHANGED uart_tx_r
  /\ UNCHANGED <<input, uart, conslock, prlock, mix, killed, locals>>

\* uartstart(): the ring is empty or the UART busy, or there is one to send.
StartCheck(p) ==
  /\ pc[p] = "start"
  /\ \/ /\ uart_tx_w = uart_tx_r \/ thr > 0
        /\ txlock' = NULL
        /\ goto(p, IF p = Intr THEN "idle" ELSE "write")
     \/ /\ ~(uart_tx_w = uart_tx_r \/ thr > 0)
        /\ goto(p, "send")
        /\ UNCHANGED txlock
  /\ UNCHANGED <<input, ring, uart, conslock, prlock, mix, killed, locals>>

\* uartstart() takes a character and writes it to THR.
StartSend(p) ==
  /\ pc[p] = "send"
  /\ uart_tx_r' = (uart_tx_r + 1) % UINT
  /\ thr' = thr + 1
  /\ wake("wsleep", p, "start")
  /\ UNCHANGED <<input, uart_tx_buf, uart_tx_w, rx, irq, locks, mix, killed, locals>>

-----------------------------------------------------------------------------
\* printf() of n characters: procdump() calls it with cons.lock held.
PrintLock(p) ==
  /\ pc[p] = "prlock" /\ prlock = NULL
  /\ prlock' = p
  /\ goto(p, "spin")
  /\ UNCHANGED <<input, ring, uart, conslock, txlock, mix, killed, locals>>

\* uartputc_sync(): spin until the UART is idle, then write to THR.
SyncWait(p) ==
  /\ pc[p] = "spin" /\ n[p] > 0 /\ thr = 0
  /\ goto(p, "sync")
  /\ UNCHANGED <<input, ring, uart, locks, mix, killed, locals>>

SyncPut(p) ==
  /\ pc[p] = "sync"
  /\ thr' = thr + 1
  /\ n' = [n EXCEPT ![p] = @ - 1]
  /\ goto(p, "spin")
  /\ UNCHANGED <<input, ring, rx, irq, locks, mix, killed, target>>

PrintDone(p) ==
  /\ pc[p] = "spin" /\ n[p] = 0 /\ p \in Printers
  /\ prlock' = NULL
  /\ goto(p, "idle")
  /\ UNCHANGED <<input, ring, uart, conslock, txlock, mix, killed, locals>>

-----------------------------------------------------------------------------
\* plic_claim() and the call of uartintr().
IntrClaim ==
  /\ pc[Intr] = "idle" /\ irq
  /\ irq' = FALSE
  /\ goto(Intr, "get")
  /\ UNCHANGED <<input, ring, rx, thr, locks, mix, killed, locals>>

\* consoleintr() is at the label with k characters to echo.
echo(k, label) == n' = [n EXCEPT ![Intr] = k] /\ goto(Intr, label)

\* C('P'): the process list, by printf(), while cons.lock is held.
procdump == echo(1, "prlock") /\ UNCHANGED <<buf, w, e>>

\* ^U takes back the m characters of the unfinished line.
unfinished(m) ==
  /\ \A k \in 1 .. m : buf[(e - k) % INPUT_BUF_SIZE] # Newline
  /\ m = (e - w) % UINT \/ buf[(e - m - 1) % INPUT_BUF_SIZE] = Newline

\* C('U'), C('H'): k characters are erased, each by three echoed ones.
erase(k) ==
  /\ e' = (e - k) % UINT
  /\ echo(3 * k, "spin")
  /\ UNCHANGED <<buf, w>>

\* Mutant of ends_line: a full buffer does not end the line.
ends_line_not_full(c, k) == c \in {Newline, EndOfFile}

ends_line(c, k) == c \in {Newline, EndOfFile} \/ k = INPUT_BUF_SIZE

\* A character is stored; a line that is complete is handed to the readers.
store(c) ==
  /\ buf' = [buf EXCEPT ![e % INPUT_BUF_SIZE] = c]
  /\ e' = (e + 1) % UINT
  /\ n' = [n EXCEPT ![Intr] = 1]
  /\ IF ends_line(c, Edited + 1)
     THEN w' = e' /\ wake("rsleep", Intr, "spin")
     ELSE UNCHANGED w /\ goto(Intr, "spin")

\* uartgetc() and consoleintr() with what it changes under cons.lock.
IntrChar(c) ==
  /\ pc[Intr] = "get" /\ rx # <<>> /\ c = Head(rx) /\ conslock = NULL
  /\ rx' = Tail(rx)
  /\ conslock' = Intr
  /\ \/ c = Dump /\ procdump
     \/ c = KillLine /\ \E m \in 0 .. (e - w) % UINT : unfinished(m) /\ erase(m)
     \/ c = Backspace /\ (IF e # w THEN erase(1) ELSE erase(0))
     \/ c \in {Letter, Newline, EndOfFile} /\ Edited < INPUT_BUF_SIZE /\ store(c)
     \/ c \in {Letter, Newline, EndOfFile} /\ Edited >= INPUT_BUF_SIZE /\ erase(0)
  /\ UNCHANGED <<r, ring, thr, irq, txlock, prlock, mix, killed, target>>

\* All is echoed: consoleintr() returns.
IntrEchoed ==
  /\ pc[Intr] = "spin" /\ n[Intr] = 0
  /\ conslock' = NULL
  /\ prlock' = IF prlock = Intr THEN NULL ELSE prlock
  /\ goto(Intr, "get")
  /\ UNCHANGED <<input, ring, uart, txlock, mix, killed, locals>>

\* uartgetc() returns -1.
IntrNoMore ==
  /\ pc[Intr] = "get" /\ rx = <<>>
  /\ goto(Intr, "txlock")
  /\ UNCHANGED <<input, ring, uart, locks, mix, killed, locals>>

\* Mutant of IntrStart: only input is looked at, buffered output is not sent.
IntrStart_noop ==
  /\ pc[Intr] = "txlock" /\ txlock = NULL
  /\ goto(Intr, "idle")
  /\ UNCHANGED <<input, ring, uart, locks, mix, killed, locals>>

IntrStart ==
  /\ pc[Intr] = "txlock" /\ txlock = NULL
  /\ txlock' = Intr
  /\ goto(Intr, "start")
  /\ UNCHANGED <<input, ring, uart, conslock, prlock, mix, killed, locals>>

-----------------------------------------------------------------------------
\* The UART receives a character, or has sent all it was given.
Receive(c) ==
  /\ c \in mix.keys /\ Len(rx) < RXFIFO
  /\ rx' = Append(rx, c)
  /\ irq' = TRUE
  /\ UNCHANGED <<input, ring, thr, locks, mix, killed, pc, locals>>

Transmitted ==
  /\ thr > 0
  /\ thr' = 0
  /\ irq' = TRUE
  /\ UNCHANGED <<input, ring, rx, locks, mix, killed, pc, locals>>

\* kill() of a process: sleep() returns.
Kill(p) ==
  /\ p \in mix.victims /\ ~killed[p]
  /\ killed' = [killed EXCEPT ![p] = TRUE]
  /\ pc' = [pc EXCEPT ![p] = IF @ \in {"rsleep", "wsleep"} THEN relock(@) ELSE @]
  /\ UNCHANGED <<input, ring, uart, locks, mix, locals>>

-----------------------------------------------------------------------------
\* consoleinit() and uartinit() in zeroed memory, where stale characters are letters.
Init ==
  /\ buf = [k \in 0 .. INPUT_BUF_SIZE - 1 |-> Letter] /\ r = 0 /\ w = 0 /\ e = 0
  /\ conslock = NULL /\ txlock = NULL /\ prlock = NULL
  /\ uart_tx_buf = [k \in 0 .. UART_TX_BUF_SIZE - 1 |-> NULL]
  /\ uart_tx_w = 0 /\ uart_tx_r = 0
  /\ rx = <<>> /\ thr = 0 /\ irq = FALSE
  /\ mix \in Mixes
  /\ killed = [p \in Procs |-> FALSE]
  /\ pc = [p \in Procs |-> "idle"]
  /\ n = [p \in Procs |-> 0] /\ target = [p \in Procs |-> 0]

Handler ==
  \/ IntrClaim \/ (\E c \in Keys : IntrChar(c)) \/ IntrEchoed \/ IntrNoMore \/ IntrStart

Proceed(p) ==
  \/ ReadLock(p) \/ ReadWait(p) \/ ReadChar(p) \/ ReadDone(p)
  \/ WriteNext(p) \/ Put(p) \/ StartCheck(p) \/ StartSend(p)
  \/ PrintLock(p) \/ SyncWait(p) \/ SyncPut(p) \/ PrintDone(p)

Next ==
  \/ Handler \/ Transmitted
  \/ \E c \in Keys : Receive(c)
  \/ \E p \in Procs : Proceed(p)
  \/ \E p \in Users : Kill(p) \/ \E k \in mix.counts : Call(p, k)

Spec == Init /\ [][Next]_vars
-----------------------------------------------------------------------------
\* Every variable has its type; the indices are unsigned.
TypeOK ==
  /\ buf \in [0 .. INPUT_BUF_SIZE - 1 -> Keys]
  /\ r \in 0 .. UINT - 1 /\ w \in 0 .. UINT - 1 /\ e \in 0 .. UINT - 1
  /\ conslock \in Procs \cup {NULL} /\ txlock \in Procs \cup {NULL}
  /\ prlock \in Procs \cup {NULL}
  /\ uart_tx_buf \in [0 .. UART_TX_BUF_SIZE - 1 -> Writers \cup {NULL}]
  /\ uart_tx_w \in 0 .. UINT - 1 /\ uart_tx_r \in 0 .. UINT - 1
  /\ rx \in Seq(Keys) /\ thr \in Nat /\ irq \in BOOLEAN
  /\ mix \in Mixes
  /\ killed \in [Procs -> BOOLEAN]
  /\ pc \in [Procs -> {"idle", "rlock", "read", "rsleep", "write", "wlock", "wsleep", "start",
                       "send", "prlock", "spin", "sync", "get", "txlock"}]
  /\ n \in [Procs -> Nat] /\ target \in [Procs -> Nat]

\* The characters of finished lines that no reader has taken yet.
Committed == [k \in 1 .. Ready |-> buf[(r + k - 1) % INPUT_BUF_SIZE]]

\* The finished lines are read in order, each character once, and what is typed
\* after them (erasing included) never changes them: the handler edits only
\* behind cons.w, also when the indices wrap.
LinesKept ==
  [][\/ Ready <= Ready' /\ SubSeq(Committed', 1, Ready) = Committed
     \/ Ready > 0 /\ Committed' = Tail(Committed)]_vars

\* The input buffer never holds more than its size, and never fills up with an
\* unfinished line: then no key could be stored or erased by a reader any more.
InputNotStuck ==
  /\ Ready <= Edited /\ Edited <= INPUT_BUF_SIZE
  /\ Edited = INPUT_BUF_SIZE => r # w

\* No wakeup is lost: a reader sleeps only while there is no finished line to
\* read, and a writer only while the transmit ring is full.
NoSleeperForgotten ==
  \A p \in Procs :
    /\ pc[p] = "rsleep" => r = w
    /\ pc[p] = "wsleep" => ringfull

\* A ring that holds output is being emptied: someone is in uartstart(), or the
\* UART is sending and will interrupt, or its interrupt is pending or served.
\* The kernel's own output, which does not look at the ring, delays it only.
TransmitGoesOn ==
  uart_tx_w # uart_tx_r => txlock # NULL \/ thr > 0 \/ irq \/ pc[Intr] # "idle"

\* What write() puts in the transmit ring is sent in that order, each once.
Transmit == INSTANCE Fifo WITH
  Bytes <- Writers, N <- UART_TX_BUF_SIZE,
  q <- [k \in 1 .. (uart_tx_w - uart_tx_r) % UINT |->
          uart_tx_buf[(uart_tx_r + k - 1) % UART_TX_BUF_SIZE]]
TransmitIsFifo == Transmit!Spec
=============================================================================
