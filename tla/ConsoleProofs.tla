--------------------------- MODULE ConsoleProofs ---------------------------
(***************************************************************************)
(* Proofs about Console, for any number of processes, any sizes of the     *)
(* input buffer and of the transmit ring and any width of their indices.   *)
(* The sleepers need no invariant but their own: whoever changes what they *)
(* wait for wakes them in the same step.  Output goes on because only the  *)
(* holder of uart_tx_lock (Roles) sends, and lets go of it with the ring   *)
(* empty or the UART busy.  The two rings are queues by RingProofs; for    *)
(* the input buffer the order of its three indices is needed as well:      *)
(* cons.e is never behind cons.w, which is never behind cons.r.            *)
(***************************************************************************)
EXTENDS Console, RingProofs

\* Who can be where, and who holds uart_tx_lock.
Roles ==
  \A p \in Procs :
    /\ pc[p] \in {"rlock", "read", "rsleep"} => p \in Readers
    /\ pc[p] \in {"write", "wlock", "wsleep"} => p \in Writers
    /\ pc[p] \in {"start", "send"} <=> txlock = p
    /\ pc[p] \in {"start", "send"} => p = Intr \/ p \in Writers
    /\ pc[p] = "send" => uart_tx_w # uart_tx_r
    /\ pc[p] = "sync" => n[p] > 0

LEMMA Sizes ==
  /\ UINT \in Nat \ {0}
  /\ INPUT_BUF_SIZE \in 1 .. UINT /\ INPUT_BUF_SIZE \in 1 .. UINT - 1
  /\ UART_TX_BUF_SIZE \in 1 .. UINT /\ UART_TX_BUF_SIZE \in 1 .. UINT - 1
  /\ Divides(INPUT_BUF_SIZE, UINT) /\ Divides(UART_TX_BUF_SIZE, UINT)
<1>1. /\ UINT \in Nat \ {0}
      /\ INPUT_BUF_SIZE \in 1 .. UINT /\ INPUT_BUF_SIZE \in 1 .. UINT - 1
      /\ UART_TX_BUF_SIZE \in 1 .. UINT /\ UART_TX_BUF_SIZE \in 1 .. UINT - 1
  BY ConsoleConstantsOK DEF ConsoleConstantsOK
<1>2. Divides(INPUT_BUF_SIZE, UINT) /\ Divides(UART_TX_BUF_SIZE, UINT)
  BY ConsoleConstantsOK, Zenon DEF ConsoleConstantsOK, Divides
<1>3. QED
  BY <1>1, <1>2

\* The processes are apart from NULL and from the handler; calls have a length.
LEMMA Apart == NULL \notin Procs /\ Intr \in Procs /\ Users \subseteq Procs
BY ConsoleConstantsOK DEF ConsoleConstantsOK, Procs, Users

LEMMA IntrApart ==
  Intr \notin Users /\ Intr \notin Readers /\ Intr \notin Writers /\ Intr \notin Printers
BY ConsoleConstantsOK DEF ConsoleConstantsOK, Users

LEMMA Counts == \A m \in Mixes : m.counts \subseteq Nat
BY ConsoleConstantsOK DEF ConsoleConstantsOK

\* An index goes back by m.
Back(k, m, U) == (k - m) % U

\* The indices stay unsigned, and the counts of a call natural.
LEMMA Unsigned ==
  ASSUME NEW k \in 0 .. UINT - 1
  PROVE  /\ Inc(k, UINT) \in 0 .. UINT - 1
         /\ \A m \in Nat : Back(k, m, UINT) \in 0 .. UINT - 1
BY Sizes DEF Inc, Back

LEMMA CountDown ==
  ASSUME NEW f \in [Procs -> Nat], NEW p \in Procs, f[p] > 0
  PROVE  [f EXCEPT ![p] = @ - 1] \in [Procs -> Nat]
OBVIOUS

\* What consoleintr() does with a character, in the terms of RingProofs.
Erases ==
  \E m, k \in Nat :
    /\ m <= Held(w, e, UINT) /\ e' = Back(e, m, UINT)
    /\ n' = [n EXCEPT ![Intr] = k] /\ goto(Intr, "spin")
    /\ UNCHANGED <<buf, w>>

Stores(c) ==
  /\ Held(r, e, UINT) < INPUT_BUF_SIZE
  /\ buf' = Stored(buf, e, c, INPUT_BUF_SIZE)
  /\ e' = Inc(e, UINT)
  /\ n' = [n EXCEPT ![Intr] = 1]
  /\ \/ w' = Inc(e, UINT) /\ wake("rsleep", Intr, "spin")
     \/ w' = w /\ Held(r, e, UINT) + 1 # INPUT_BUF_SIZE /\ goto(Intr, "spin")

LEMMA CharDoes ==
  ASSUME TypeOK, NEW c, IntrChar(c)
  PROVE  procdump \/ Erases \/ Stores(c)
<1>1. Held(w, e, UINT) \in 0 .. UINT - 1 /\ (w = e <=> Held(w, e, UINT) = 0)
  BY Sizes, Counters, Zenon DEF TypeOK
<1>2. 0 \in 0 .. Held(w, e, UINT) /\ (e # w => 1 \in 0 .. Held(w, e, UINT))
  BY <1>1
<1>3. ASSUME NEW m \in 0 .. Held(w, e, UINT), erase(m) PROVE Erases
  <2>1. m \in Nat /\ 3 * m \in Nat /\ m <= Held(w, e, UINT)
    BY <1>1
  <2>2. QED
    BY <1>3, <2>1, Zenon DEF erase, echo, Erases, Back
<1>4. CASE c = KillLine /\ \E m \in 0 .. (e - w) % UINT : unfinished(m) /\ erase(m)
  BY <1>3, <1>4, Zenon DEF Held
<1>5. CASE c = Backspace /\ (IF e # w THEN erase(1) ELSE erase(0))
  BY <1>2, <1>3, <1>5
<1>6. CASE Edited < INPUT_BUF_SIZE /\ store(c)
  BY <1>6, Zenon DEF store, ends_line, Edited, Stores, Held, Inc, Stored
<1>7. CASE erase(0)
  BY <1>2, <1>3, <1>7
<1>8. QED
  BY <1>4, <1>5, <1>6, <1>7, Zenon DEF IntrChar

Labels == {"idle", "rlock", "read", "rsleep", "write", "wlock", "wsleep", "start",
           "send", "prlock", "spin", "sync", "get", "txlock"}

\* Where consoleintr() leaves the processes.
LEMMA CharMoves ==
  ASSUME TypeOK, NEW c, IntrChar(c)
  PROVE  /\ pc'[Intr] \in {"spin", "prlock"}
         /\ \A q \in Procs \ {Intr} :
              n'[q] = n[q] /\ (pc'[q] = pc[q] \/ (pc[q] = "rsleep" /\ pc'[q] = "rlock"))
<1>1. procdump \/ Erases \/ Stores(c)
  BY CharDoes
<1>2. \/ pc' = [pc EXCEPT ![Intr] = "spin"] \/ pc' = [pc EXCEPT ![Intr] = "prlock"]
      \/ wake("rsleep", Intr, "spin")
  BY <1>1, Zenon DEF procdump, echo, Erases, Stores, goto
<1>3. \E k : n' = [n EXCEPT ![Intr] = k]
  BY <1>1, Zenon DEF procdump, echo, Erases, Stores
<1>4. /\ pc'[Intr] \in {"spin", "prlock"}
      /\ \A q \in Procs \ {Intr} : pc'[q] = pc[q] \/ (pc[q] = "rsleep" /\ pc'[q] = "rlock")
  BY <1>2, Apart, Zenon DEF TypeOK, wake, relock
<1>5. \A q \in Procs \ {Intr} : n'[q] = n[q]
  BY <1>3 DEF TypeOK
<1>6. QED
  BY <1>4, <1>5

-----------------------------------------------------------------------------
LEMMA TypesInit == Init => TypeOK
<1> SUFFICES ASSUME Init PROVE TypeOK
  OBVIOUS
<1>1. irq \in BOOLEAN /\ killed \in [Procs -> BOOLEAN]
  BY Zenon DEF Init
<1>2. 0 \in 0 .. UINT - 1
  BY Sizes
<1>3. QED
  BY <1>1, <1>2, Sizes DEF Init, TypeOK, Keys

LEMMA TypesNext == TypeOK /\ Roles /\ [Next]_vars => TypeOK'
<1> SUFFICES ASSUME TypeOK, Roles, [Next]_vars PROVE TypeOK'
  OBVIOUS
<1> USE Apart DEF goto, wake, relock, return, input, ring, uart, locks, locals
<1>1. ASSUME NEW p \in Procs, ReadLock(p) PROVE TypeOK'
  BY <1>1 DEF TypeOK, ReadLock
<1>2. ASSUME NEW p \in Procs, ReadWait(p) PROVE TypeOK'
  BY <1>2, Zenon DEF TypeOK, ReadWait
<1>3. ASSUME NEW p \in Procs, ReadChar(p) PROVE TypeOK'
  <2>1. r' \in 0 .. UINT - 1
    <3>1. r' = r \/ r' = Inc(r, UINT)
      BY <1>3, Zenon DEF ReadChar, Inc
    <3>2. QED
      BY <3>1, Unsigned, Zenon DEF TypeOK
  <2>2. n' \in [Procs -> Nat]
    <3>1. n' = n \/ (n[p] > 0 /\ n' = [n EXCEPT ![p] = @ - 1])
      BY <1>3, Zenon DEF ReadChar
    <3>2. n \in [Procs -> Nat]
      BY DEF TypeOK
    <3>3. QED
      BY <3>1, <3>2, CountDown
  <2>3. /\ pc' = pc \/ pc' = [pc EXCEPT ![p] = "idle"]
        /\ conslock' = conslock \/ conslock' = NULL
    BY <1>3, Zenon DEF ReadChar
  <2>4. UNCHANGED <<buf, w, e, ring, uart, txlock, prlock, mix, killed, target>>
    BY <1>3, Zenon DEF ReadChar
  <2>5. QED
    BY <2>1, <2>2, <2>3, <2>4, Zenon DEF TypeOK
<1>4. ASSUME NEW p \in Procs, ReadDone(p) PROVE TypeOK'
  BY <1>4 DEF TypeOK, ReadDone
<1>5. ASSUME NEW p \in Procs, WriteNext(p) PROVE TypeOK'
  <2>1. n' \in [Procs -> Nat]
    <3>1. n' = n \/ (n[p] > 0 /\ n' = [n EXCEPT ![p] = @ - 1])
      BY <1>5, Zenon DEF WriteNext
    <3>2. n \in [Procs -> Nat]
      BY DEF TypeOK
    <3>3. QED
      BY <3>1, <3>2, CountDown
  <2>2. QED
    BY <1>5, <2>1, Zenon DEF TypeOK, WriteNext
<1>6. ASSUME NEW p \in Procs, Put(p) PROVE TypeOK'
  <2>1. uart_tx_w' \in 0 .. UINT - 1
    <3>1. uart_tx_w' = uart_tx_w \/ uart_tx_w' = Inc(uart_tx_w, UINT)
      BY <1>6, Zenon DEF Put, Inc
    <3>2. QED
      BY <3>1, Unsigned, Zenon DEF TypeOK
  <2>2. \/ uart_tx_buf' = uart_tx_buf
        \/ uart_tx_buf' = Stored(uart_tx_buf, uart_tx_w, p, UART_TX_BUF_SIZE)
    BY <1>6, Zenon DEF Put, Stored
  <2>3. p \in Writers
    BY <1>6 DEF Put, Roles
  <2>4. uart_tx_buf' \in [0 .. UART_TX_BUF_SIZE - 1 -> Writers \cup {NULL}]
    BY <2>2, <2>3, Zenon DEF TypeOK, Stored
  <2>5. /\ pc' = [pc EXCEPT ![p] = "wsleep"] \/ pc' = [pc EXCEPT ![p] = "start"]
        /\ txlock' = txlock \/ txlock' = p
    BY <1>6, Zenon DEF Put
  <2>6. UNCHANGED <<uart_tx_r, input, uart, conslock, prlock, mix, killed, locals>>
    BY <1>6, Zenon DEF Put
  <2>7. QED
    BY <2>1, <2>4, <2>5, <2>6, Zenon DEF TypeOK
<1>7. ASSUME NEW p \in Procs, StartCheck(p) PROVE TypeOK'
  BY <1>7, Zenon DEF TypeOK, StartCheck
<1>8. ASSUME NEW p \in Procs, StartSend(p) PROVE TypeOK'
  <2>1. uart_tx_r' \in 0 .. UINT - 1
    <3>1. uart_tx_r' = Inc(uart_tx_r, UINT)
      BY <1>8, Zenon DEF StartSend, Inc
    <3>2. QED
      BY <3>1, Unsigned DEF TypeOK
  <2>2. thr' \in Nat /\ pc' \in [Procs -> Labels]
    BY <1>8 DEF TypeOK, StartSend, Labels
  <2>3. UNCHANGED <<input, uart_tx_buf, uart_tx_w, rx, irq, locks, mix, killed, locals>>
    BY <1>8 DEF StartSend
  <2>4. QED
    BY <2>1, <2>2, <2>3, Zenon DEF TypeOK, Labels
<1>9. ASSUME NEW p \in Procs, PrintLock(p) PROVE TypeOK'
  BY <1>9 DEF TypeOK, PrintLock
<1>10. ASSUME NEW p \in Procs, SyncWait(p) PROVE TypeOK'
  BY <1>10, Zenon DEF TypeOK, SyncWait
<1>11. ASSUME NEW p \in Procs, SyncPut(p) PROVE TypeOK'
  <2>1. n' \in [Procs -> Nat]
    BY <1>11, CountDown, Zenon DEF TypeOK, SyncPut, Roles
  <2>2. thr' \in Nat /\ pc' \in [Procs -> Labels]
    BY <1>11 DEF TypeOK, SyncPut, Labels
  <2>3. UNCHANGED <<input, ring, rx, irq, locks, mix, killed, target>>
    BY <1>11 DEF SyncPut
  <2>4. QED
    BY <2>1, <2>2, <2>3, Zenon DEF TypeOK, Labels
<1>12. ASSUME NEW p \in Procs, PrintDone(p) PROVE TypeOK'
  BY <1>12 DEF TypeOK, PrintDone
<1>13. CASE IntrClaim
  BY <1>13, Zenon DEF TypeOK, IntrClaim
<1>14. CASE IntrEchoed
  BY <1>14 DEF TypeOK, IntrEchoed
<1>15. CASE IntrNoMore
  BY <1>15 DEF TypeOK, IntrNoMore
<1>16. CASE IntrStart
  BY <1>16 DEF TypeOK, IntrStart
<1>17. CASE Transmitted
  BY <1>17 DEF TypeOK, Transmitted
<1>18. ASSUME NEW c \in Keys, IntrChar(c) PROVE TypeOK'
  <2>1. procdump \/ Erases \/ Stores(c)
    BY <1>18, CharDoes
  <2>2. w' \in 0 .. UINT - 1 /\ e' \in 0 .. UINT - 1
    <3>1. /\ w' = w \/ w' = Inc(e, UINT)
          /\ e' = e \/ e' = Inc(e, UINT) \/ \E m \in Nat : e' = Back(e, m, UINT)
      BY <2>1, Zenon DEF procdump, Erases, Stores
    <3>2. w \in 0 .. UINT - 1 /\ e \in 0 .. UINT - 1
      BY DEF TypeOK
    <3>3. QED
      BY <3>1, <3>2, Unsigned, Zenon
  <2>3. buf' \in [0 .. INPUT_BUF_SIZE - 1 -> Keys]
    BY <2>1 DEF TypeOK, procdump, Erases, Stores, Stored
  <2>4. n' \in [Procs -> Nat]
    <3>1. 1 \in Nat
      OBVIOUS
    <3>2. \E k \in Nat : n' = [n EXCEPT ![Intr] = k]
      BY <2>1, <3>1, Zenon DEF procdump, echo, Erases, Stores
    <3>3. QED
      BY <3>2 DEF TypeOK
  <2>5. pc' \in [Procs -> Labels]
    BY <2>1, Zenon DEF TypeOK, procdump, echo, Erases, Stores, Labels
  <2>6. rx' \in Seq(Keys)
    BY <1>18 DEF TypeOK, IntrChar
  <2>7. conslock' = Intr /\ UNCHANGED <<r, ring, thr, irq, txlock, prlock, mix, killed, target>>
    BY <1>18, Zenon DEF IntrChar
  <2>8. QED
    BY <2>2, <2>3, <2>4, <2>5, <2>6, <2>7, Zenon DEF TypeOK, Labels
<1>19. ASSUME NEW c \in Keys, Receive(c) PROVE TypeOK'
  <2>1. irq' \in BOOLEAN
    BY <1>19, Zenon DEF Receive
  <2>2. rx' \in Seq(Keys)
    BY <1>19 DEF TypeOK, Receive
  <2>3. UNCHANGED <<input, ring, thr, locks, mix, killed, pc, locals>>
    BY <1>19, Zenon DEF Receive
  <2>4. QED
    BY <2>1, <2>2, <2>3, Zenon DEF TypeOK
<1>20. ASSUME NEW p \in Users, Kill(p) PROVE TypeOK'
  BY <1>20, Zenon DEF TypeOK, Kill
<1>21. ASSUME NEW p \in Users, NEW k \in mix.counts, Call(p, k) PROVE TypeOK'
  BY <1>21, Counts, Zenon DEF TypeOK, Call
<1>22. CASE UNCHANGED vars
  BY <1>22 DEF TypeOK, vars
<1>23. QED
  BY <1>1, <1>2, <1>3, <1>4, <1>5, <1>6, <1>7, <1>8, <1>9, <1>10, <1>11, <1>12, <1>13, <1>14, <1>15,
     <1>16, <1>17, <1>18, <1>19, <1>20, <1>21, <1>22, Zenon
  DEF Next, Handler, Proceed

\* uart_tx_lock keeps everyone else out of uartstart().
LEMMA RolesNext == TypeOK /\ Roles /\ [Next]_vars => Roles'
<1> SUFFICES ASSUME TypeOK, Roles, [Next]_vars PROVE Roles'
  OBVIOUS
<1> USE Apart DEF goto, wake, relock, return, input, ring, uart, locks, locals
<1>1. ASSUME NEW p \in Procs, ReadLock(p) PROVE Roles'
  BY <1>1 DEF TypeOK, Roles, ReadLock
<1>2. ASSUME NEW p \in Procs, ReadWait(p) PROVE Roles'
  BY <1>2, Zenon DEF TypeOK, Roles, ReadWait
<1>3. ASSUME NEW p \in Procs, ReadChar(p) PROVE Roles'
  <2>1. /\ pc[p] = "read" /\ UNCHANGED <<uart_tx_r, uart_tx_w, txlock>>
        /\ pc' = pc \/ pc' = [pc EXCEPT ![p] = "idle"]
        /\ n' = n \/ n' = [n EXCEPT ![p] = @ - 1]
    BY <1>3, Zenon DEF ReadChar
  <2>2. pc'[p] \in {"read", "idle"} /\ \A q \in Procs \ {p} : pc'[q] = pc[q]
    BY <2>1 DEF TypeOK
  <2>3. \A q \in Procs \ {p} : n'[q] = n[q]
    BY <2>1 DEF TypeOK
  <2>4. QED
    BY <2>1, <2>2, <2>3 DEF Roles
<1>4. ASSUME NEW p \in Procs, ReadDone(p) PROVE Roles'
  BY <1>4 DEF TypeOK, Roles, ReadDone
<1>5. ASSUME NEW p \in Procs, WriteNext(p) PROVE Roles'
  <2>1. /\ pc[p] = "write" /\ UNCHANGED <<uart_tx_r, uart_tx_w, txlock>>
        /\ pc' = [pc EXCEPT ![p] = "wlock"] \/ pc' = [pc EXCEPT ![p] = "idle"]
        /\ n' = n \/ n' = [n EXCEPT ![p] = @ - 1]
    BY <1>5, Zenon DEF WriteNext
  <2>2. pc'[p] \in {"wlock", "idle"} /\ \A q \in Procs \ {p} : pc'[q] = pc[q]
    BY <2>1 DEF TypeOK
  <2>3. \A q \in Procs \ {p} : n'[q] = n[q]
    BY <2>1 DEF TypeOK
  <2>4. QED
    BY <2>1, <2>2, <2>3 DEF Roles
<1>6. ASSUME NEW p \in Procs, Put(p) PROVE Roles'
  <2>1. pc[p] = "wlock" /\ txlock = NULL /\ p \in Writers /\ n' = n
    BY <1>6 DEF Put, Roles
  <2>2. (pc'[p] = "wsleep" /\ txlock' = NULL) \/ (pc'[p] = "start" /\ txlock' = p)
    BY <1>6, <2>1 DEF Put, TypeOK
  <2>3. \A q \in Procs \ {p} : pc'[q] = pc[q] /\ pc[q] # "send" /\ pc[q] # "start"
    BY <1>6, <2>1 DEF Put, TypeOK, Roles
  <2>4. QED
    BY <2>1, <2>2, <2>3, Apart DEF Roles
<1>7. ASSUME NEW p \in Procs, StartCheck(p) PROVE Roles'
  <2>1. /\ pc[p] = "start" /\ txlock = p /\ (p = Intr \/ p \in Writers)
        /\ UNCHANGED <<uart_tx_w, uart_tx_r, n>>
    BY <1>7 DEF StartCheck, Roles
  <2>2. \/ txlock' = NULL /\ pc'[p] = (IF p = Intr THEN "idle" ELSE "write")
        \/ txlock' = txlock /\ uart_tx_w # uart_tx_r /\ pc'[p] = "send"
    BY <1>7 DEF StartCheck, TypeOK
  <2>3. \A q \in Procs \ {p} : pc'[q] = pc[q] /\ pc[q] # "send" /\ pc[q] # "start"
    BY <1>7, <2>1 DEF StartCheck, TypeOK, Roles
  <2>4. QED
    BY <2>1, <2>2, <2>3 DEF Roles
<1>8. ASSUME NEW p \in Procs, StartSend(p) PROVE Roles'
  BY <1>8 DEF TypeOK, Roles, StartSend
<1>9. ASSUME NEW p \in Procs, PrintLock(p) PROVE Roles'
  BY <1>9 DEF TypeOK, Roles, PrintLock
<1>10. ASSUME NEW p \in Procs, SyncWait(p) PROVE Roles'
  BY <1>10 DEF TypeOK, Roles, SyncWait
<1>11. ASSUME NEW p \in Procs, SyncPut(p) PROVE Roles'
  BY <1>11 DEF TypeOK, Roles, SyncPut
<1>12. ASSUME NEW p \in Procs, PrintDone(p) PROVE Roles'
  BY <1>12 DEF TypeOK, Roles, PrintDone
<1>13. CASE IntrClaim
  BY <1>13 DEF TypeOK, Roles, IntrClaim
<1>14. CASE IntrEchoed
  BY <1>14 DEF TypeOK, Roles, IntrEchoed
<1>15. CASE IntrNoMore
  BY <1>15 DEF TypeOK, Roles, IntrNoMore
<1>16. CASE IntrStart
  BY <1>16 DEF TypeOK, Roles, IntrStart
<1>17. CASE Transmitted
  BY <1>17 DEF TypeOK, Roles, Transmitted
<1>18. ASSUME NEW c \in Keys, IntrChar(c) PROVE Roles'
  <2>1. pc[Intr] = "get" /\ UNCHANGED <<uart_tx_r, uart_tx_w, txlock>>
    BY <1>18 DEF IntrChar
  <2>2. QED
    BY <1>18, <2>1, CharMoves DEF Roles
<1>19. ASSUME NEW c \in Keys, Receive(c) PROVE Roles'
  BY <1>19 DEF TypeOK, Roles, Receive
<1>20. ASSUME NEW p \in Users, Kill(p) PROVE Roles'
  <2>1. \A q \in Procs : \/ pc'[q] = pc[q]
                         \/ pc[q] = "rsleep" /\ pc'[q] = "rlock"
                         \/ pc[q] = "wsleep" /\ pc'[q] = "wlock"
    BY <1>20 DEF TypeOK, Kill
  <2>2. UNCHANGED <<uart_tx_r, uart_tx_w, txlock, n>>
    BY <1>20 DEF Kill
  <2>3. QED
    BY <2>1, <2>2 DEF Roles
<1>21. ASSUME NEW p \in Users, NEW k \in mix.counts, Call(p, k) PROVE Roles'
  <2>1. /\ pc[p] = "idle" /\ UNCHANGED <<uart_tx_r, uart_tx_w, txlock>>
        /\ n' = [n EXCEPT ![p] = k]
    BY <1>21 DEF Call
  <2>2. pc'[p] = CASE p \in Readers -> "rlock" [] p \in Writers -> "write" [] OTHER -> "prlock"
    BY <1>21 DEF Call, TypeOK
  <2>3. /\ pc'[p] \in {"rlock", "write", "prlock"}
        /\ pc'[p] = "rlock" => p \in Readers
        /\ pc'[p] = "write" => p \in Writers
    BY <2>2
  <2>4. \A q \in Procs \ {p} : pc'[q] = pc[q]
    BY <1>21 DEF Call, TypeOK
  <2>5. \A q \in Procs \ {p} : n'[q] = n[q]
    BY <2>1 DEF TypeOK
  <2>6. QED
    BY <2>1, <2>3, <2>4, <2>5 DEF Roles
<1>22. CASE UNCHANGED vars
  BY <1>22 DEF TypeOK, Roles, vars
<1>23. QED
  BY <1>1, <1>2, <1>3, <1>4, <1>5, <1>6, <1>7, <1>8, <1>9, <1>10, <1>11, <1>12, <1>13, <1>14, <1>15,
     <1>16, <1>17, <1>18, <1>19, <1>20, <1>21, <1>22, Zenon
  DEF Next, Handler, Proceed

\* Nobody goes to sleep when there is something to do, and who changes that wakes all.
LEMMA SleepNext == TypeOK /\ Roles /\ NoSleeperForgotten /\ [Next]_vars => NoSleeperForgotten'
<1> SUFFICES ASSUME TypeOK, Roles, NoSleeperForgotten, [Next]_vars PROVE NoSleeperForgotten'
  OBVIOUS
<1> USE Apart DEF goto, wake, relock, return, input, ring, uart, locks, locals
<1>1. ASSUME NEW p \in Procs, ReadLock(p) PROVE NoSleeperForgotten'
  BY <1>1 DEF TypeOK, Roles, NoSleeperForgotten, ringfull, ReadLock
<1>2. ASSUME NEW p \in Procs, ReadWait(p) PROVE NoSleeperForgotten'
  BY <1>2 DEF TypeOK, Roles, NoSleeperForgotten, ringfull, ReadWait
<1>3. ASSUME NEW p \in Procs, ReadChar(p) PROVE NoSleeperForgotten'
  BY <1>3, Zenon DEF TypeOK, Roles, NoSleeperForgotten, ringfull, ReadChar
<1>4. ASSUME NEW p \in Procs, ReadDone(p) PROVE NoSleeperForgotten'
  BY <1>4 DEF TypeOK, Roles, NoSleeperForgotten, ringfull, ReadDone
<1>5. ASSUME NEW p \in Procs, WriteNext(p) PROVE NoSleeperForgotten'
  <2>1. \A q \in Procs : pc'[q] \in {"rsleep", "wsleep"} => pc'[q] = pc[q]
    BY <1>5 DEF TypeOK, WriteNext
  <2>2. UNCHANGED <<r, w, uart_tx_r, uart_tx_w>>
    BY <1>5 DEF WriteNext
  <2>3. QED
    BY <2>1, <2>2 DEF NoSleeperForgotten, ringfull
<1>6. ASSUME NEW p \in Procs, Put(p) PROVE NoSleeperForgotten'
  BY <1>6 DEF TypeOK, Roles, NoSleeperForgotten, ringfull, Put
<1>7. ASSUME NEW p \in Procs, StartCheck(p) PROVE NoSleeperForgotten'
  BY <1>7 DEF TypeOK, Roles, NoSleeperForgotten, ringfull, StartCheck
<1>8. ASSUME NEW p \in Procs, StartSend(p) PROVE NoSleeperForgotten'
  BY <1>8 DEF TypeOK, Roles, NoSleeperForgotten, ringfull, StartSend
<1>9. ASSUME NEW p \in Procs, PrintLock(p) PROVE NoSleeperForgotten'
  BY <1>9 DEF TypeOK, Roles, NoSleeperForgotten, ringfull, PrintLock
<1>10. ASSUME NEW p \in Procs, SyncWait(p) PROVE NoSleeperForgotten'
  BY <1>10 DEF TypeOK, Roles, NoSleeperForgotten, ringfull, SyncWait
<1>11. ASSUME NEW p \in Procs, SyncPut(p) PROVE NoSleeperForgotten'
  BY <1>11 DEF TypeOK, Roles, NoSleeperForgotten, ringfull, SyncPut
<1>12. ASSUME NEW p \in Procs, PrintDone(p) PROVE NoSleeperForgotten'
  BY <1>12 DEF TypeOK, Roles, NoSleeperForgotten, ringfull, PrintDone
<1>13. CASE IntrClaim
  BY <1>13 DEF TypeOK, Roles, NoSleeperForgotten, ringfull, IntrClaim
<1>14. CASE IntrEchoed
  BY <1>14 DEF TypeOK, Roles, NoSleeperForgotten, ringfull, IntrEchoed
<1>15. CASE IntrNoMore
  BY <1>15 DEF TypeOK, Roles, NoSleeperForgotten, ringfull, IntrNoMore
<1>16. CASE IntrStart
  BY <1>16 DEF TypeOK, Roles, NoSleeperForgotten, ringfull, IntrStart
<1>17. CASE Transmitted
  BY <1>17 DEF TypeOK, Roles, NoSleeperForgotten, ringfull, Transmitted
<1>18. ASSUME NEW c \in Keys, IntrChar(c) PROVE NoSleeperForgotten'
  <2>1. procdump \/ Erases \/ Stores(c)
    BY <1>18, CharDoes
  <2>2. w' = w \/ wake("rsleep", Intr, "spin")
    BY <2>1, Zenon DEF procdump, echo, Erases, Stores
  <2>3. pc'[Intr] \in {"spin", "prlock"}
    BY <1>18, CharMoves
  <2>4. \A q \in Procs : pc'[q] \in {"rsleep", "wsleep"} => pc'[q] = pc[q]
    BY <1>18, <2>3, CharMoves
  <2>5. w' = w \/ \A q \in Procs : pc'[q] # "rsleep"
    BY <2>2, <2>3, Zenon DEF TypeOK
  <2>6. UNCHANGED <<r, uart_tx_r, uart_tx_w>>
    BY <1>18 DEF IntrChar
  <2>7. QED
    BY <2>4, <2>5, <2>6 DEF NoSleeperForgotten, ringfull
<1>19. ASSUME NEW c \in Keys, Receive(c) PROVE NoSleeperForgotten'
  BY <1>19 DEF TypeOK, Roles, NoSleeperForgotten, ringfull, Receive
<1>20. ASSUME NEW p \in Users, Kill(p) PROVE NoSleeperForgotten'
  BY <1>20 DEF TypeOK, Roles, NoSleeperForgotten, ringfull, Kill
<1>21. ASSUME NEW p \in Users, NEW k \in mix.counts, Call(p, k) PROVE NoSleeperForgotten'
  BY <1>21 DEF TypeOK, Roles, NoSleeperForgotten, ringfull, Call
<1>22. CASE UNCHANGED vars
  BY <1>22 DEF TypeOK, Roles, NoSleeperForgotten, ringfull, vars
<1>23. QED
  BY <1>1, <1>2, <1>3, <1>4, <1>5, <1>6, <1>7, <1>8, <1>9, <1>10, <1>11, <1>12, <1>13, <1>14, <1>15,
     <1>16, <1>17, <1>18, <1>19, <1>20, <1>21, <1>22, Zenon
  DEF Next, Handler, Proceed

\* Whoever leaves uartstart() with characters in the ring leaves the UART sending.
LEMMA GoesOnNext == TypeOK /\ Roles /\ TransmitGoesOn /\ [Next]_vars => TransmitGoesOn'
<1> SUFFICES ASSUME TypeOK, Roles, TransmitGoesOn, [Next]_vars PROVE TransmitGoesOn'
  OBVIOUS
<1> USE Apart DEF goto, wake, relock, return, input, ring, uart, locks, locals
<1>1. ASSUME NEW p \in Procs, ReadLock(p) PROVE TransmitGoesOn'
  BY <1>1 DEF TypeOK, Roles, TransmitGoesOn, ReadLock
<1>2. ASSUME NEW p \in Procs, ReadWait(p) PROVE TransmitGoesOn'
  <2>1. p # Intr
    BY IntrApart, <1>2 DEF ReadWait, Roles
  <2>2. pc'[Intr] = pc[Intr] /\ UNCHANGED <<ring, thr, irq, txlock>>
    BY <1>2, <2>1 DEF ReadWait, TypeOK
  <2>3. QED
    BY <2>2 DEF TransmitGoesOn
<1>3. ASSUME NEW p \in Procs, ReadChar(p) PROVE TransmitGoesOn'
  <2>1. p # Intr
    BY IntrApart, <1>3 DEF ReadChar, Roles
  <2>2. pc'[Intr] = pc[Intr] /\ UNCHANGED <<ring, thr, irq, txlock>>
    BY <1>3, <2>1 DEF ReadChar, TypeOK
  <2>3. QED
    BY <2>2 DEF TransmitGoesOn
<1>4. ASSUME NEW p \in Procs, ReadDone(p) PROVE TransmitGoesOn'
  <2>1. p # Intr
    BY IntrApart, <1>4 DEF ReadDone, Roles
  <2>2. pc'[Intr] = pc[Intr] /\ UNCHANGED <<ring, thr, irq, txlock>>
    BY <1>4, <2>1 DEF ReadDone, TypeOK
  <2>3. QED
    BY <2>2 DEF TransmitGoesOn
<1>5. ASSUME NEW p \in Procs, WriteNext(p) PROVE TransmitGoesOn'
  <2>1. p # Intr
    BY IntrApart, <1>5 DEF WriteNext, Roles
  <2>2. pc'[Intr] = pc[Intr] /\ UNCHANGED <<ring, thr, irq, txlock>>
    BY <1>5, <2>1 DEF WriteNext, TypeOK
  <2>3. QED
    BY <2>2 DEF TransmitGoesOn
<1>6. ASSUME NEW p \in Procs, Put(p) PROVE TransmitGoesOn'
  BY <1>6 DEF TypeOK, Roles, TransmitGoesOn, Put
<1>7. ASSUME NEW p \in Procs, StartCheck(p) PROVE TransmitGoesOn'
  BY <1>7 DEF TypeOK, Roles, TransmitGoesOn, StartCheck
<1>8. ASSUME NEW p \in Procs, StartSend(p) PROVE TransmitGoesOn'
  BY <1>8 DEF TypeOK, Roles, TransmitGoesOn, StartSend
<1>9. ASSUME NEW p \in Procs, PrintLock(p) PROVE TransmitGoesOn'
  BY <1>9 DEF TypeOK, Roles, TransmitGoesOn, PrintLock
<1>10. ASSUME NEW p \in Procs, SyncWait(p) PROVE TransmitGoesOn'
  BY <1>10 DEF TypeOK, Roles, TransmitGoesOn, SyncWait
<1>11. ASSUME NEW p \in Procs, SyncPut(p) PROVE TransmitGoesOn'
  BY <1>11 DEF TypeOK, Roles, TransmitGoesOn, SyncPut
<1>12. ASSUME NEW p \in Procs, PrintDone(p) PROVE TransmitGoesOn'
  <2>1. p # Intr
    BY IntrApart, <1>12 DEF PrintDone, Roles
  <2>2. pc'[Intr] = pc[Intr] /\ UNCHANGED <<ring, thr, irq, txlock>>
    BY <1>12, <2>1 DEF PrintDone, TypeOK
  <2>3. QED
    BY <2>2 DEF TransmitGoesOn
<1>13. CASE IntrClaim
  BY <1>13 DEF TypeOK, Roles, TransmitGoesOn, IntrClaim
<1>14. CASE IntrEchoed
  BY <1>14 DEF TypeOK, Roles, TransmitGoesOn, IntrEchoed
<1>15. CASE IntrNoMore
  BY <1>15 DEF TypeOK, Roles, TransmitGoesOn, IntrNoMore
<1>16. CASE IntrStart
  BY <1>16 DEF TypeOK, Roles, TransmitGoesOn, IntrStart
<1>17. CASE Transmitted
  BY <1>17 DEF TypeOK, Roles, TransmitGoesOn, Transmitted
<1>18. ASSUME NEW c \in Keys, IntrChar(c) PROVE TransmitGoesOn'
  <2>1. pc'[Intr] # "idle"
    BY <1>18, CharMoves
  <2>2. QED
    BY <2>1 DEF TransmitGoesOn
<1>19. ASSUME NEW c \in Keys, Receive(c) PROVE TransmitGoesOn'
  BY <1>19 DEF TypeOK, Roles, TransmitGoesOn, Receive
<1>20. ASSUME NEW p \in Users, Kill(p) PROVE TransmitGoesOn'
  BY <1>20, IntrApart DEF TypeOK, Roles, TransmitGoesOn, Kill
<1>21. ASSUME NEW p \in Users, NEW k \in mix.counts, Call(p, k) PROVE TransmitGoesOn'
  BY <1>21, IntrApart DEF TypeOK, Roles, TransmitGoesOn, Call
<1>22. CASE UNCHANGED vars
  BY <1>22 DEF TypeOK, Roles, TransmitGoesOn, vars
<1>23. QED
  BY <1>1, <1>2, <1>3, <1>4, <1>5, <1>6, <1>7, <1>8, <1>9, <1>10, <1>11, <1>12, <1>13, <1>14, <1>15,
     <1>16, <1>17, <1>18, <1>19, <1>20, <1>21, <1>22, Zenon
  DEF Next, Handler, Proceed

-----------------------------------------------------------------------------
\* Only consoleread() and consoleintr() change the input buffer.
LEMMA InputOthers ==
  ASSUME [Next]_vars
  PROVE  \/ UNCHANGED input
         \/ \E p \in Procs : ReadChar(p)
         \/ \E c \in Keys : IntrChar(c)
<1>1. ASSUME NEW p \in Procs, Proceed(p) PROVE UNCHANGED input \/ ReadChar(p)
  BY <1>1, Zenon DEF Proceed, ReadLock, ReadWait, ReadDone, WriteNext, Put, StartCheck,
                     StartSend, PrintLock, SyncWait, SyncPut, PrintDone
<1>2. ASSUME Handler PROVE UNCHANGED input \/ \E c \in Keys : IntrChar(c)
  BY <1>2, Zenon DEF Handler, IntrClaim, IntrEchoed, IntrNoMore, IntrStart
<1>3. QED
  BY <1>1, <1>2, Zenon DEF Next, vars, Receive, Transmitted, Kill, Call

\* Only uartputc() and uartstart() change the transmit ring.
LEMMA RingOthers ==
  ASSUME [Next]_vars
  PROVE  UNCHANGED ring \/ \E p \in Procs : Put(p) \/ StartSend(p)
<1>1. ASSUME NEW p \in Procs, Proceed(p) PROVE UNCHANGED ring \/ Put(p) \/ StartSend(p)
  BY <1>1, Zenon DEF Proceed, ReadLock, ReadWait, ReadChar, ReadDone, WriteNext, StartCheck,
                     PrintLock, SyncWait, SyncPut, PrintDone
<1>2. ASSUME Handler PROVE UNCHANGED ring
  BY <1>2, Zenon DEF Handler, IntrClaim, IntrChar, IntrEchoed, IntrNoMore, IntrStart
<1>3. QED
  BY <1>1, <1>2, Zenon DEF Next, vars, Receive, Transmitted, Kill, Call

ready == Held(r, w, UINT)
edited == Held(r, e, UINT)
lines == Queue(buf, r, w, INPUT_BUF_SIZE, UINT)

\* InputNotStuck, in the terms of RingProofs.
LEMMA InputIs ==
  ASSUME InputNotStuck
  PROVE  /\ ready <= edited /\ edited <= INPUT_BUF_SIZE
         /\ edited = INPUT_BUF_SIZE => r # w
BY Zenon DEF InputNotStuck, Ready, Edited, Held, ready, edited

\* The first character of the finished lines is taken, or nothing is.
LEMMA ReadTakes ==
  ASSUME TypeOK, InputNotStuck, NEW p \in Procs, ReadChar(p)
  PROVE  /\ InputNotStuck'
         /\ UNCHANGED input \/ (ready > 0 /\ lines' = Tail(lines))
<1>1. /\ r \in 0 .. UINT - 1 /\ w \in 0 .. UINT - 1 /\ e \in 0 .. UINT - 1
      /\ buf \in [0 .. INPUT_BUF_SIZE - 1 -> Keys]
  BY DEF TypeOK
<1>2. r # w /\ UNCHANGED <<buf, w, e>> /\ (r' = r \/ r' = Inc(r, UINT))
  BY Zenon DEF ReadChar, Inc
<1>3. CASE r' = r
  BY <1>2, <1>3, Zenon DEF InputNotStuck, Ready, Edited, input
<1>4. CASE r' = Inc(r, UINT)
  <2>1. /\ Held(Inc(r, UINT), w, UINT) = ready - 1
        /\ Taken(lines, Queue(buf, Inc(r, UINT), w, INPUT_BUF_SIZE, UINT))
        /\ Queue(buf, Inc(r, UINT), w, INPUT_BUF_SIZE, UINT) \in Seq(Keys)
    BY <1>1, <1>2, Sizes, RingTake, Zenon DEF ready, lines
  <2>2. ready' = ready - 1 /\ lines' = Tail(lines)
    BY <1>2, <1>4, <2>1, Zenon DEF ready, lines, Taken
  <2>3. ready \in 0 .. UINT - 1 /\ edited \in 0 .. UINT - 1 /\ ready # 0
    <3>1. ready \in 0 .. UINT - 1 /\ (r = w <=> ready = 0)
      BY <1>1, Sizes, Counters, Zenon DEF ready
    <3>2. edited \in 0 .. UINT - 1
      BY <1>1, Sizes, Counters, Zenon DEF edited
    <3>3. QED
      BY <1>2, <3>1, <3>2
  <2>4. ready <= edited /\ edited <= INPUT_BUF_SIZE
    BY InputIs
  <2>5. r # e
    <3>1. edited # 0
      BY <2>3, <2>4
    <3>2. QED
      BY <1>1, <3>1, Sizes, Counters DEF edited
  <2>6. Held(Inc(r, UINT), e, UINT) = edited - 1
    <3>1. /\ Held(Inc(r, UINT), e, UINT) = Held(r, e, UINT) - 1
          /\ Queue(buf, Inc(r, UINT), e, INPUT_BUF_SIZE, UINT) \in Seq(Keys)
      BY <1>1, <2>5, Sizes, RingTake, Zenon
    <3>2. QED
      BY <3>1, Zenon DEF edited
  <2>7. edited' = edited - 1
    BY <1>2, <1>4, <2>6, Zenon DEF edited
  <2>8. ready' <= edited' /\ edited' <= INPUT_BUF_SIZE /\ edited' # INPUT_BUF_SIZE /\ ready > 0
    BY <2>2, <2>3, <2>4, <2>7, Sizes
  <2>9. InputNotStuck'
    BY <2>8, Zenon DEF InputNotStuck, Ready, Edited, Held, ready, edited
  <2>10. QED
    BY <2>2, <2>8, <2>9
<1>5. QED
  BY <1>2, <1>3, <1>4

\* What is typed is put behind the finished lines, or taken back as far as they go.
LEMMA CharKeeps ==
  ASSUME TypeOK, InputNotStuck, NEW c \in Keys, IntrChar(c)
  PROVE  InputNotStuck' /\ ready <= ready' /\ Kept(lines, lines')
<1>1. /\ r \in 0 .. UINT - 1 /\ w \in 0 .. UINT - 1 /\ e \in 0 .. UINT - 1
      /\ buf \in [0 .. INPUT_BUF_SIZE - 1 -> Keys]
  BY DEF TypeOK
<1>2. r' = r
  BY DEF IntrChar
<1>3. ready \in 0 .. UINT - 1 /\ edited \in 0 .. UINT - 1
  BY <1>1, Sizes, Counters, Zenon DEF ready, edited
<1>4. /\ ready <= edited /\ edited <= INPUT_BUF_SIZE /\ (edited = INPUT_BUF_SIZE => r # w)
      /\ r = w <=> ready = 0
  <2>1. r = w <=> ready = 0
    BY <1>1, Sizes, Counters DEF ready
  <2>2. QED
    BY <2>1, InputIs
<1>5. ASSUME UNCHANGED <<buf, w>> PROVE ready' = ready /\ Kept(lines, lines')
  <2>1. ready' = ready /\ lines' = lines
    BY <1>2, <1>5, Zenon DEF ready, lines
  <2>2. Kept(lines, lines)
    BY <1>1, Sizes, RingSame, Zenon DEF lines
  <2>3. QED
    BY <2>1, <2>2, Zenon
<1>6. CASE procdump
  <2>1. UNCHANGED <<buf, w, e>>
    BY <1>6 DEF procdump
  <2>2. InputNotStuck'
    BY <1>2, <2>1, Zenon DEF InputNotStuck, Ready, Edited
  <2>3. QED
    BY <1>3, <1>5, <2>1, <2>2
<1>7. CASE Erases
  <2>1. PICK m \in Nat : m <= Held(w, e, UINT) /\ e' = Back(e, m, UINT) /\ UNCHANGED <<buf, w>>
    BY <1>7, Zenon DEF Erases
  <2>2. Held(w, e, UINT) = edited - ready
    BY <1>1, <1>4, Sizes, HeldSplit DEF ready, edited
  <2>3. m \in 0 .. edited /\ m <= edited - ready
    BY <1>3, <2>1, <2>2
  <2>4. Held(r, (e - m) % UINT, UINT) = edited - m
    BY <1>1, <2>3, Sizes, HeldLess, Zenon DEF edited
  <2>5. edited' = edited - m
    BY <1>2, <2>1, <2>4, Zenon DEF edited, Back
  <2>6. ready' = ready
    BY <1>5, <2>1
  <2>7. ready' <= edited' /\ edited' <= INPUT_BUF_SIZE /\ (edited' = INPUT_BUF_SIZE => r' # w')
    BY <1>2, <1>3, <1>4, <2>1, <2>3, <2>5, <2>6, Sizes
  <2>8. InputNotStuck'
    BY <2>7, Zenon DEF InputNotStuck, Ready, Edited, Held, ready, edited
  <2>9. QED
    BY <1>3, <1>5, <2>1, <2>6, <2>8
<1>8. CASE Stores(c)
  <2>1. /\ edited < INPUT_BUF_SIZE /\ buf' = Stored(buf, e, c, INPUT_BUF_SIZE)
        /\ e' = Inc(e, UINT)
        /\ w' = Inc(e, UINT) \/ (w' = w /\ edited + 1 # INPUT_BUF_SIZE)
    BY <1>8, Zenon DEF Stores, edited
  <2>2. Held(r, (e + 1) % UINT, UINT) = edited + 1 /\ (e + 1) % UINT \in 0 .. UINT - 1
    <3>1. edited + 1 < UINT /\ 1 \in Nat
      BY <1>3, <2>1, Sizes
    <3>2. QED
      BY <1>1, <3>1, Sizes, HeldMore, Zenon DEF edited
  <2>3. edited' = edited + 1 /\ Held(r, Inc(e, UINT), UINT) = edited + 1
        /\ Inc(e, UINT) \in 0 .. UINT - 1
    BY <1>2, <2>1, <2>2, Zenon DEF edited, Inc
  <2>4. ready' = edited + 1 \/ (ready' = ready /\ w' = w /\ edited + 1 # INPUT_BUF_SIZE)
    BY <1>2, <2>1, <2>3, Zenon DEF ready
  <2>5. w' \in 0 .. UINT - 1
    BY <1>1, <2>1, <2>3
  <2>6. r' = w' <=> ready' = 0
    BY <1>1, <1>2, <2>5, Sizes, Counters DEF ready
  <2>7. /\ ready' <= edited' /\ edited' <= INPUT_BUF_SIZE /\ ready <= ready'
        /\ edited' = INPUT_BUF_SIZE => r' # w'
    BY <1>3, <1>4, <2>1, <2>3, <2>4, <2>6, Sizes
  <2>8. InputNotStuck'
    BY <2>7, Zenon DEF InputNotStuck, Ready, Edited, Held, ready, edited
  <2>9. Held(r, w, UINT) <= Held(r, w', UINT) /\ Held(r, e, UINT) < INPUT_BUF_SIZE
        /\ Held(r, w, UINT) <= Held(r, e, UINT)
    BY <1>2, <1>4, <2>1, <2>7, Zenon DEF ready, edited
  <2>10. Kept(Queue(buf, r, w, INPUT_BUF_SIZE, UINT),
              Queue(Stored(buf, e, c, INPUT_BUF_SIZE), r, w', INPUT_BUF_SIZE, UINT))
    BY <1>1, <2>5, <2>9, Sizes, RingKeep
  <2>11. Kept(lines, lines')
    BY <1>2, <2>1, <2>10, Zenon DEF lines
  <2>12. QED
    BY <2>7, <2>8, <2>11
<1>9. QED
  BY <1>6, <1>7, <1>8, CharDoes

-----------------------------------------------------------------------------
held == Held(uart_tx_r, uart_tx_w, UINT)
sent == Queue(uart_tx_buf, uart_tx_r, uart_tx_w, UART_TX_BUF_SIZE, UINT)

\* The invariant.
ConsoleInv ==
  /\ TypeOK /\ Roles
  /\ NoSleeperForgotten /\ TransmitGoesOn /\ InputNotStuck
  /\ held <= UART_TX_BUF_SIZE

\* uartputc() puts its character behind those in the ring.
LEMMA PutAppends ==
  ASSUME ConsoleInv, NEW p \in Procs, Put(p)
  PROVE  /\ held' <= UART_TX_BUF_SIZE
         /\ \/ UNCHANGED ring
            \/ p \in Writers /\ held < UART_TX_BUF_SIZE /\ sent' = Append(sent, p)
<1>1. /\ uart_tx_r \in 0 .. UINT - 1 /\ uart_tx_w \in 0 .. UINT - 1
      /\ uart_tx_buf \in [0 .. UART_TX_BUF_SIZE - 1 -> Writers \cup {NULL}]
  BY DEF ConsoleInv, TypeOK
<1>2. p \in Writers
  BY DEF ConsoleInv, Roles, Put
<1>3. held \in 0 .. UINT - 1 /\ held <= UART_TX_BUF_SIZE
  BY <1>1, Sizes, Counters DEF ConsoleInv, held
<1>4. CASE UNCHANGED ring
  <2>1. held' = held
    BY <1>4 DEF ring, held
  <2>2. QED
    BY <1>3, <1>4, <2>1
<1>5. CASE /\ ~ringfull
           /\ uart_tx_buf' = Stored(uart_tx_buf, uart_tx_w, p, UART_TX_BUF_SIZE)
           /\ uart_tx_w' = Inc(uart_tx_w, UINT) /\ uart_tx_r' = uart_tx_r
  <2>1. held # UART_TX_BUF_SIZE
    BY <1>1, <1>5, Sizes, Full, Zenon DEF held, ringfull
  <2>2. held < UART_TX_BUF_SIZE
    BY <1>3, <2>1, Sizes
  <2>room. held + 1 < UINT
    BY <1>3, <2>2, Sizes
  <2>3. PICK S : S = Writers \cup {NULL}
    BY Zenon
  <2>4. p \in S /\ uart_tx_buf \in [0 .. UART_TX_BUF_SIZE - 1 -> S]
    BY <1>1, <1>2, <2>3
  <2>5. /\ Held(uart_tx_r, Inc(uart_tx_w, UINT), UINT) = held + 1
        /\ Appended(sent, p, Queue(Stored(uart_tx_buf, uart_tx_w, p, UART_TX_BUF_SIZE), uart_tx_r,
                                   Inc(uart_tx_w, UINT), UART_TX_BUF_SIZE, UINT))
        /\ Queue(Stored(uart_tx_buf, uart_tx_w, p, UART_TX_BUF_SIZE), uart_tx_r,
                 Inc(uart_tx_w, UINT), UART_TX_BUF_SIZE, UINT) \in Seq(S)
    BY <1>1, <2>2, <2>room, <2>4, Sizes, RingPut DEF held, sent
  <2>6. held' = held + 1 /\ sent' = Append(sent, p)
    BY <1>5, <2>5, Zenon DEF held, sent, Appended
  <2>7. QED
    BY <1>2, <1>3, <2>2, <2>6, Sizes
<1>6. QED
  BY <1>4, <1>5, Zenon DEF Put, ring, Stored, Inc

\* uartstart() sends the first one.
LEMMA SendTakes ==
  ASSUME ConsoleInv, NEW p \in Procs, StartSend(p)
  PROVE  held' <= UART_TX_BUF_SIZE /\ sent # <<>> /\ sent' = Tail(sent)
<1>1. /\ uart_tx_r \in 0 .. UINT - 1 /\ uart_tx_w \in 0 .. UINT - 1
      /\ uart_tx_buf \in [0 .. UART_TX_BUF_SIZE - 1 -> Writers \cup {NULL}]
  BY DEF ConsoleInv, TypeOK
<1>2. uart_tx_r # uart_tx_w
  BY DEF ConsoleInv, Roles, StartSend
<1>3. uart_tx_r' = Inc(uart_tx_r, UINT) /\ UNCHANGED <<uart_tx_buf, uart_tx_w>>
  BY Zenon DEF StartSend, Inc
<1>4. PICK S : S = Writers \cup {NULL}
  BY Zenon
<1>5. uart_tx_buf \in [0 .. UART_TX_BUF_SIZE - 1 -> S]
  BY <1>1, <1>4
<1>6. /\ Held(Inc(uart_tx_r, UINT), uart_tx_w, UINT) = held - 1
      /\ Taken(sent, Queue(uart_tx_buf, Inc(uart_tx_r, UINT), uart_tx_w, UART_TX_BUF_SIZE, UINT))
      /\ Queue(uart_tx_buf, Inc(uart_tx_r, UINT), uart_tx_w, UART_TX_BUF_SIZE, UINT) \in Seq(S)
  BY <1>1, <1>2, <1>5, Sizes, RingTake, Zenon DEF held, sent
<1>7. held' = held - 1 /\ sent # <<>> /\ sent' = Tail(sent)
  BY <1>3, <1>6, Zenon DEF held, sent, Taken
<1>8. held \in 0 .. UINT - 1
  BY <1>1, Sizes, Counters, Zenon DEF held
<1>9. QED
  BY <1>7, <1>8, Sizes DEF ConsoleInv

\* Both buffers are empty and everyone is idle.
LEMMA InitInv == Init => ConsoleInv /\ sent = <<>>
<1> SUFFICES ASSUME Init PROVE ConsoleInv /\ sent = <<>>
  OBVIOUS
<1>1. TypeOK
  BY TypesInit
<1>2. Roles /\ NoSleeperForgotten
  BY Apart DEF Init, Roles, NoSleeperForgotten
<1>3. TransmitGoesOn
  BY DEF Init, TransmitGoesOn
<1>4. Held(0, 0, UINT) = 0
  <2>1. 0 \in 0 .. UINT - 1
    BY Sizes
  <2>2. QED
    BY <2>1, Sizes, Counters
<1>5. held = 0 /\ ready = 0 /\ edited = 0
  BY <1>4, Zenon DEF Init, held, ready, edited
<1>6. held <= UART_TX_BUF_SIZE /\ ready <= edited /\ edited <= INPUT_BUF_SIZE
      /\ edited # INPUT_BUF_SIZE
  BY <1>5, Sizes
<1>7. InputNotStuck
  BY <1>6, Zenon DEF InputNotStuck, Ready, Edited, Held, ready, edited
<1>8. sent = <<>>
  BY <1>5 DEF sent, held, Queue
<1>9. QED
  BY <1>1, <1>2, <1>3, <1>6, <1>7, <1>8 DEF ConsoleInv

\* Every step keeps the invariant.
LEMMA NextInv == ConsoleInv /\ [Next]_vars => ConsoleInv'
<1> SUFFICES ASSUME ConsoleInv, [Next]_vars PROVE ConsoleInv'
  OBVIOUS
<1>1. /\ TypeOK /\ Roles /\ NoSleeperForgotten /\ TransmitGoesOn /\ InputNotStuck
      /\ held <= UART_TX_BUF_SIZE
  BY DEF ConsoleInv
<1>2. TypeOK' /\ Roles' /\ NoSleeperForgotten' /\ TransmitGoesOn'
  BY <1>1, TypesNext, RolesNext, SleepNext, GoesOnNext
<1>3. InputNotStuck'
  <2>1. CASE UNCHANGED input
    BY <1>1, <2>1, Zenon DEF input, InputNotStuck, Ready, Edited
  <2>2. QED
    BY <1>1, <2>1, InputOthers, ReadTakes, CharKeeps, Zenon
<1>4. held' <= UART_TX_BUF_SIZE
  <2>1. CASE UNCHANGED ring
    BY <1>1, <2>1, Zenon DEF ring, held
  <2>2. QED
    BY <2>1, RingOthers, PutAppends, SendTakes, Zenon
<1>5. QED
  BY <1>2, <1>3, <1>4 DEF ConsoleInv

\* Whatever is read, written, printed and typed, the variables have their types.
THEOREM TypesHold == Spec => []TypeOK
<1>1. ConsoleInv => TypeOK
  BY DEF ConsoleInv
<1>2. QED
  BY InitInv, NextInv, <1>1, PTL DEF Spec

\* The input buffer never holds too much and never fills with an unfinished line.
THEOREM InputHolds == Spec => []InputNotStuck
<1>1. ConsoleInv => InputNotStuck
  BY DEF ConsoleInv
<1>2. QED
  BY InitInv, NextInv, <1>1, PTL DEF Spec

\* consoleintr() and uartstart() lose no wakeup.
THEOREM SleepersHold == Spec => []NoSleeperForgotten
<1>1. ConsoleInv => NoSleeperForgotten
  BY DEF ConsoleInv
<1>2. QED
  BY InitInv, NextInv, <1>1, PTL DEF Spec

\* Output in the ring always has someone or something that will send it.
THEOREM TransmitHolds == Spec => []TransmitGoesOn
<1>1. ConsoleInv => TransmitGoesOn
  BY DEF ConsoleInv
<1>2. QED
  BY InitInv, NextInv, <1>1, PTL DEF Spec

\* The handler never changes a finished line, and readers take it in order.
THEOREM LinesHold == Spec => LinesKept
<1> DEFINE Step == \/ Ready <= Ready' /\ SubSeq(Committed', 1, Ready) = Committed
                   \/ Ready > 0 /\ Committed' = Tail(Committed)
<1>1. ConsoleInv /\ [Next]_vars => [Step]_vars
  <2> SUFFICES ASSUME ConsoleInv, [Next]_vars PROVE Step
    OBVIOUS
  <2>1. /\ Committed = lines /\ Ready = ready /\ Committed' = lines' /\ Ready' = ready'
    BY Zenon DEF Committed, Ready, lines, ready, Queue, Held
  <2>2. TypeOK /\ InputNotStuck
    BY DEF ConsoleInv
  <2>3. /\ r \in 0 .. UINT - 1 /\ w \in 0 .. UINT - 1
        /\ buf \in [0 .. INPUT_BUF_SIZE - 1 -> Keys]
    BY <2>2 DEF TypeOK
  <2>4. Len(lines) = ready
    BY <2>3, Sizes, QueueLen DEF lines, ready
  <2>5. ASSUME ready <= ready', Kept(lines, lines') PROVE Step
    BY <2>1, <2>4, <2>5, Zenon DEF Kept
  <2>6. CASE UNCHANGED input
    <3>1. lines' = lines /\ ready' = ready
      BY <2>6, Zenon DEF input, lines, ready
    <3>2. Kept(lines, lines)
      BY <2>3, Sizes, RingSame, Zenon DEF lines
    <3>3. ready <= ready
      BY <2>3, Sizes, Counters DEF ready
    <3>4. QED
      BY <2>5, <3>1, <3>2, <3>3, Zenon
  <2>7. ASSUME NEW p \in Procs, ReadChar(p) PROVE Step
    BY <2>1, <2>2, <2>6, <2>7, ReadTakes, Zenon
  <2>8. ASSUME NEW c \in Keys, IntrChar(c) PROVE Step
    BY <2>2, <2>5, <2>8, CharKeeps, Zenon
  <2>9. QED
    BY <2>6, <2>7, <2>8, InputOthers, Zenon
<1>2. QED
  BY InitInv, NextInv, <1>1, PTL DEF Spec, LinesKept

\* The transmit ring is a queue of at most UART_TX_BUF_SIZE characters: uartputc()
\* appends one, uartstart() sends the first, and no other step changes it.
THEOREM TransmitImplementsFifo == Spec => TransmitIsFifo
<1>1. Init => Transmit!Init
  BY InitInv DEF Transmit!Init, sent, Queue, Held
<1>2. ConsoleInv /\ [Next]_vars => [Transmit!Next]_sent
  <2> SUFFICES ASSUME ConsoleInv, [Next]_vars PROVE [Transmit!Next]_sent
    OBVIOUS
  <2>1. CASE UNCHANGED ring
    BY <2>1 DEF ring, sent, Queue, Held
  <2>2. ASSUME NEW p \in Writers, held < UART_TX_BUF_SIZE, sent' = Append(sent, p)
        PROVE Transmit!Next
    <3>1. Len(sent) = held
      BY Sizes, QueueLen DEF ConsoleInv, TypeOK, sent, held
    <3>2. QED
      BY <2>2, <3>1, Zenon DEF Transmit!Next, Transmit!Put, sent, held, Queue, Held
  <2>3. ASSUME NEW p \in Procs, Put(p) PROVE [Transmit!Next]_sent
    BY <2>1, <2>2, <2>3, PutAppends
  <2>4. ASSUME NEW p \in Procs, StartSend(p) PROVE Transmit!Next
    BY <2>4, SendTakes, Zenon DEF Transmit!Next, Transmit!Get, sent, Queue, Held
  <2>5. QED
    BY <2>1, <2>3, <2>4, RingOthers
<1>3. QED
  BY InitInv, NextInv, <1>1, <1>2, PTL
  DEF Spec, TransmitIsFifo, Transmit!Spec, sent, Queue, Held
=============================================================================
