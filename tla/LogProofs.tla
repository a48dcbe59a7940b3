----------------------------- MODULE LogProofs -----------------------------
(***************************************************************************)
(* Log.tla, for every number of processes, blocks, log entries and         *)
(* crashes: the types, that a quiet log leaves everything at home, and     *)
(* that the log implements AtomicDisk.                                     *)
(***************************************************************************)
EXTENDS Log, FiniteSetTheorems, TLAPS

Committing == {"write_log", "write_head", "install", "clear", "committed"}
Distinct(s) == \A i, j \in DOMAIN s : s[i] = s[j] => i = j
InOp == {p \in Procs : pc[p] = "op"}

\* Who is where: outstanding counts the calls in progress, and at most one
\* process commits, with no call in progress.
Actors ==
  /\ outstanding = Cardinality(InOp)
  /\ committing <=> \E p \in Procs : pc[p] \in Committing
  /\ \A p, q \in Procs : pc[p] \in Committing /\ pc[q] \in Committing => p = q
  /\ committing => InOp = {}
  /\ boot # "done" => \A p \in Procs : pc[p] = "idle"
  /\ panicked => boot = "done" /\ InOp # {}

\* What a running system keeps true of the disk, while the last transaction
\* is being collected and while process p commits it.
Running ==
  boot = "done" /\ ~panicked =>
    /\ \A b \in Blocks : b \notin blocks(lh) => disk[b] = cache[b]
    /\ InOp = {} /\ ~committing => lh = <<>>
    /\ (\A p \in Procs : pc[p] \notin {"install", "clear"}) => head = <<>>

Logged(n) == \A i \in 1 .. n : logblk[i] = cache[lh[i]]
Installed(n) == \A i \in 1 .. n : disk[lh[i]] = logblk[i]

Commits(p) ==
  /\ pc[p] = "write_log" => tail < Len(lh) /\ Logged(tail)
  /\ pc[p] = "write_head" => 0 < Len(lh) /\ Logged(Len(lh))
  /\ pc[p] = "install" =>
       head = lh /\ tail < Len(lh) /\ Logged(Len(lh)) /\ Installed(tail)
  /\ pc[p] = "clear" => head = lh /\ Logged(Len(lh)) /\ Installed(Len(lh))
  /\ pc[p] = "committed" => lh = <<>>

\* What recovery keeps true of the disk.
Recovering ==
  /\ boot = "read_head" => tail = 0 /\ lh = <<>>
  /\ boot = "install" =>
       lh = head /\ tail < Len(lh) /\ Installed(tail) /\ cache = disk
  /\ boot = "clear" => lh = head /\ Installed(Len(lh)) /\ cache = disk

LogInv ==
  /\ TypeOK
  /\ Distinct(lh) /\ Distinct(head)
  /\ Actors /\ Running /\ Recovering
  /\ \A p \in Procs : Commits(p)
-----------------------------------------------------------------------------
\* The processes between begin_op() and end_op() are finitely many, so that
\* log.outstanding can be compared with their number.
LEMMA InOpFinite ==
  /\ IsFiniteSet(InOp) /\ Cardinality(InOp) \in Nat
  /\ Cardinality(InOp) = 0 <=> InOp = {}
<1>1. IsFiniteSet(InOp)
  BY FS_Subset, LogConstantsOK DEF InOp, LogConstantsOK
<1>2. QED
  BY <1>1, FS_CardinalityType, FS_EmptySet

\* Initially the disk is as Init says and nobody is in a call.
LEMMA InitInv == Init => LogInv
<1>1. SUFFICES ASSUME Init PROVE LogInv
  OBVIOUS
<1>2. TypeOK
  <2>1. committing \in BOOLEAN /\ panicked \in BOOLEAN
    BY <1>1, Zenon DEF Init
  <2>2. QED
    BY <1>1, <2>1, LogConstantsOK DEF Init, TypeOK, LogConstantsOK
<1>3. InOp = {} /\ Cardinality(InOp) = 0
  BY <1>1, FS_EmptySet, Zenon DEF Init, InOp
<1>4. Actors
  BY <1>1, <1>3 DEF Init, Actors, Committing
<1>5. QED
  BY <1>1, <1>2, <1>4
  DEF Init, LogInv, Distinct, Running, Recovering, Commits

\* The types, step by step.
LEMMA StepTypes == LogInv /\ [Next]_vars => TypeOK'
<1> SUFFICES ASSUME LogInv, [Next]_vars PROVE TypeOK'
  OBVIOUS
<1> USE LogConstantsOK DEF LogConstantsOK, LogInv
<1>1. ASSUME NEW p \in Procs, begin_op(p) PROVE TypeOK'
  <2>1. committing' \in BOOLEAN /\ panicked' \in BOOLEAN
    BY <1>1, Zenon DEF begin_op, TypeOK, logvars
  <2>2. lh' = lh /\ used' = used
    BY <1>1, Zenon DEF begin_op, logvars
  <2>3. outstanding' \in Nat /\ ops' \in [Procs -> Int]
    BY <1>1 DEF begin_op, TypeOK, logvars
  <2>4. QED
    BY <1>1, <2>1, <2>2, <2>3, Zenon DEF begin_op, TypeOK, diskvars
<1>2. ASSUME NEW p \in Procs, kill(p) PROVE TypeOK'
  BY <1>2 DEF kill, TypeOK, logvars, diskvars
<1>3. ASSUME NEW p \in Procs, NEW b \in Blocks, NEW v \in Vals, log_write(p, b, v)
      PROVE TypeOK'
  <2>1. committing' \in BOOLEAN /\ panicked' \in BOOLEAN
    BY <1>3, Zenon DEF log_write, TypeOK
  <2>2. lh' \in Seq(Blocks) /\ Len(lh') <= LOGSIZE
    <3>1. lh' = lh \/ (~(Len(lh) >= LOGSIZE) /\ lh' = Append(lh, b))
      BY <1>3, Zenon DEF log_write
    <3>2. CASE Len(lh) < LOGSIZE /\ lh' = Append(lh, b)
      BY <3>2 DEF TypeOK
    <3>3. QED
      BY <3>1, <3>2 DEF TypeOK
  <2>3. used' \in [Procs -> SUBSET Blocks]
    BY <1>3, Zenon DEF log_write, TypeOK
  <2>4. QED
    BY <1>3, <2>1, <2>2, <2>3 DEF log_write, TypeOK, diskvars
<1>4. ASSUME NEW p \in Procs, end_op(p) PROVE TypeOK'
  <2>1. outstanding # 0
    BY <1>4, InOpFinite DEF end_op, Actors, InOp
  <2>2. committing' \in BOOLEAN /\ panicked' \in BOOLEAN
    BY <1>4, Zenon DEF end_op, TypeOK
  <2>3. outstanding' \in Nat
    BY <1>4, <2>1 DEF end_op, TypeOK
  <2>4. pc' \in [Procs -> {"idle", "begin", "sleep", "op", "write_log", "write_head",
                          "install", "clear", "committed"}]
    BY <1>4, Zenon DEF end_op, TypeOK, wakeup
  <2>5. used' \in [Procs -> SUBSET Blocks]
    BY <1>4, Zenon DEF end_op, TypeOK
  <2>6. QED
    BY <1>4, <2>2, <2>3, <2>4, <2>5 DEF end_op, TypeOK, diskvars
<1>5. ASSUME NEW p \in Procs, write_log(p) PROVE TypeOK'
  BY <1>5 DEF write_log, TypeOK, logvars, Commits
<1>6. ASSUME NEW p \in Procs, write_head(p) PROVE TypeOK'
  BY <1>6 DEF write_head, TypeOK, logvars
<1>7. ASSUME NEW p \in Procs, install_trans(p) PROVE TypeOK'
  BY <1>7 DEF install_trans, TypeOK, logvars, Commits
<1>8. ASSUME NEW p \in Procs, clear(p) PROVE TypeOK'
  BY <1>8 DEF clear, TypeOK
<1>9. ASSUME NEW p \in Procs, committed(p) PROVE TypeOK'
  BY <1>9, Zenon DEF committed, TypeOK, wakeup, diskvars
<1>10. CASE crash
  <2>1. committing' \in BOOLEAN /\ panicked' \in BOOLEAN
    BY <1>10, Zenon DEF crash, TypeOK
  <2>2. QED
    BY <1>10, <2>1 DEF crash, TypeOK, diskvars
<1>11. CASE read_head
  BY <1>11 DEF read_head, TypeOK, diskvars
<1>12. CASE recover_install
  BY <1>12 DEF recover_install, TypeOK, logvars, Recovering
<1>13. CASE recover_clear
  BY <1>13 DEF recover_clear, TypeOK
<1>14. CASE UNCHANGED vars
  BY <1>14 DEF TypeOK, vars, logvars, diskvars
<1>15. QED
  BY <1>1, <1>2, <1>3, <1>4, <1>5, <1>6, <1>7, <1>8, <1>9, <1>10, <1>11, <1>12,
     <1>13, <1>14 DEF Next, Proceed, Recover, Stopped

\* A step that moves nobody into or out of a call or a commit.
LEMMA SameActors ==
  ASSUME Actors, UNCHANGED <<outstanding, committing, boot, panicked>>,
         \A q \in Procs : pc'[q] = "op" <=> pc[q] = "op",
         \A q \in Procs : pc'[q] \in Committing <=> pc[q] \in Committing,
         boot # "done" => pc' = pc
  PROVE  Actors'
<1>1. InOp' = InOp
  BY DEF InOp
<1>2. QED
  BY <1>1, Zenon DEF Actors

\* log.outstanding counts the open calls, and at most one process commits.
LEMMA StepActors == LogInv /\ [Next]_vars => Actors'
<1> SUFFICES ASSUME LogInv, [Next]_vars PROVE Actors'
  OBVIOUS
<1> USE DEF LogInv
<1>1. ASSUME NEW p \in Procs, begin_op(p) PROVE Actors'
  <2>1. CASE committing \/ nospace
    <3>1. pc' = [pc EXCEPT ![p] = "sleep"] /\ UNCHANGED <<outstanding, committing, boot, panicked>>
      BY <1>1, <2>1, Zenon DEF begin_op, logvars
    <3>2. QED
      BY <1>1, <3>1, SameActors DEF begin_op, TypeOK, Committing, Up
  <2>2. CASE ~committing /\ ~nospace
    <3>1. /\ pc' = [pc EXCEPT ![p] = "op"] /\ outstanding' = outstanding + 1
          /\ UNCHANGED <<committing, boot, panicked>> /\ boot = "done" /\ ~panicked
          /\ pc[p] # "op" /\ pc[p] \notin Committing
      BY <1>1, <2>2 DEF begin_op, logvars, Up, Committing
    <3>2. InOp' = InOp \cup {p} /\ p \notin InOp
      BY <3>1 DEF InOp, TypeOK
    <3>3. outstanding' = Cardinality(InOp')
      BY <3>1, <3>2, InOpFinite, FS_AddElement, ZenonT(60) DEF Actors
    <3>4. \A q \in Procs : pc'[q] \in Committing <=> pc[q] \in Committing
      BY <3>1 DEF TypeOK, Committing
    <3>5. QED
      BY <2>2, <3>1, <3>3, <3>4, Zenon DEF Actors
  <2>3. QED
    BY <2>1, <2>2
<1>2. ASSUME NEW p \in Procs, kill(p) PROVE Actors'
  BY <1>2, SameActors DEF kill, TypeOK, logvars, Committing, Up
<1>3. ASSUME NEW p \in Procs, NEW b \in Blocks, NEW v \in Vals, log_write(p, b, v)
      PROVE Actors'
  <2>1. InOp' = InOp /\ p \in InOp
    BY <1>3 DEF log_write, InOp
  <2>2. QED
    BY <1>3, <2>1, Zenon DEF log_write, Actors, Up
<1>4. ASSUME NEW p \in Procs, end_op(p) PROVE Actors'
  <2>1. p \in InOp /\ boot = "done" /\ ~panicked
    BY <1>4 DEF end_op, InOp, Up
  <2>2. ~committing /\ \A q \in Procs : pc[q] \notin Committing
    BY <2>1, Zenon DEF Actors
  <2>3. InOp' = InOp \ {p}
    BY <1>4, Zenon DEF end_op, InOp, TypeOK, wakeup
  <2>4. outstanding' = Cardinality(InOp')
    BY <1>4, <2>1, <2>3, InOpFinite, FS_RemoveElement, Zenon DEF Actors, end_op
  <2>5. boot' = "done" /\ ~panicked'
    BY <1>4, <2>1, <2>2, Zenon DEF end_op
  <2>6. CASE outstanding' = 0
    <3>1. InOp' = {}
      BY <2>3, <2>4, <2>6, InOpFinite, FS_EmptySet, FS_Subset, Zenon
    <3>2. committing' = TRUE /\ pc'[p] \in Committing
      BY <1>4, <2>6 DEF end_op, Committing, TypeOK
    <3>3. \A q \in Procs : q # p => pc'[q] \notin Committing
      BY <1>4, <2>2, <2>6 DEF end_op, TypeOK
    <3>4. QED
      BY <2>4, <2>5, <3>1, <3>2, <3>3, Zenon DEF Actors
  <2>7. CASE outstanding' # 0
    <3>1. committing' = committing
      BY <1>4, <2>7, Zenon DEF end_op
    <3>2. \A q \in Procs : pc'[q] \notin Committing
      BY <1>4, <2>2, <2>7, Zenon DEF end_op, TypeOK, wakeup, Committing
    <3>3. QED
      BY <2>2, <2>4, <2>5, <3>1, <3>2, Zenon DEF Actors
  <2>8. QED
    BY <2>6, <2>7
<1>5. ASSUME NEW p \in Procs, write_log(p) PROVE Actors'
  BY <1>5, SameActors DEF write_log, TypeOK, logvars, Committing, Up
<1>6. ASSUME NEW p \in Procs, write_head(p) PROVE Actors'
  BY <1>6, SameActors DEF write_head, TypeOK, logvars, Committing, Up
<1>7. ASSUME NEW p \in Procs, install_trans(p) PROVE Actors'
  BY <1>7, SameActors DEF install_trans, TypeOK, logvars, Committing, Up
<1>8. ASSUME NEW p \in Procs, clear(p) PROVE Actors'
  BY <1>8, SameActors DEF clear, TypeOK, Committing, Up
<1>9. ASSUME NEW p \in Procs, committed(p) PROVE Actors'
  <2>1. pc[p] \in Committing /\ boot = "done" /\ ~panicked
    BY <1>9 DEF committed, Committing, Up
  <2>2. InOp' = InOp /\ InOp = {}
    BY <1>9, <2>1 DEF committed, InOp, TypeOK, wakeup, Actors
  <2>3. \A q \in Procs : pc'[q] \notin Committing
    BY <1>9, <2>1 DEF committed, TypeOK, wakeup, Actors, Committing
  <2>4. committing' = FALSE /\ UNCHANGED <<outstanding, boot, panicked>>
    BY <1>9, Zenon DEF committed
  <2>5. QED
    BY <2>1, <2>2, <2>3, <2>4, Zenon DEF Actors
<1>10. CASE crash
  <2>1. InOp' = {} /\ Cardinality({}) = 0
    BY <1>10, FS_EmptySet DEF crash, InOp
  <2>2. /\ \A q \in Procs : pc'[q] \notin Committing /\ pc'[q] = "idle"
        /\ outstanding' = 0
    BY <1>10 DEF crash, Committing
  <2>3. committing' = FALSE /\ ~panicked'
    BY <1>10, Zenon DEF crash
  <2>4. QED
    BY <2>1, <2>2, <2>3, Zenon DEF Actors
<1>11. CASE Recover
  <2>1. boot # "done" /\ UNCHANGED <<outstanding, committing, pc, panicked>>
    BY <1>11, Zenon DEF Recover, read_head, recover_install, recover_clear, logvars
  <2>2. InOp' = InOp
    BY <2>1 DEF InOp
  <2>3. QED
    BY <2>1, <2>2, Zenon DEF Actors
<1>12. CASE UNCHANGED vars
  BY <1>12, SameActors, Zenon DEF vars, logvars
<1>13. QED
  BY <1>1, <1>2, <1>3, <1>4, <1>5, <1>6, <1>7, <1>8, <1>9, <1>10, <1>11, <1>12
  DEF Next, Proceed, Stopped

\* log absorption: no block is logged twice.
LEMMA StepDistinct == LogInv /\ [Next]_vars => Distinct(lh)' /\ Distinct(head)'
<1> SUFFICES ASSUME LogInv, [Next]_vars PROVE Distinct(lh)' /\ Distinct(head)'
  OBVIOUS
<1> USE DEF LogInv
<1>1. ASSUME NEW p \in Procs, NEW b \in Blocks, NEW v \in Vals, log_write(p, b, v)
      PROVE Distinct(lh)' /\ Distinct(head)'
  <2>1. lh' = lh \/ (b \notin blocks(lh) /\ lh' = Append(lh, b))
    BY <1>1, Zenon DEF log_write
  <2>2. CASE b \notin blocks(lh) /\ lh' = Append(lh, b)
    <3>1. /\ lh \in Seq(Blocks)
          /\ \A n \in 1 .. Len(lh) : lh[n] # b
      BY <2>2 DEF TypeOK, blocks
    <3>2. QED
      BY <1>1, <2>2, <3>1 DEF Distinct, log_write, diskvars
  <2>3. QED
    BY <1>1, <2>1, <2>2 DEF Distinct, log_write, diskvars
<1>2. ASSUME NEW p \in Procs,
             begin_op(p) \/ kill(p) \/ end_op(p) \/ write_log(p) \/ install_trans(p)
               \/ committed(p)
      PROVE lh' = lh /\ head' = head
  BY <1>2, Zenon DEF begin_op, kill, end_op, write_log, install_trans, committed, logvars, diskvars
<1>3. ASSUME NEW p \in Procs, write_head(p) \/ clear(p)
      PROVE Distinct(lh)' /\ Distinct(head)'
  BY <1>3 DEF write_head, clear, logvars, Distinct
<1>4. CASE crash \/ Recover
  BY <1>4 DEF crash, Recover, read_head, recover_install, recover_clear, logvars, diskvars,
     Distinct
<1>5. CASE UNCHANGED vars
  BY <1>5, Zenon DEF vars, logvars, diskvars, Distinct
<1>6. QED
  BY <1>1, <1>2, <1>3, <1>4, <1>5 DEF Next, Proceed, Stopped, Distinct

\* What the disk and the log hold, for a step of a process.
LEMMA StepOfProcess ==
  ASSUME LogInv, [Next]_vars, NEW p \in Procs, Proceed(p) \/ kill(p)
  PROVE  Running' /\ Recovering' /\ \A q \in Procs : Commits(q)'
<1> USE DEF LogInv
<1>0. boot = "done" /\ boot' = "done" /\ ~panicked
  BY DEF Proceed, begin_op, kill, log_write, end_op, write_log, write_head, install_trans,
     clear, committed, Up
<1>0a. Recovering'
  BY <1>0 DEF Recovering
<1>0b. pc[p] \in Committing =>
         InOp = {} /\ committing /\ \A q \in Procs : q # p => pc[q] \notin Committing
  BY Zenon DEF Actors
<1>1. CASE begin_op(p)
  <2>1. UNCHANGED <<lh, cache, disk, logblk, head, tail, committing, panicked>>
    BY <1>1, Zenon DEF begin_op, logvars, diskvars
  <2>2. /\ pc[p] \notin Committing /\ pc'[p] \in {"sleep", "op"} /\ pc[p] # "op"
        /\ \A q \in Procs : q # p => pc'[q] = pc[q]
    BY <1>1 DEF begin_op, TypeOK, Committing
  <2>3. InOp \subseteq InOp'
    BY <2>2, SMTT(60) DEF InOp
  <2>4. Running'
    BY <1>0, <2>1, <2>2, <2>3, ZenonT(60) DEF Running, blocks, Committing
  <2>5. \A q \in Procs : Commits(q)'
    BY <2>1, <2>2 DEF Commits, Logged, Installed
  <2>6. QED
    BY <1>0a, <2>4, <2>5
<1>2. CASE kill(p)
  <2>1. UNCHANGED <<lh, cache, disk, logblk, head, tail, committing, panicked>>
    BY <1>2, Zenon DEF kill, logvars, diskvars
  <2>2. /\ pc[p] = "sleep" /\ pc'[p] = "begin"
        /\ \A q \in Procs : q # p => pc'[q] = pc[q]
    BY <1>2 DEF kill, TypeOK
  <2>3. InOp = InOp'
    BY <2>2 DEF InOp
  <2>4. Running'
    BY <1>0, <2>1, <2>2, <2>3 DEF Running, blocks
  <2>5. \A q \in Procs : Commits(q)'
    BY <2>1, <2>2 DEF Commits, Logged, Installed
  <2>6. QED
    BY <1>0a, <2>4, <2>5
<1>3. ASSUME NEW b \in Blocks, NEW v \in Vals, log_write(p, b, v)
      PROVE Running' /\ Recovering' /\ \A q \in Procs : Commits(q)'
  <2>1. p \in InOp /\ InOp' = InOp
    BY <1>3 DEF InOp, log_write
  <2>2. ~committing /\ \A q \in Procs : pc[q] \notin Committing
    BY <2>1, Zenon DEF Actors
  <2>3. pc' = pc /\ UNCHANGED <<disk, head>> /\ cache' = [cache EXCEPT ![b] = v]
    BY <1>3 DEF log_write, diskvars
  <2>4. \A q \in Procs : Commits(q)'
    BY <2>2, <2>3 DEF Commits, Committing
  <2>5. ASSUME ~panicked' PROVE b \in blocks(lh') /\ blocks(lh) \subseteq blocks(lh')
    <3>1. lh' = IF b \in blocks(lh) THEN lh ELSE Append(lh, b)
      BY <1>3, <2>5, Zenon DEF log_write
    <3>2. lh \in Seq(Blocks)
      BY DEF TypeOK
    <3>3. CASE lh' = Append(lh, b)
      BY <3>2, <3>3 DEF blocks
    <3>4. QED
      BY <3>1, <3>3
  <2>6. head = <<>>
    BY <1>0, <2>2 DEF Running, Committing
  <2>7. Running'
    BY <1>0, <2>1, <2>3, <2>5, <2>6 DEF Running, TypeOK
  <2>8. QED
    BY <1>0a, <2>4, <2>7
<1>4. CASE end_op(p)
  <2>1. p \in InOp
    BY <1>4 DEF InOp, end_op
  <2>2. ~committing /\ \A q \in Procs : pc[q] \notin Committing
    BY <2>1, Zenon DEF Actors
  <2>3. UNCHANGED <<lh, cache, disk, head>> /\ tail' = 0
    BY <1>4 DEF end_op, diskvars
  <2>4. head = <<>>
    BY <1>0, <2>2 DEF Running, Committing
  <2>5. Actors'
    BY StepActors
  <2>6. CASE outstanding' = 0
    <3>1. committing' = TRUE
      BY <1>4, <2>6, Zenon DEF end_op
    <3>2. Running'
      BY <1>0, <2>3, <2>4, <3>1 DEF Running, blocks
    <3>3. /\ \A q \in Procs : q # p => pc'[q] = pc[q]
          /\ pc'[p] = IF lh = <<>> THEN "committed" ELSE "write_log"
      BY <1>4, <2>6 DEF end_op, TypeOK
    <3>4. lh # <<>> => 0 < Len(lh)
      BY DEF TypeOK
    <3>5. \A q \in Procs : Commits(q)'
      BY <2>2, <2>3, <3>3, <3>4 DEF Commits, Committing, Logged
    <3>6. QED
      BY <1>0a, <3>2, <3>5
  <2>7. CASE outstanding' # 0
    <3>1. \A q \in Procs : pc'[q] \notin Committing
      BY <1>4, <2>2, <2>7, Zenon DEF end_op, TypeOK, wakeup, Committing
    <3>2. InOp' # {}
      BY <2>5, <2>7, FS_EmptySet DEF Actors
    <3>3. Running'
      BY <1>0, <2>3, <2>4, <3>2 DEF Running, blocks
    <3>4. QED
      BY <1>0a, <3>1, <3>3 DEF Commits, Committing
  <2>8. QED
    BY <2>6, <2>7
<1>5. CASE write_log(p)
  <2>1. /\ UNCHANGED <<lh, committing, cache, disk, head, panicked>>
        /\ pc[p] = "write_log" /\ tail' = tail + 1
        /\ logblk' = [logblk EXCEPT ![tail + 1] = cache[lh[tail + 1]]]
    BY <1>5, Zenon DEF write_log, logvars
  <2>2. /\ pc'[p] = IF tail + 1 = Len(lh) THEN "write_head" ELSE "write_log"
        /\ \A q \in Procs : q # p => pc'[q] = pc[q] /\ pc[q] \notin Committing
    BY <1>5, <1>0b DEF write_log, TypeOK, Committing
  <2>3. committing
    BY <1>0b, <2>1, Zenon DEF Committing
  <2>4. Running'
    BY <1>0, <2>1, <2>2, <2>3 DEF Running, blocks, Committing
  <2>5. Logged(tail)' /\ tail + 1 <= Len(lh) /\ tail \in Nat /\ Len(lh) \in Nat
    BY <2>1, LogConstantsOK DEF Commits, Logged, TypeOK, LogConstantsOK
  <2>6. \A q \in Procs : Commits(q)'
    BY <2>1, <2>2, <2>5 DEF Commits, Committing
  <2>7. QED
    BY <1>0a, <2>4, <2>6
<1>6. CASE write_head(p)
  <2>1. /\ UNCHANGED <<lh, committing, cache, disk, logblk, panicked>>
        /\ pc[p] = "write_head" /\ tail' = 0 /\ head' = lh
    BY <1>6, Zenon DEF write_head, logvars
  <2>2. /\ pc'[p] = "install"
        /\ \A q \in Procs : q # p => pc'[q] = pc[q] /\ pc[q] \notin Committing
    BY <1>6, <1>0b DEF write_head, TypeOK, Committing
  <2>3. committing
    BY <1>0b, <2>1, Zenon DEF Committing
  <2>4. Running'
    BY <1>0, <2>1, <2>2, <2>3 DEF Running, blocks
  <2>5. \A q \in Procs : Commits(q)'
    BY <2>1, <2>2 DEF Commits, Committing, Logged, Installed, TypeOK
  <2>6. QED
    BY <1>0a, <2>4, <2>5
<1>7. CASE install_trans(p)
  <2> DEFINE b == lh[tail + 1]
  <2>1. /\ UNCHANGED <<lh, committing, head, logblk, panicked>>
        /\ pc[p] = "install" /\ tail' = tail + 1
        /\ cache' = [cache EXCEPT ![b] = logblk[tail + 1]]
        /\ disk' = [disk EXCEPT ![b] = logblk[tail + 1]]
    BY <1>7, Zenon DEF install_trans, logvars
  <2>2. /\ pc'[p] = IF tail + 1 = Len(lh) THEN "clear" ELSE "install"
        /\ \A q \in Procs : q # p => pc'[q] = pc[q] /\ pc[q] \notin Committing
    BY <1>7, <1>0b DEF install_trans, TypeOK, Committing
  <2>3. committing
    BY <1>0b, <2>1, Zenon DEF Committing
  <2>4. /\ tail + 1 \in 1 .. Len(lh) /\ b \in Blocks /\ tail \in Nat /\ Len(lh) \in Nat
        /\ head = lh /\ Logged(Len(lh)) /\ Installed(tail)
    BY <2>1 DEF Commits, TypeOK
  <2>5. cache' = cache
    BY <2>1, <2>4 DEF Logged, TypeOK
  <2>6. Running'
    <3>1. b \in blocks(lh)
      BY <2>4 DEF blocks, TypeOK
    <3>2. QED
      BY <1>0, <2>1, <2>2, <2>3, <2>5, <3>1, SMTT(60) DEF Running, blocks, TypeOK
  <2>7. Installed(tail)'
    <3>1. ASSUME NEW n \in 1 .. tail + 1 PROVE disk'[lh[n]] = logblk[n]
      <4>1. n \in 1 .. Len(lh) /\ lh[n] \in Blocks /\ (n = tail + 1 \/ n \in 1 .. tail)
        BY <2>4 DEF TypeOK
      <4>2. CASE n = tail + 1
        BY <2>1, <2>4, <4>2 DEF TypeOK
      <4>3. CASE n # tail + 1
        <5>1. lh[n] # b
          BY <2>4, <4>1, <4>3, SMTT(60) DEF Distinct, TypeOK
        <5>2. QED
          BY <2>1, <2>4, <4>1, <4>3, <5>1 DEF TypeOK, Installed
      <4>4. QED
        BY <4>2, <4>3
    <3>2. QED
      BY <2>1, <3>1 DEF Installed
  <2>8. \A q \in Procs : Commits(q)'
    BY <2>1, <2>2, <2>4, <2>5, <2>7 DEF Commits, Committing, Logged
  <2>9. QED
    BY <1>0a, <2>6, <2>8
<1>8. CASE clear(p)
  <2>1. /\ UNCHANGED <<committing, cache, disk, panicked>>
        /\ pc[p] = "clear" /\ lh' = <<>> /\ head' = <<>>
    BY <1>8, Zenon DEF clear
  <2>2. /\ pc'[p] = "committed"
        /\ \A q \in Procs : q # p => pc'[q] = pc[q] /\ pc[q] \notin Committing
    BY <1>8, <1>0b DEF clear, TypeOK, Committing
  <2>3. \A b \in Blocks : disk[b] = cache[b]
    <3>1. \A n \in 1 .. Len(lh) : disk[lh[n]] = cache[lh[n]]
      BY <2>1 DEF Commits, Logged, Installed
    <3>2. blocks(lh) = {lh[n] : n \in 1 .. Len(lh)}
      BY DEF blocks, TypeOK
    <3>3. QED
      BY <1>0, <3>1, <3>2 DEF Running
  <2>4. Running'
    BY <1>0, <2>1, <2>3, SMTT(60) DEF Running
  <2>5. \A q \in Procs : Commits(q)'
    BY <2>1, <2>2 DEF Commits, Committing
  <2>6. QED
    BY <1>0a, <2>4, <2>5
<1>9. CASE committed(p)
  <2>1. UNCHANGED <<lh, cache, disk, head, panicked>> /\ pc[p] = "committed"
    BY <1>9, Zenon DEF committed, diskvars
  <2>2. \A q \in Procs : pc'[q] \notin Committing
    BY <1>9, <1>0b, <2>1, SMTT(60) DEF committed, TypeOK, wakeup, Committing
  <2>3. lh = <<>> /\ head = <<>>
    BY <1>0, <1>0b, <2>1 DEF Commits, Running, Committing
  <2>4. Running'
    BY <1>0, <2>1, <2>3 DEF Running, blocks
  <2>5. QED
    BY <1>0a, <2>2, <2>4 DEF Commits, Committing
<1>10. QED
  BY <1>1, <1>2, <1>3, <1>4, <1>5, <1>6, <1>7, <1>8, <1>9, SMTT(60) DEF Proceed
\* What the disk and the log hold, for a crash or a step of recovery.
LEMMA StepOfBoot ==
  ASSUME LogInv, crash \/ Recover
  PROVE  Running' /\ Recovering' /\ \A q \in Procs : Commits(q)'
<1> USE DEF LogInv
<1>1. CASE crash
  BY <1>1 DEF crash, Running, Recovering, Commits, diskvars
<1>2. ASSUME Recover PROVE \A q \in Procs : Commits(q)' /\ pc'[q] = "idle"
  <2>1. pc' = pc /\ boot # "done"
    BY <1>2, ZenonT(60) DEF Recover, read_head, recover_install, recover_clear
  <2>2. QED
    BY <2>1 DEF Actors, Commits
<1>3. CASE read_head
  <2>1. Recovering'
    BY <1>3 DEF read_head, Recovering, Installed, diskvars, TypeOK
  <2>2. QED
    BY <1>2, <1>3, <2>1 DEF Recover, read_head, Running
<1>4. CASE recover_install
  <2> DEFINE b == lh[tail + 1]
  <2>1. /\ UNCHANGED <<lh, head, logblk>>
        /\ lh = head /\ Installed(tail) /\ cache = disk /\ tail' = tail + 1
        /\ cache' = [cache EXCEPT ![b] = logblk[tail + 1]]
        /\ disk' = [disk EXCEPT ![b] = logblk[tail + 1]]
        /\ boot' = IF tail + 1 = Len(lh) THEN "clear" ELSE "install"
    BY <1>4 DEF recover_install, Recovering, logvars
  <2>2. tail + 1 \in 1 .. Len(lh) /\ b \in Blocks /\ tail \in Nat /\ Len(lh) \in Nat
    BY <1>4 DEF recover_install, Recovering, TypeOK
  <2>3. Installed(tail)'
    <3>1. ASSUME NEW n \in 1 .. tail + 1 PROVE disk'[lh[n]] = logblk[n]
      <4>1. n \in 1 .. Len(lh) /\ lh[n] \in Blocks /\ (n = tail + 1 \/ n \in 1 .. tail)
        BY <2>2 DEF TypeOK
      <4>2. CASE n = tail + 1
        BY <2>1, <2>2, <4>2 DEF TypeOK
      <4>3. CASE n # tail + 1
        <5>1. lh[n] # b
          BY <2>2, <4>1, <4>3 DEF Distinct, TypeOK
        <5>2. QED
          BY <2>1, <2>2, <4>1, <4>3, <5>1 DEF TypeOK, Installed
      <4>4. QED
        BY <4>2, <4>3
    <3>2. QED
      BY <2>1, <3>1 DEF Installed
  <2>4. Recovering'
    BY <2>1, <2>2, <2>3 DEF Recovering
  <2>5. QED
    BY <1>2, <1>4, <2>1, <2>4 DEF Recover, Running
<1>5. CASE recover_clear
  BY <1>2, <1>5 DEF Recover, recover_clear, Running, Recovering
<1>6. QED
  BY <1>1, <1>3, <1>4, <1>5 DEF Recover

\* The three parts together: every step keeps the invariant.
LEMMA StepInv == LogInv /\ [Next]_vars => LogInv'
<1> SUFFICES ASSUME LogInv, [Next]_vars PROVE LogInv'
  OBVIOUS
<1>1. Running' /\ Recovering' /\ \A q \in Procs : Commits(q)'
  <2>1. CASE UNCHANGED vars
    BY <2>1
    DEF vars, logvars, diskvars, LogInv, Running, Recovering, Commits, Logged, Installed,
        blocks, InOp
  <2>2. QED
    BY <2>1, StepOfProcess, StepOfBoot, SMTT(60) DEF Next, Stopped
<1>2. QED
  BY <1>1, StepTypes, StepActors, StepDistinct DEF LogInv

\* The invariant is inductive: it holds in every reachable state.
THEOREM LogInvariant == Spec => []LogInv
<1>1. QED
  BY InitInv, StepInv, PTL DEF Spec
-----------------------------------------------------------------------------
\* Every variable of log.c keeps its type: the transaction never outgrows
\* struct logheader, in memory or on disk, whatever the calls write.
THEOREM TypesHold == Spec => []TypeOK
<1>1. LogInv => TypeOK
  BY DEF LogInv
<1>2. QED
  BY <1>1, LogInvariant, PTL

\* When no call is in progress and nobody commits, all that was written is at
\* its home location: end_op() of the last call is a durability point.
THEOREM QuietHolds == Spec => []QuietIsDurable
<1>1. LogInv => QuietIsDurable
  <2> SUFFICES ASSUME LogInv, boot = "done", outstanding = 0, ~committing
               PROVE disk = cache /\ head = <<>>
    BY DEF QuietIsDurable
  <2>1. InOp = {} /\ \A p \in Procs : pc[p] \notin Committing
    BY InOpFinite DEF LogInv, Actors
  <2>2. ~panicked
    BY <2>1, Zenon DEF LogInv, Actors
  <2>3. lh = <<>> /\ head = <<>>
    BY <2>1, <2>2 DEF LogInv, Running, Committing
  <2>4. blocks(lh) = {}
    BY <2>3 DEF blocks
  <2>5. \A b \in Blocks : disk[b] = cache[b]
    BY <2>2, <2>4, Zenon DEF LogInv, Running
  <2>6. QED
    BY <2>3, <2>5 DEF LogInv, TypeOK
<1>2. QED
  BY <1>1, LogInvariant, PTL
-----------------------------------------------------------------------------
(* The reservation of begin_op(): a panic() of log_write() needs a full log. *)

\* What the calls and mkfs.c keep to: the header has room for more than one
\* call, the disk has a log block for every entry (one of them the header), and
\* a call logs fewer blocks than it reserved.
CallsFit ==
  /\ MAXOPBLOCKS < LOGSIZE /\ LOGSIZE <= NLOG
  /\ \A l \in Loads : l.writes < MAXOPBLOCKS

\* The entries that calls in progress reserved and have not used.
Slots == {s \in InOp \X (1 .. MAXOPBLOCKS) : s[2] > Cardinality(used[s[1]])}
Room == Len(lh) + Cardinality(Slots)

\* The blocks of a call are in the log, and the log has room for all that is
\* reserved; a call that is alone leaves one entry more.
Reserved ==
  /\ load \in Loads /\ ~panicked
  /\ \A p \in Procs :
       /\ IsFiniteSet(used[p]) /\ Cardinality(used[p]) < MAXOPBLOCKS
       /\ used[p] \subseteq blocks(lh)
       /\ pc[p] # "op" => used[p] = {}
  /\ Room <= LOGSIZE
  /\ Cardinality(InOp) = 1 => Room < LOGSIZE

\* The reserved entries are finitely many, and none when no call is in progress.
LEMMA SlotsFinite ==
  /\ IsFiniteSet(Slots) /\ Cardinality(Slots) \in Nat
  /\ InOp = {} => Cardinality(Slots) = 0
<1>1. IsFiniteSet(1 .. MAXOPBLOCKS)
  BY FS_Interval, LogConstantsOK DEF LogConstantsOK
<1>2. IsFiniteSet(InOp \X (1 .. MAXOPBLOCKS))
  BY <1>1, InOpFinite, FS_Product, Zenon
<1>3. IsFiniteSet(Slots)
  BY <1>2, FS_Subset DEF Slots
<1>4. InOp = {} => Slots = {}
  BY DEF Slots
<1>5. QED
  BY <1>3, <1>4, FS_CardinalityType, FS_EmptySet

\* A call that begins finds the room that begin_op() asks for.
LEMMA SlotsFit ==
  Cardinality(Slots) <= Cardinality(InOp) * MAXOPBLOCKS
<1>1. IsFiniteSet(1 .. MAXOPBLOCKS) /\ Cardinality(1 .. MAXOPBLOCKS) = MAXOPBLOCKS
  BY FS_Interval, LogConstantsOK DEF LogConstantsOK
<1>2. /\ IsFiniteSet(InOp \X (1 .. MAXOPBLOCKS))
      /\ Cardinality(InOp \X (1 .. MAXOPBLOCKS)) = Cardinality(InOp) * MAXOPBLOCKS
  BY <1>1, InOpFinite, FS_Product, Zenon
<1>3. QED
  BY <1>2, FS_Subset DEF Slots

\* Slots under a prime, for the lemmas above in the next state.
LEMMA SlotsFiniteNext ==
  /\ IsFiniteSet(Slots') /\ Cardinality(Slots') \in Nat
  /\ InOp' = {} => Cardinality(Slots') = 0
  /\ Cardinality(Slots') <= Cardinality(InOp') * MAXOPBLOCKS
<1>1. IsFiniteSet(1 .. MAXOPBLOCKS) /\ Cardinality(1 .. MAXOPBLOCKS) = MAXOPBLOCKS
  BY FS_Interval, LogConstantsOK DEF LogConstantsOK
<1>2. IsFiniteSet(InOp')
  BY FS_Subset, LogConstantsOK DEF InOp, LogConstantsOK
<1>3. /\ IsFiniteSet(InOp' \X (1 .. MAXOPBLOCKS))
      /\ Cardinality(InOp' \X (1 .. MAXOPBLOCKS)) = Cardinality(InOp') * MAXOPBLOCKS
  BY <1>1, <1>2, FS_Product, Zenon
<1>4. IsFiniteSet(Slots') /\ Cardinality(Slots') <= Cardinality(InOp') * MAXOPBLOCKS
  BY <1>3, FS_Subset DEF Slots
<1>5. InOp' = {} => Slots' = {}
  BY DEF Slots
<1>6. QED
  BY <1>4, <1>5, FS_CardinalityType, FS_EmptySet

\* A step that leaves the log, the calls and their blocks alone.
LEMMA ReservedSame ==
  ASSUME Reserved, UNCHANGED <<lh, used, load, panicked>>,
         \A q \in Procs : pc'[q] = "op" <=> pc[q] = "op"
  PROVE  Reserved'
<1>1. InOp' = InOp
  BY DEF InOp
<1>2. Slots' = Slots
  BY <1>1 DEF Slots
<1>3. Room' = Room
  BY <1>2 DEF Room
<1>4. QED
  BY <1>1, <1>3, Zenon DEF Reserved

\* With no call in progress nothing is reserved, whatever the log holds.
LEMMA ReservedNone ==
  ASSUME CallsFit, TypeOK', load' = load, load \in Loads, ~panicked',
         \A q \in Procs : pc'[q] # "op" /\ used'[q] = {}
  PROVE  Reserved'
<1>1. InOp' = {}
  BY DEF InOp
<1>2. Cardinality(InOp') = 0 /\ IsFiniteSet({}) /\ Cardinality({}) = 0
  BY <1>1, FS_EmptySet
<1>3. Room' <= LOGSIZE
  BY <1>1, SlotsFiniteNext, LogConstantsOK DEF Room, TypeOK, LogConstantsOK
<1>4. 0 < MAXOPBLOCKS
  <2>1. load.writes \in Nat /\ load.writes < MAXOPBLOCKS
    BY LogConstantsOK DEF CallsFit, LogConstantsOK
  <2>2. QED
    BY <2>1, LogConstantsOK DEF LogConstantsOK
<1>5. \A q \in Procs : Cardinality(used'[q]) < MAXOPBLOCKS /\ IsFiniteSet(used'[q])
  BY <1>2, <1>4
<1>6. Cardinality(InOp') # 1
  BY <1>2
<1>7. QED
  BY <1>3, <1>5, <1>6, Zenon DEF Reserved

\* Every step keeps the reservation.
LEMMA StepReserved ==
  CallsFit /\ LogInv /\ LogInv' /\ Reserved /\ [Next]_vars => Reserved'
<1> SUFFICES ASSUME CallsFit, LogInv, LogInv', Reserved, [Next]_vars PROVE Reserved'
  OBVIOUS
<1> USE LogConstantsOK DEF LogConstantsOK
<1>0. load' = load
  BY DEF Next, vars
<1>1. ASSUME NEW p \in Procs, begin_op(p) PROVE Reserved'
  <2>1. CASE committing \/ nospace
    <3>1. pc' = [pc EXCEPT ![p] = "sleep"] /\ UNCHANGED <<lh, used, panicked>> /\ pc[p] # "op"
      BY <1>1, <2>1, Zenon DEF begin_op, logvars
    <3>2. QED
      BY <1>0, <3>1, ReservedSame DEF LogInv, TypeOK
  <2>2. CASE ~committing /\ ~nospace
    <3>1. /\ pc' = [pc EXCEPT ![p] = "op"] /\ outstanding' = outstanding + 1
          /\ UNCHANGED <<lh, used, panicked>>
          /\ pc[p] # "op" /\ boot = "done" /\ ~panicked
      BY <1>1, <2>2, Zenon DEF begin_op, Up
    <3>2. Room' <= LOGSIZE
      <4>1. Cardinality(InOp') = outstanding + 1
        BY <3>1 DEF LogInv, Actors
      <4>2. Cardinality(Slots') <= (outstanding + 1) * MAXOPBLOCKS /\ Cardinality(Slots') \in Nat
        BY <4>1, SlotsFiniteNext
      <4>3. Len(lh) \in Nat /\ (outstanding + 1) * MAXOPBLOCKS \in Nat
        BY DEF LogInv, TypeOK
      <4>4. Len(lh) + (outstanding + 1) * MAXOPBLOCKS <= LOGSIZE
        BY <2>2, <4>3 DEF nospace
      <4>5. QED
        BY <3>1, <4>2, <4>3, <4>4 DEF Room
    <3>3. ASSUME Cardinality(InOp') = 1 PROVE Room' < LOGSIZE
      <4>1. outstanding = 0
        <5>1. outstanding' = 1 /\ outstanding \in Nat
          BY <3>3 DEF LogInv, Actors, TypeOK
        <5>2. QED
          BY <3>1, <5>1
      <4>2. InOp = {}
        BY <4>1, InOpFinite DEF LogInv, Actors
      <4>3. lh = <<>>
        BY <2>2, <3>1, <4>2, Zenon DEF LogInv, Running
      <4>4. Cardinality(Slots') <= MAXOPBLOCKS /\ Cardinality(Slots') \in Nat
        BY <3>3, SlotsFiniteNext
      <4>5. QED
        BY <3>1, <4>3, <4>4 DEF Room, CallsFit
    <3>4. \A q \in Procs : pc'[q] # "op" => pc[q] # "op"
      BY <3>1 DEF LogInv, TypeOK
    <3>5. QED
      BY <1>0, <3>1, <3>2, <3>3, <3>4, Zenon DEF Reserved
  <2>3. QED
    BY <2>1, <2>2
<1>2. ASSUME NEW p \in Procs, kill(p) PROVE Reserved'
  <2>1. UNCHANGED <<lh, used, panicked>>
    BY <1>2, Zenon DEF kill, logvars
  <2>2. QED
    BY <1>0, <1>2, <2>1, ReservedSame DEF kill, LogInv, TypeOK
<1>3. ASSUME NEW p \in Procs, NEW b \in Blocks, NEW v \in Vals, log_write(p, b, v)
      PROVE Reserved'
  <2>0. /\ p \in InOp /\ InOp' = InOp /\ boot = "done" /\ committing' = committing
        /\ used' = [used EXCEPT ![p] = @ \cup {b}]
        /\ Cardinality(used'[p]) <= load.writes
        /\ pc' = pc /\ outstanding' = outstanding
    BY <1>3, Zenon DEF log_write, InOp, Up
  <2> DEFINE c == Cardinality(used[p])
  <2>1. /\ used \in [Procs -> SUBSET Blocks] /\ lh \in Seq(Blocks) /\ Len(lh) \in Nat
        /\ used[p] \subseteq blocks(lh) /\ IsFiniteSet(used[p]) /\ c \in Nat
        /\ c < MAXOPBLOCKS
    BY <2>0, FS_CardinalityType DEF LogInv, TypeOK, Reserved
  <2>2. /\ used'[p] = used[p] \cup {b} /\ IsFiniteSet(used'[p])
        /\ Cardinality(used'[p]) = IF b \in used[p] THEN c ELSE c + 1
    BY <2>0, <2>1, FS_AddElement
  <2>3. \A q \in Procs : q # p => used'[q] = used[q]
    BY <2>0, <2>1
  <2>4. Cardinality(used'[p]) \in Nat /\ Cardinality(used'[p]) < MAXOPBLOCKS
    BY <2>0, <2>1, <2>2 DEF CallsFit, Reserved
  <2>5. <<p, MAXOPBLOCKS>> \in Slots'
    BY <2>0, <2>1, <2>4 DEF Slots
  <2>6. <<p, MAXOPBLOCKS>> \in Slots
    BY <2>0, <2>1 DEF Slots
  <2>7. /\ b \in used[p] => Slots' = Slots
        /\ b \notin used[p] => Slots' = Slots \ {<<p, c + 1>>} /\ <<p, c + 1>> \in Slots
    <3>1. CASE b \in used[p]
      <4>1. \A q \in Procs : used'[q] = used[q]
        BY <2>2, <2>3, <3>1, Zenon
      <4>2. QED
        BY <2>0, <3>1, <4>1 DEF Slots, InOp
    <3>2. CASE b \notin used[p]
      <4>1. Cardinality(used'[p]) = c + 1
        BY <2>2, <3>2
      <4>2. <<p, c + 1>> \in Slots
        BY <2>0, <2>1, <4>1, <2>4 DEF Slots
      <4>3. ASSUME NEW q \in InOp, NEW k \in 1 .. MAXOPBLOCKS
            PROVE k > Cardinality(used'[q]) <=> k > Cardinality(used[q]) /\ <<q, k>> # <<p, c + 1>>
        BY <2>1, <2>3, <4>1, <4>3 DEF InOp
      <4>4. ASSUME NEW s
            PROVE s \in Slots' <=> s \in Slots \ {<<p, c + 1>>}
        <5>1. CASE s \in InOp \X (1 .. MAXOPBLOCKS)
          <6>1. PICK q \in InOp, k \in 1 .. MAXOPBLOCKS : s = <<q, k>>
            BY <5>1
          <6>2. s[1] = q /\ s[2] = k
            BY <6>1
          <6>3. QED
            BY <2>0, <4>3, <5>1, <6>1, <6>2, Zenon DEF Slots
        <5>2. CASE s \notin InOp \X (1 .. MAXOPBLOCKS)
          BY <2>0, <5>2, Zenon DEF Slots
        <5>3. QED
          BY <5>1, <5>2
      <4>5. QED
        BY <3>2, <4>2, <4>4, Zenon
    <3>3. QED
      BY <3>1, <3>2
  <2>8. Cardinality(Slots') = (IF b \in used[p] THEN Cardinality(Slots) ELSE Cardinality(Slots) - 1)
        /\ Cardinality(Slots') \in Nat /\ Cardinality(Slots') # 0
    <3>1. Cardinality(Slots') \in Nat /\ Cardinality(Slots') # 0
      BY <2>5, SlotsFiniteNext, FS_EmptySet
    <3>2. b \notin used[p] => Cardinality(Slots') = Cardinality(Slots) - 1
      BY <2>7, SlotsFinite, FS_RemoveElement
    <3>3. QED
      BY <2>7, <3>1, <3>2, Zenon
  <2>9. Cardinality(Slots) \in Nat /\ Room <= LOGSIZE
    BY SlotsFinite DEF Reserved
  <2>10. Len(lh) + 2 <= LOGSIZE
    <3>1. CASE b \notin used[p]
      BY <2>1, <2>8, <2>9, <3>1 DEF Room
    <3>2. CASE Cardinality(InOp) = 1
      BY <2>1, <2>8, <2>9, <3>2 DEF Room, Reserved
    <3>3. CASE Cardinality(InOp) # 1
      <4>1. PICK q \in InOp : q # p
        <5>1. InOp # {p}
          BY <3>3, FS_Singleton, Zenon
        <5>2. QED
          BY <2>0, <5>1
      <4>2. <<q, MAXOPBLOCKS>> \in Slots
        <5>1. q \in Procs /\ IsFiniteSet(used[q]) /\ Cardinality(used[q]) < MAXOPBLOCKS
          BY <4>1 DEF Reserved, InOp
        <5>2. Cardinality(used[q]) \in Nat
          BY <5>1, FS_CardinalityType
        <5>3. QED
          BY <2>1, <5>1, <5>2, <4>1 DEF Slots
      <4>3. Cardinality(Slots) # 1
        BY <2>6, <4>1, <4>2, SlotsFinite, FS_Singleton
      <4>4. Cardinality(Slots) # 0
        BY <2>6, SlotsFinite, FS_EmptySet
      <4>5. QED
        BY <2>1, <2>9, <4>3, <4>4 DEF Room
    <3>4. QED
      BY <3>2, <3>3
  <2>11. outstanding >= 1
    BY <2>0, InOpFinite DEF LogInv, Actors
  <2>12. ~(Len(lh) >= LOGSIZE \/ Len(lh) >= NLOG - 1 \/ outstanding < 1)
    BY <2>1, <2>10, <2>11 DEF CallsFit, LogInv, TypeOK
  <2>13. lh' = (IF b \in blocks(lh) THEN lh ELSE Append(lh, b)) /\ panicked' = panicked
    BY <1>3, <2>12, Zenon DEF log_write
  <2>14. /\ Len(lh') <= Len(lh) + 1 /\ Len(lh') \in Nat
         /\ b \in used[p] => lh' = lh
         /\ blocks(lh) \subseteq blocks(lh') /\ b \in blocks(lh')
    <3>1. CASE b \in blocks(lh)
      BY <2>1, <2>13, <3>1
    <3>2. CASE b \notin blocks(lh)
      <4>1. lh' = Append(lh, b) /\ b \notin used[p]
        BY <2>1, <2>13, <3>2
      <4>2. \A i \in DOMAIN lh : i \in DOMAIN lh' /\ lh'[i] = lh[i]
        BY <2>1, <4>1
      <4>3. Len(lh) + 1 \in DOMAIN lh' /\ lh'[Len(lh) + 1] = b
        BY <2>1, <4>1
      <4>4. QED
        BY <2>1, <4>1, <4>2, <4>3 DEF blocks
    <3>3. QED
      BY <3>1, <3>2
  <2>15. Room' <= Room /\ Room \in Nat /\ Room' \in Nat
    BY <2>1, <2>8, <2>9, <2>14 DEF Room
  <2>16. \A q \in Procs : /\ IsFiniteSet(used'[q]) /\ Cardinality(used'[q]) < MAXOPBLOCKS
                          /\ used'[q] \subseteq blocks(lh')
                          /\ pc'[q] # "op" => used'[q] = {}
    <3>1. ASSUME NEW q \in Procs, q # p
          PROVE /\ IsFiniteSet(used'[q]) /\ Cardinality(used'[q]) < MAXOPBLOCKS
                /\ used'[q] \subseteq blocks(lh')
                /\ pc'[q] # "op" => used'[q] = {}
      BY <2>0, <2>3, <2>14, <3>1, Zenon DEF Reserved
    <3>2. /\ IsFiniteSet(used'[p]) /\ Cardinality(used'[p]) < MAXOPBLOCKS
          /\ used'[p] \subseteq blocks(lh') /\ pc'[p] = "op"
      BY <2>0, <2>1, <2>2, <2>4, <2>14 DEF InOp
    <3>3. QED
      BY <3>1, <3>2, Zenon
  <2>17. /\ Room' <= LOGSIZE
         /\ Cardinality(InOp') = 1 => Room' < LOGSIZE
    BY <2>0, <2>15 DEF Reserved
  <2>18. QED
    BY <1>0, <2>13, <2>16, <2>17, Zenon DEF Reserved
<1>4. ASSUME NEW p \in Procs, end_op(p) PROVE Reserved'
  <2>1. /\ p \in InOp /\ boot = "done" /\ lh' = lh
        /\ used' = [used EXCEPT ![p] = {}] /\ panicked' = committing
    BY <1>4 DEF end_op, InOp, Up
  <2>2. ~committing /\ ~panicked'
    BY <2>1, Zenon DEF LogInv, Actors
  <2>3. InOp' = InOp \ {p} /\ \A q \in Procs : pc'[q] # "op" => pc[q] # "op" \/ q = p
    BY <1>4, Zenon DEF end_op, InOp, LogInv, TypeOK, wakeup
  <2>4. used \in [Procs -> SUBSET Blocks] /\ Len(lh) \in Nat
    BY DEF LogInv, TypeOK
  <2>5. Slots' \subseteq Slots
    <3>1. \A q \in InOp' : used'[q] = used[q] /\ q \in InOp
      BY <2>1, <2>3, <2>4 DEF InOp
    <3>2. QED
      BY <3>1, Zenon DEF Slots
  <2>6. <<p, MAXOPBLOCKS>> \in Slots /\ <<p, MAXOPBLOCKS>> \notin Slots'
    <3>1. p \in Procs /\ IsFiniteSet(used[p]) /\ Cardinality(used[p]) < MAXOPBLOCKS
      BY DEF Reserved
    <3>2. Cardinality(used[p]) \in Nat
      BY <3>1, FS_CardinalityType
    <3>3. QED
      BY <2>1, <2>3, <3>1, <3>2 DEF Slots
  <2>7. /\ Cardinality(Slots') \in Nat /\ Cardinality(Slots) \in Nat
        /\ Cardinality(Slots') < Cardinality(Slots)
    <3>1. Cardinality(Slots') <= Cardinality(Slots) /\ Cardinality(Slots') # Cardinality(Slots)
      BY <2>5, <2>6, SlotsFinite, FS_Subset
    <3>2. QED
      BY <3>1, SlotsFinite, SlotsFiniteNext
  <2>8. Room' < LOGSIZE
    BY <2>1, <2>4, <2>7 DEF Room, Reserved
  <2>9. Room' \in Nat
    BY <2>1, <2>4, <2>7 DEF Room
  <2>10. IsFiniteSet({}) /\ Cardinality({}) < MAXOPBLOCKS
    <3>1. Cardinality(used[p]) \in Nat /\ Cardinality(used[p]) < MAXOPBLOCKS
      BY FS_CardinalityType DEF Reserved
    <3>2. QED
      BY <3>1, FS_EmptySet
  <2>11. used'[p] = {} /\ \A q \in Procs : q # p => used'[q] = used[q]
    BY <2>1, <2>4
  <2>12. \A q \in Procs : /\ IsFiniteSet(used'[q]) /\ Cardinality(used'[q]) < MAXOPBLOCKS
                          /\ used'[q] \subseteq blocks(lh')
                          /\ pc'[q] # "op" => used'[q] = {}
    BY <2>1, <2>3, <2>10, <2>11, Zenon DEF Reserved
  <2>13. Room' <= LOGSIZE
    BY <2>8, <2>9
  <2>14. QED
    BY <1>0, <2>2, <2>8, <2>12, <2>13, Zenon DEF Reserved
<1>5. ASSUME NEW p \in Procs, write_log(p) \/ write_head(p) \/ install_trans(p)
      PROVE Reserved'
  <2>1. UNCHANGED <<lh, used, panicked>>
    BY <1>5, Zenon DEF write_log, write_head, install_trans, logvars
  <2>2. \A q \in Procs : pc'[q] = "op" <=> pc[q] = "op"
    BY <1>5 DEF write_log, write_head, install_trans, LogInv, TypeOK
  <2>3. QED
    BY <1>0, <2>1, <2>2, ReservedSame
<1>6. ASSUME NEW p \in Procs, clear(p) \/ committed(p) PROVE Reserved'
  <2>1. pc[p] \in Committing /\ UNCHANGED <<used, panicked, outstanding>>
    BY <1>6, Zenon DEF clear, committed, Committing
  <2>2. InOp = {}
    BY <2>1, Zenon DEF LogInv, Actors
  <2>3. InOp' = {}
    BY <1>6, <2>2, Zenon DEF clear, committed, wakeup, InOp, LogInv, TypeOK
  <2>4. \A q \in Procs : pc'[q] # "op" /\ used'[q] = {}
    BY <2>1, <2>2, <2>3, Zenon DEF InOp, Reserved
  <2>5. ~panicked' /\ load \in Loads
    BY <2>1, Zenon DEF Reserved
  <2>6. QED
    BY <1>0, <2>4, <2>5, ReservedNone, Zenon DEF LogInv
<1>7. CASE crash
  <2>1. \A q \in Procs : pc'[q] # "op" /\ used'[q] = {}
    BY <1>7 DEF crash
  <2>2. ~panicked' /\ load \in Loads
    BY <1>7, Zenon DEF Reserved, crash
  <2>3. QED
    BY <1>0, <2>1, <2>2, ReservedNone DEF LogInv
<1>8. CASE Recover
  <2>1. boot # "done" /\ UNCHANGED <<pc, used, panicked>>
    BY <1>8, Zenon DEF Recover, read_head, recover_install, recover_clear
  <2>2. \A q \in Procs : pc[q] = "idle"
    BY <2>1, Zenon DEF LogInv, Actors
  <2>3. \A q \in Procs : pc'[q] # "op" /\ used'[q] = {}
    BY <2>1, <2>2 DEF Reserved
  <2>4. ~panicked' /\ load \in Loads
    BY <2>1, Zenon DEF Reserved
  <2>5. QED
    BY <1>0, <2>3, <2>4, ReservedNone DEF LogInv
<1>9. CASE UNCHANGED vars
  BY <1>9, ReservedSame, Zenon DEF vars, logvars
<1>10. QED
  BY <1>1, <1>2, <1>3, <1>4, <1>5, <1>6, <1>7, <1>8, <1>9 DEF Next, Proceed, Stopped

\* No panic() of log.c is called when every call logs fewer blocks than it
\* reserved: log_write() never finds the log full, also when it only absorbs,
\* and end_op() never finds a commit going on.
THEOREM NoPanicHolds == CallsFit => (Spec => []NoLogPanic)
<1>1. CallsFit /\ Init => Reserved
  <2> SUFFICES ASSUME CallsFit, Init PROVE Reserved
    OBVIOUS
  <2>1. InOp = {} /\ lh = <<>> /\ load \in Loads /\ \A p \in Procs : used[p] = {}
    BY DEF Init, InOp
  <2>2. ~panicked
    BY Zenon DEF Init
  <2>3. IsFiniteSet({}) /\ Cardinality({}) = 0
    BY FS_EmptySet
  <2>4. Room = 0
    BY <2>1, SlotsFinite DEF Room
  <2>5. 0 < LOGSIZE /\ 0 < MAXOPBLOCKS
    <3>1. load.writes \in Nat /\ load.writes < MAXOPBLOCKS
      BY <2>1, LogConstantsOK DEF CallsFit, LogConstantsOK
    <3>2. QED
      BY <3>1, LogConstantsOK DEF CallsFit, LogConstantsOK
  <2>6. Room < LOGSIZE /\ Room <= LOGSIZE
    BY <2>4, <2>5, LogConstantsOK DEF LogConstantsOK
  <2>7. \A p \in Procs : IsFiniteSet(used[p]) /\ Cardinality(used[p]) < MAXOPBLOCKS
                         /\ used[p] = {}
    BY <2>1, <2>3, <2>5, Zenon
  <2>8. QED
    BY <2>1, <2>2, <2>6, <2>7, Zenon DEF Reserved
<1>2. CallsFit /\ (LogInv /\ Reserved) /\ [Next]_vars => (LogInv /\ Reserved)'
  BY StepInv, StepReserved
<1>3. Reserved => NoLogPanic
  BY Zenon DEF Reserved, NoLogPanic
<1>4. ASSUME CallsFit PROVE Spec => []NoLogPanic
  <2>1. Init => LogInv /\ Reserved
    BY <1>1, <1>4, InitInv
  <2>2. (LogInv /\ Reserved) /\ [Next]_vars => (LogInv /\ Reserved)'
    BY <1>2, <1>4
  <2>3. QED
    BY <1>3, <2>1, <2>2, PTL DEF Spec
<1>5. QED
  BY <1>4
-----------------------------------------------------------------------------
\* What recovery makes of the blocks in the header and of the others.
LEMMA RecoveredIs ==
  ASSUME Distinct(head), head \in Seq(Blocks)
  PROVE  /\ \A n \in 1 .. Len(head) : Recovered[head[n]] = logblk[n]
         /\ \A b \in Blocks : b \notin blocks(head) => Recovered[b] = disk[b]
         /\ Recovered = [b \in Blocks |-> Recovered[b]]
<1>1. ASSUME NEW n \in 1 .. Len(head) PROVE Recovered[head[n]] = logblk[n]
  <2>1. n \in DOMAIN head /\ head[n] \in Blocks /\ head[n] \in blocks(head)
    BY DEF blocks
  <2>2. (CHOOSE m \in DOMAIN head : head[m] = head[n]) = n
    BY <2>1 DEF Distinct
  <2>3. QED
    BY <2>1, <2>2, Zenon DEF Recovered
<1>2. QED
  BY <1>1, SMTT(60) DEF Recovered

\* With an empty header a reboot finds the home blocks.
LEMMA RecoveredQuiet == ASSUME LogInv, head = <<>> PROVE Recovered = disk
<1>1. blocks(head) = {}
  BY DEF blocks
<1>2. QED
  BY <1>1 DEF Recovered, LogInv, TypeOK

\* The same for the state after a step.
LEMMA RecoveredQuietNext ==
  ASSUME LogInv, head' = <<>>, disk' = disk PROVE Recovered' = disk'
<1>1. blocks(head') = {}
  BY DEF blocks
<1>2. QED
  BY <1>1 DEF Recovered, LogInv, TypeOK

\* While the header lists a transaction whose first blocks are installed,
\* installing one more changes nothing for a reboot.
LEMMA RecoveredInstall ==
  ASSUME LogInv, lh = head, tail + 1 \in 1 .. Len(lh), UNCHANGED <<head, logblk>>,
         disk' = [disk EXCEPT ![lh[tail + 1]] = logblk[tail + 1]]
  PROVE  Recovered' = Recovered
<1>1. lh[tail + 1] \in blocks(head)
  BY DEF blocks, LogInv, TypeOK
<1>2. \A b \in Blocks : b \notin blocks(head) => disk'[b] = disk[b]
  BY <1>1 DEF LogInv, TypeOK
<1>3. blocks(head') = blocks(head)
  BY DEF blocks
<1>4. QED
  BY <1>2, <1>3 DEF Recovered

\* Once all of it is installed, erasing the header changes nothing.
LEMMA RecoveredClear ==
  ASSUME LogInv, lh = head, Installed(Len(lh)) PROVE Recovered = disk
<1>1. \A n \in 1 .. Len(head) : Recovered[head[n]] = disk[head[n]]
  BY RecoveredIs DEF LogInv, TypeOK, Installed
<1>2. blocks(head) = {head[n] : n \in 1 .. Len(head)}
  <2>1. DOMAIN head = 1 .. Len(head)
    BY DEF LogInv, TypeOK
  <2>2. QED
    BY <2>1, Zenon DEF blocks
<1>3. \A b \in Blocks : Recovered[b] = disk[b]
  BY <1>1, <1>2, RecoveredIs DEF LogInv, TypeOK
<1>4. QED
  BY <1>3, RecoveredIs DEF LogInv, TypeOK

\* The write of the header makes all of the cache durable at once.
LEMMA RecoveredCommit ==
  ASSUME LogInv, NEW p \in Procs, write_head(p) PROVE Recovered' = cache
<1>1. /\ head' = lh /\ UNCHANGED <<disk, logblk>> /\ boot = "done" /\ ~panicked
      /\ Logged(Len(lh))
  BY DEF write_head, Up, LogInv, Commits
<1>2. Distinct(head)' /\ head' \in Seq(Blocks)
  BY <1>1 DEF LogInv, TypeOK, Distinct
<1>3. \A b \in Blocks : Recovered'[b] = cache[b]
  <2> TAKE b \in Blocks
  <2>1. CASE b \in blocks(lh)
    <3>0. DOMAIN lh = 1 .. Len(lh)
      BY DEF LogInv, TypeOK
    <3>1. PICK n \in 1 .. Len(lh) : lh[n] = b
      BY <2>1, <3>0, Zenon DEF blocks
    <3>2. n \in DOMAIN lh /\ (CHOOSE m \in DOMAIN lh : lh[m] = b) = n
      BY <3>1 DEF LogInv, TypeOK, Distinct
    <3>3. QED
      BY <1>1, <2>1, <3>1, <3>2 DEF Recovered, Logged
  <2>2. CASE b \notin blocks(lh)
    BY <1>1, <2>2 DEF Recovered, LogInv, Running
  <2>3. QED
    BY <2>1, <2>2
<1>4. Recovered' = [b \in Blocks |-> Recovered'[b]]
  BY DEF Recovered
<1>5. QED
  BY <1>3, <1>4 DEF LogInv, TypeOK

\* The initial state of log.c maps to the initial state of AtomicDisk.
LEMMA InitAtomic == Init => AD!Init
<1> SUFFICES ASSUME Init PROVE AD!Init
  OBVIOUS
<1>1. Recovered = disk
  BY InitInv, RecoveredQuiet DEF Init
<1>2. QED
  BY <1>1 DEF Init, AD!Init

\* A step after which all three abstract variables are the same.
LEMMA Stutter ==
  ASSUME Recovered' = Recovered, cache' = cache, boot' = boot, InOp' = InOp
  PROVE  UNCHANGED AD!advars
BY ZenonT(60) DEF AD!advars, InOp

\* Every step of log.c is a step of AtomicDisk or changes nothing it shows.
LEMMA StepAtomic == LogInv /\ [Next]_vars => [AD!Next]_(AD!advars)
<1> SUFFICES ASSUME LogInv, [Next]_vars PROVE [AD!Next]_(AD!advars)
  OBVIOUS
<1>0. ASSUME UNCHANGED diskvars PROVE Recovered' = Recovered
  BY <1>0 DEF diskvars, Recovered, blocks
<1>1. ASSUME NEW p \in Procs, begin_op(p) PROVE [AD!Next]_(AD!advars)
  <2>1. UNCHANGED <<cache, boot>> /\ Recovered' = Recovered
    BY <1>0, <1>1 DEF begin_op
  <2>2. CASE pc' = [pc EXCEPT ![p] = "sleep"]
    <3>1. InOp' = InOp
      BY <1>1, <2>2 DEF begin_op, InOp, LogInv, TypeOK
    <3>2. QED
      BY <2>1, <3>1, Stutter
  <2>3. CASE pc' = [pc EXCEPT ![p] = "op"]
    <3>1. InOp' = InOp \cup {p}
      BY <2>3 DEF InOp, LogInv, TypeOK
    <3>2. AD!Begin(p)
      BY <2>1, <3>1, Zenon DEF AD!Begin, InOp
    <3>3. QED
      BY <3>2 DEF AD!Next
  <2>4. QED
    BY <1>1, <2>2, <2>3 DEF begin_op
<1>2. ASSUME NEW p \in Procs, kill(p) PROVE UNCHANGED AD!advars
  <2>1. InOp' = InOp
    BY <1>2 DEF kill, InOp, LogInv, TypeOK
  <2>2. QED
    BY <1>0, <1>2, <2>1, Stutter DEF kill
<1>3. ASSUME NEW p \in Procs, NEW b \in Blocks, NEW v \in Vals, log_write(p, b, v)
      PROVE AD!Next
  <2>1. /\ Recovered' = Recovered /\ boot = "done" /\ boot' = boot /\ p \in InOp
        /\ InOp' = InOp /\ cache' = [cache EXCEPT ![b] = v]
    BY <1>0, <1>3 DEF log_write, Up, InOp
  <2>2. AD!Write(p, b, v)
    BY <2>1, Zenon DEF AD!Write, InOp
  <2>3. QED
    BY <2>2 DEF AD!Next
<1>4. ASSUME NEW p \in Procs, end_op(p) PROVE AD!Next
  <2>1. UNCHANGED <<cache, boot>> /\ Recovered' = Recovered
    BY <1>0, <1>4 DEF end_op
  <2>2. InOp' = InOp \ {p}
    BY <1>4, Zenon DEF end_op, InOp, wakeup, LogInv, TypeOK
  <2>3. AD!End(p)
    BY <2>1, <2>2, Zenon DEF AD!End, InOp
  <2>4. QED
    BY <2>3 DEF AD!Next
<1>5. ASSUME NEW p \in Procs, write_log(p) PROVE UNCHANGED AD!advars
  <2>1. head = <<>> /\ head' = <<>> /\ disk' = disk /\ cache' = cache /\ boot' = boot
    <3>1. \A q \in Procs : pc[q] \notin {"install", "clear"}
      BY <1>5, Zenon DEF write_log, LogInv, Actors, Committing
    <3>2. QED
      BY <1>5, <3>1 DEF write_log, LogInv, Running, Up
  <2>2. Recovered' = Recovered
    BY <2>1 DEF Recovered, blocks
  <2>3. InOp' = InOp
    BY <1>5 DEF write_log, InOp, LogInv, TypeOK
  <2>4. QED
    BY <2>1, <2>2, <2>3, Stutter
<1>6. ASSUME NEW p \in Procs, write_head(p) PROVE AD!Next
  <2>1. cache' = cache /\ boot = "done" /\ boot' = boot /\ Recovered' = cache
    BY <1>6, RecoveredCommit, Zenon DEF write_head, Up
  <2>2. InOp = {} /\ InOp' = InOp
    BY <1>6 DEF write_head, InOp, LogInv, TypeOK, Actors, Committing
  <2>3. AD!Commit
    BY <2>1, <2>2, Zenon DEF AD!Commit, InOp
  <2>4. QED
    BY <2>3 DEF AD!Next
<1>7. ASSUME NEW p \in Procs, install_trans(p) PROVE UNCHANGED AD!advars
  <2>1. lh = head /\ tail + 1 \in 1 .. Len(lh) /\ Logged(Len(lh))
    BY <1>7 DEF install_trans, LogInv, Commits, TypeOK
  <2>2. cache' = cache /\ boot' = boot
    BY <1>7, <2>1 DEF install_trans, Logged, LogInv, TypeOK
  <2>3. Recovered' = Recovered
    BY <1>7, <2>1, RecoveredInstall DEF install_trans
  <2>4. InOp' = InOp
    BY <1>7 DEF install_trans, InOp, LogInv, TypeOK
  <2>5. QED
    BY <2>2, <2>3, <2>4, Stutter
<1>8. ASSUME NEW p \in Procs, clear(p) PROVE UNCHANGED AD!advars
  <2>1. Recovered = disk /\ UNCHANGED <<cache, boot, disk>>
    BY <1>8, RecoveredClear DEF clear, LogInv, Commits
  <2>2. Recovered' = disk'
    BY <1>8, RecoveredQuietNext DEF clear
  <2>3. InOp' = InOp
    BY <1>8 DEF clear, InOp, LogInv, TypeOK
  <2>4. QED
    BY <2>1, <2>2, <2>3, Stutter
<1>9. ASSUME NEW p \in Procs, committed(p) PROVE UNCHANGED AD!advars
  <2>1. InOp' = InOp
    BY <1>9 DEF committed, wakeup, InOp, LogInv, TypeOK
  <2>2. QED
    BY <1>0, <1>9, <2>1, Stutter DEF committed
<1>10. CASE crash
  <2>1. Recovered' = Recovered /\ boot' # "done" /\ InOp' = {}
    BY <1>0, <1>10 DEF crash, InOp
  <2>2. AD!Crash
    BY <2>1, Zenon DEF AD!Crash, InOp
  <2>3. QED
    BY <2>2 DEF AD!Next
<1>11. CASE read_head \/ recover_install
  <2>1. Recovered' = Recovered
    <3>1. CASE read_head
      BY <1>0, <3>1 DEF read_head
    <3>2. CASE recover_install
      <4>1. /\ lh = head /\ tail < Len(lh) /\ tail + 1 \in 1 .. Len(lh)
            /\ disk' = [disk EXCEPT ![lh[tail + 1]] = logblk[tail + 1]]
            /\ logblk' = logblk /\ head' = head
        BY <3>2 DEF recover_install, LogInv, Recovering, TypeOK
      <4>2. QED
        BY <4>1, RecoveredInstall
    <3>3. QED
      BY <1>11, <3>1, <3>2
  <2>2. boot # "done" /\ boot' # "done" /\ pc' = pc
    BY <1>11 DEF read_head, recover_install
  <2>3. QED
    BY <2>1, <2>2, Zenon DEF AD!advars
<1>12. CASE recover_clear
  <2>1. Recovered = disk /\ cache = disk /\ UNCHANGED <<cache, disk, pc>>
    BY <1>12, RecoveredClear DEF recover_clear, LogInv, Recovering
  <2>2. Recovered' = disk'
    BY <1>12, RecoveredQuietNext DEF recover_clear
  <2>3. boot # "done" /\ boot' = "done"
    BY <1>12 DEF recover_clear
  <2>4. QED
    BY <2>1, <2>2, <2>3, Zenon DEF AD!advars
<1>13. CASE UNCHANGED vars
  BY <1>0, <1>13, Stutter DEF vars, diskvars, InOp
<1>14. QED
  BY <1>1, <1>2, <1>3, <1>4, <1>5, <1>6, <1>7, <1>8, <1>9, <1>10, <1>11, <1>12, <1>13
  DEF Next, Proceed, Recover, Stopped

\* The log implements AtomicDisk: what survives a crash changes only by a
\* whole commit, at which no file-system call is half done.
THEOREM LogImplementsAtomicDisk == Spec => LogIsAtomic
<1>1. QED
  BY InitAtomic, StepAtomic, LogInvariant, PTL DEF Spec, LogIsAtomic, AD!Spec
=============================================================================
