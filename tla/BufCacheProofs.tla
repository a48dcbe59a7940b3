--------------------------- MODULE BufCacheProofs ---------------------------
(***************************************************************************)
(* BufCache.tla, for every number of processes, buffers and blocks: exact  *)
(* reference counts, one user for each buffer, no lost update, and that    *)
(* bget() finds a buffer as long as there are enough of them.              *)
(***************************************************************************)
EXTENDS BufCache, FiniteSetTheorems, FunctionTheorems, TLAPS

Has == {"acquiresleep", "sleep", "woken", "fill", "use", "brelse"}
Holds == {"fill", "use"}
users(b) == {p \in Procs : buf[p] = b}
pins(b) == IF blockno[b] \in pinned THEN 1 ELSE 0

\* Which process has, and which one has locked, which buffer.
Owners ==
  /\ \A p \in Procs : buf[p] # NULL <=> pc[p] \in Has
  /\ \A p \in Procs : pc[p] # "idle" => want[p] \in Blocks
  /\ \A p \in Procs, b \in Bufs : locked[b] = p <=> buf[p] = b /\ pc[p] \in Holds

\* The blocks in the log are cached, and a cached block that is not in the log
\* is the one on the disk.
Contents ==
  /\ IsFiniteSet(pinned) /\ Cardinality(pinned) <= MaxPins
  /\ \A blk \in pinned : \E b \in Bufs : blockno[b] = blk /\ valid[b]
  /\ \A p \in Procs : pc[p] = "use" => valid[buf[p]]
  /\ \A b \in Bufs : valid[b] => blockno[b] \in Blocks
  /\ \A b \in Bufs : valid[b] /\ blockno[b] \notin pinned => data[b] = disk[blockno[b]]

BufInv ==
  /\ TypeOK
  /\ Owners /\ RefcntExact /\ OneBufferOneUser /\ Contents
  /\ NoBuffersPanic /\ BufferWaiterWakes
-----------------------------------------------------------------------------
\* The users of a buffer are finitely many.
LEMMA UsersFinite ==
  ASSUME NEW b PROVE IsFiniteSet(users(b)) /\ Cardinality(users(b)) \in Nat
<1>1. IsFiniteSet(users(b))
  BY FS_Subset, BufConstantsOK DEF users, BufConstantsOK
<1>2. QED
  BY <1>1, FS_CardinalityType

\* b->refcnt, spelled out: its users, and one more for a pin of the log.
LEMMA RefcntIs ==
  ASSUME RefcntExact, NEW b \in Bufs
  PROVE  refcnt[b] = Cardinality(users(b)) + pins(b) /\ pins(b) \in {0, 1}
BY DEF RefcntExact, users, pins

\* A move to the front of the list loses no buffer.
LEMMA MostRecentListing ==
  ASSUME order \in listings, NEW b \in Bufs PROVE mostrecent(b) \in listings
<1> DEFINE N == Cardinality(Bufs)
<1>0. N \in Nat
  BY FS_CardinalityType, BufConstantsOK DEF BufConstantsOK
<1> HIDE DEF N
<1>1. order \in [1 .. N -> Bufs] /\ \A c \in Bufs : \E n \in 1 .. N : order[n] = c
  BY DEF listings, N
<1>2. mostrecent(b) = [n \in 1 .. N |->
         IF n = 1 THEN b
         ELSE IF \E m \in 1 .. N : m >= n /\ order[m] = b THEN order[n - 1]
         ELSE order[n]]
  BY <1>1 DEF mostrecent
<1>3. mostrecent(b) \in [1 .. N -> Bufs]
  BY <1>0, <1>1, <1>2
<1>4. ASSUME NEW c \in Bufs PROVE \E n \in 1 .. N : mostrecent(b)[n] = c
  <2>1. PICK m \in 1 .. N : order[m] = c
    BY <1>1
  <2>2. CASE c = b
    <3>1. 1 \in 1 .. N
      BY <1>0, <2>1
    <3>2. mostrecent(b)[1] = b
      BY <1>2, <3>1
    <3>3. QED
      BY <2>2, <3>1, <3>2
  <2>3. CASE c # b /\ \E k \in 1 .. N : k >= m + 1 /\ order[k] = b
    <3>1. m + 1 \in 1 .. N /\ m + 1 # 1 /\ (m + 1) - 1 = m
      BY <1>0, <2>3
    <3>2. mostrecent(b)[m + 1] = order[m]
      BY <1>2, <2>3, <3>1
    <3>3. QED
      BY <2>1, <3>1, <3>2
  <2>4. CASE c # b /\ ~\E k \in 1 .. N : k >= m + 1 /\ order[k] = b
    <3>1. ~\E k \in 1 .. N : k >= m /\ order[k] = b
      BY <2>1, <2>4
    <3>2. m # 1
      BY <1>1, <3>1
    <3>3. mostrecent(b)[m] = order[m]
      BY <1>2, <3>1, <3>2
    <3>4. QED
      BY <2>1, <3>3
  <2>5. QED
    BY <2>2, <2>3, <2>4
<1>5. DOMAIN mostrecent(b) = 1 .. N
  BY <1>2
<1>6. QED
  BY <1>3, <1>4, <1>5 DEF listings, N

\* binit() establishes the invariant.
LEMMA InitInv == Init => BufInv
<1> SUFFICES ASSUME Init PROVE BufInv
  OBVIOUS
<1> USE BufConstantsOK DEF BufConstantsOK
<1>1. TypeOK
  <2>1. panicked \in BOOLEAN /\ valid \in [Bufs -> BOOLEAN]
    BY Zenon DEF Init
  <2>2. QED
    BY <2>1 DEF Init, TypeOK
<1>2. Owners
  BY DEF Init, Owners, Has, Holds
<1>3. RefcntExact
  <2>1. \A b \in Bufs : {p \in Procs : buf[p] = b} = {}
    BY DEF Init
  <2>2. QED
    BY <2>1, FS_EmptySet DEF Init, RefcntExact
<1>4. OneBufferOneUser
  BY DEF Init, OneBufferOneUser
<1>5. Contents
  BY FS_EmptySet DEF Init, Contents
<1>6. NoBuffersPanic
  BY Zenon DEF Init, NoBuffersPanic
<1>7. BufferWaiterWakes
  BY DEF Init, BufferWaiterWakes
<1>8. QED
  BY <1>1, <1>2, <1>3, <1>4, <1>5, <1>6, <1>7 DEF BufInv

\* The types, step by step.
LEMMA StepTypes == BufInv /\ [Next]_vars => TypeOK'
<1> SUFFICES ASSUME BufInv, [Next]_vars PROVE TypeOK'
  OBVIOUS
<1> USE BufConstantsOK DEF BufConstantsOK, BufInv
<1>1. ASSUME NEW p \in Procs, NEW blk \in Blocks, bread(p, blk) PROVE TypeOK'
  BY <1>1 DEF bread, goto, bufs, TypeOK
<1>2. ASSUME NEW p \in Procs, bget_hit(p) PROVE TypeOK'
  BY <1>2 DEF bget_hit, cached, goto, TypeOK
<1>3. ASSUME NEW p \in Procs, bget_recycle(p) PROVE TypeOK'
  <2>1. valid' \in [Bufs -> BOOLEAN]
    BY <1>3 DEF bget_recycle, TypeOK
  <2>2. want[p] \in Blocks
    BY <1>3 DEF bget_recycle, Owners
  <2>3. QED
    BY <1>3, <2>1, <2>2 DEF bget_recycle, goto, TypeOK
<1>4. ASSUME NEW p \in Procs, bget_panic(p) PROVE TypeOK'
  BY <1>4 DEF bget_panic, bufs, TypeOK
<1>5. ASSUME NEW p \in Procs, acquiresleep(p) PROVE TypeOK'
  BY <1>5 DEF acquiresleep, goto, bufs, TypeOK
<1>6. ASSUME NEW p \in Procs, kill(p) PROVE TypeOK'
  BY <1>6 DEF kill, goto, bufs, TypeOK
<1>7. ASSUME NEW p \in Procs, fill(p) PROVE TypeOK'
  <2>1. buf[p] \in Bufs /\ blockno[buf[p]] \in Blocks
    BY <1>7 DEF fill, Owners, OneBufferOneUser, TypeOK, Has
  <2>2. QED
    BY <1>7, <2>1 DEF fill, goto, TypeOK
<1>8. ASSUME NEW p \in Procs, NEW v \in Vals, log_write(p, v) PROVE TypeOK'
  <2>1. buf[p] \in Bufs /\ blockno[buf[p]] \in Blocks
    BY <1>8 DEF log_write, Owners, OneBufferOneUser, TypeOK, Has
  <2>2. QED
    BY <1>8, <2>1 DEF log_write, bpin, TypeOK
<1>9. ASSUME NEW p \in Procs, install(p) PROVE TypeOK'
  <2>1. buf[p] \in Bufs /\ blockno[buf[p]] \in pinned
    BY <1>9 DEF install, Owners, TypeOK, Has
  <2>2. refcnt[buf[p]] > 0
    <3>1. pins(buf[p]) = 1
      BY <2>1 DEF pins
    <3>2. QED
      BY <2>1, <3>1, UsersFinite, RefcntIs
  <2>3. QED
    BY <1>9, <2>1, <2>2 DEF install, bunpin, TypeOK
<1>10. ASSUME NEW p \in Procs, releasesleep(p) PROVE TypeOK'
  BY <1>10, Zenon DEF releasesleep, bufs, TypeOK
<1>11. ASSUME NEW p \in Procs, brelse(p) PROVE TypeOK'
  <2>1. buf[p] \in Bufs /\ p \in users(buf[p])
    BY <1>11 DEF brelse, Owners, TypeOK, Has, users
  <2>2. refcnt[buf[p]] > 0
    <3>1. Cardinality(users(buf[p])) # 0
      BY <2>1, UsersFinite, FS_EmptySet
    <3>2. QED
      BY <2>1, <3>1, UsersFinite, RefcntIs
  <2>3. order' \in listings
    BY <1>11, <2>1, MostRecentListing DEF brelse, TypeOK
  <2>4. QED
    BY <1>11, <2>1, <2>2, <2>3 DEF brelse, goto, TypeOK
<1>12. CASE UNCHANGED vars
  BY <1>12, ZenonT(60) DEF vars, bufs, TypeOK
<1>13. QED
  BY <1>1, <1>2, <1>3, <1>4, <1>5, <1>6, <1>7, <1>8, <1>9, <1>10, <1>11, <1>12
  DEF Next, Step, Proceed

\* A buffer's sleeplock has an owner just when that owner is past acquiresleep().
LEMMA StepOwners == BufInv /\ [Next]_vars => Owners'
<1> SUFFICES ASSUME BufInv, [Next]_vars PROVE Owners'
  OBVIOUS
<1> USE BufConstantsOK DEF BufConstantsOK, BufInv, Owners, TypeOK, Has, Holds
<1>1. ASSUME NEW p \in Procs, NEW blk \in Blocks, bread(p, blk) PROVE Owners'
  BY <1>1 DEF bread, goto, bufs
<1>2. ASSUME NEW p \in Procs, bget_hit(p) PROVE Owners'
  BY <1>2 DEF bget_hit, cached, goto
<1>3. ASSUME NEW p \in Procs, bget_recycle(p) PROVE Owners'
  BY <1>3 DEF bget_recycle, goto
<1>4. ASSUME NEW p \in Procs, bget_panic(p) PROVE Owners'
  BY <1>4 DEF bget_panic, bufs
<1>5. ASSUME NEW p \in Procs, acquiresleep(p) PROVE Owners'
  BY <1>5 DEF acquiresleep, goto, bufs
<1>6. ASSUME NEW p \in Procs, kill(p) PROVE Owners'
  BY <1>6 DEF kill, goto, bufs
<1>7. ASSUME NEW p \in Procs, fill(p) PROVE Owners'
  BY <1>7 DEF fill, goto
<1>8. ASSUME NEW p \in Procs, NEW v \in Vals, log_write(p, v) PROVE Owners'
  BY <1>8 DEF log_write
<1>9. ASSUME NEW p \in Procs, install(p) PROVE Owners'
  BY <1>9 DEF install
<1>10. ASSUME NEW p \in Procs, releasesleep(p) PROVE Owners'
  BY <1>10 DEF releasesleep, bufs, OneBufferOneUser
<1>11. ASSUME NEW p \in Procs, brelse(p) PROVE Owners'
  BY <1>11 DEF brelse, goto
<1>12. CASE UNCHANGED vars
  BY <1>12, ZenonT(60) DEF vars, bufs
<1>13. QED
  BY <1>1, <1>2, <1>3, <1>4, <1>5, <1>6, <1>7, <1>8, <1>9, <1>10, <1>11, <1>12
  DEF Next, Step, Proceed

\* bget() never gives a block a second buffer, and no sleeplock has two holders.
LEMMA StepOne == BufInv /\ [Next]_vars => OneBufferOneUser'
<1> SUFFICES ASSUME BufInv, [Next]_vars PROVE OneBufferOneUser'
  OBVIOUS
<1> USE BufConstantsOK DEF BufConstantsOK, BufInv, OneBufferOneUser, TypeOK
<1>1. ASSUME NEW p \in Procs, NEW blk \in Blocks, bread(p, blk) PROVE OneBufferOneUser'
  BY <1>1 DEF bread, goto, bufs, Owners, Has
<1>2. ASSUME NEW p \in Procs, bget_hit(p) PROVE OneBufferOneUser'
  BY <1>2 DEF bget_hit, cached, goto
<1>3. ASSUME NEW p \in Procs, bget_recycle(p) PROVE OneBufferOneUser'
  <2>1. PICK b \in Bufs :
          /\ pc[p] = "bget" /\ cached(want[p]) = {} /\ refcnt[b] = 0
          /\ blockno' = [blockno EXCEPT ![b] = want[p]]
          /\ buf' = [buf EXCEPT ![p] = b]
          /\ pc' = [pc EXCEPT ![p] = "acquiresleep"] /\ want' = want
    BY <1>3, Zenon DEF bget_recycle, goto, lru
  <2>2. \A q \in Procs : buf[q] # b
    <3>1. Cardinality(users(b)) = 0
      BY <2>1, UsersFinite, RefcntIs
    <3>2. users(b) = {}
      BY <3>1, UsersFinite, FS_EmptySet
    <3>3. QED
      BY <3>2 DEF users
  <2>3. \A c \in Bufs : blockno[c] # want[p]
    BY <2>1 DEF cached
  <2>4. QED
    BY <2>1, <2>2, <2>3
<1>4. ASSUME NEW p \in Procs, bget_panic(p) PROVE OneBufferOneUser'
  BY <1>4 DEF bget_panic, bufs
<1>5. ASSUME NEW p \in Procs, acquiresleep(p) PROVE OneBufferOneUser'
  BY <1>5 DEF acquiresleep, goto, bufs, Owners, Has, Holds
<1>6. ASSUME NEW p \in Procs, kill(p) PROVE OneBufferOneUser'
  BY <1>6 DEF kill, goto, bufs
<1>7. ASSUME NEW p \in Procs, fill(p) PROVE OneBufferOneUser'
  BY <1>7 DEF fill, goto
<1>8. ASSUME NEW p \in Procs, NEW v \in Vals, log_write(p, v) PROVE OneBufferOneUser'
  BY <1>8 DEF log_write
<1>9. ASSUME NEW p \in Procs, install(p) PROVE OneBufferOneUser'
  BY <1>9 DEF install
<1>10. ASSUME NEW p \in Procs, releasesleep(p) PROVE OneBufferOneUser'
  BY <1>10 DEF releasesleep, bufs
<1>11. ASSUME NEW p \in Procs, brelse(p) PROVE OneBufferOneUser'
  BY <1>11 DEF brelse, goto
<1>12. CASE UNCHANGED vars
  BY <1>12 DEF vars, bufs
<1>13. QED
  BY <1>1, <1>2, <1>3, <1>4, <1>5, <1>6, <1>7, <1>8, <1>9, <1>10, <1>11, <1>12, ZenonT(60)
  DEF Next, Step, Proceed

\* The counts of bget(), brelse(), bpin() and bunpin() match what they count.
LEMMA StepRefcnt == BufInv /\ [Next]_vars => RefcntExact'
<1> SUFFICES ASSUME BufInv, [Next]_vars,
                    NEW b \in Bufs
             PROVE  refcnt'[b] = Cardinality(users(b)') + pins(b)'
  BY DEF RefcntExact, users, pins
<1> DEFINE Goal == refcnt'[b] = Cardinality(users(b)') + pins(b)'
<1>0. /\ refcnt[b] = Cardinality(users(b)) + pins(b)
      /\ IsFiniteSet(users(b)) /\ Cardinality(users(b)) \in Nat
  BY UsersFinite, RefcntIs DEF BufInv
<1> USE BufConstantsOK DEF BufConstantsOK, BufInv
<1>1. ASSUME UNCHANGED <<refcnt, buf, blockno, pinned>> PROVE Goal
  BY <1>0, <1>1 DEF users, pins
<1>2. ASSUME NEW p \in Procs, bget_hit(p) PROVE Goal
  <2>1. PICK c \in Bufs :
          /\ pc[p] = "bget" /\ refcnt' = [refcnt EXCEPT ![c] = @ + 1]
          /\ buf' = [buf EXCEPT ![p] = c] /\ UNCHANGED <<blockno, pinned>>
    BY <1>2, Zenon DEF bget_hit, cached
  <2>2. buf[p] = NULL /\ pins(b)' = pins(b)
    BY <2>1 DEF Owners, Has, pins
  <2>3. CASE c = b
    <3>1. users(b)' = users(b) \cup {p} /\ p \notin users(b)
      BY <2>1, <2>2, <2>3 DEF users, TypeOK
    <3>2. Cardinality(users(b) \cup {p}) = Cardinality(users(b)) + 1
      BY <1>0, <3>1, FS_AddElement, ZenonT(60)
    <3>3. pins(b) \in {0, 1}
      BY DEF pins
    <3>4. QED
      BY <1>0, <2>1, <2>2, <2>3, <3>1, <3>2, <3>3 DEF TypeOK
  <2>4. CASE c # b
    <3>1. users(b)' = users(b)
      BY <2>1, <2>2, <2>4 DEF users, TypeOK
    <3>2. QED
      BY <1>0, <2>1, <2>2, <2>4, <3>1 DEF TypeOK
  <2>5. QED
    BY <2>3, <2>4
<1>3. ASSUME NEW p \in Procs, bget_recycle(p) PROVE Goal
  <2>1. PICK c \in Bufs :
          /\ pc[p] = "bget" /\ cached(want[p]) = {} /\ refcnt[c] = 0
          /\ refcnt' = [refcnt EXCEPT ![c] = 1] /\ buf' = [buf EXCEPT ![p] = c]
          /\ blockno' = [blockno EXCEPT ![c] = want[p]] /\ pinned' = pinned
    BY <1>3, ZenonT(60) DEF bget_recycle, lru
  <2>2. buf[p] = NULL
    BY <2>1 DEF Owners, Has
  <2>3. CASE c = b
    <3>1. Cardinality(users(b)) = 0
      BY <1>0, <2>1, <2>3 DEF pins
    <3>2. users(b) = {}
      BY <1>0, <3>1, FS_EmptySet
    <3>3. users(b)' = {p}
      BY <2>1, <2>3, <3>2 DEF users, TypeOK
    <3>4. want[p] \notin pinned
      BY <2>1 DEF cached, Contents
    <3>5. pins(b)' = 0
      BY <2>1, <2>3, <3>4 DEF pins, TypeOK
    <3>6. Cardinality({p}) = 1
      BY FS_Singleton, Zenon
    <3>7. QED
      BY <2>1, <2>3, <3>3, <3>5, <3>6 DEF TypeOK
  <2>4. CASE c # b
    <3>1. users(b)' = users(b) /\ pins(b)' = pins(b)
      BY <2>1, <2>2, <2>4 DEF users, pins, TypeOK
    <3>2. QED
      BY <1>0, <2>1, <2>4, <3>1 DEF TypeOK
  <2>5. QED
    BY <2>3, <2>4
<1>4. ASSUME NEW p \in Procs, NEW v \in Vals, log_write(p, v) PROVE Goal
  <2> DEFINE blk == blockno[buf[p]]
  <2>1. buf[p] \in Bufs /\ blk \in Blocks /\ UNCHANGED <<buf, blockno>>
    BY <1>4 DEF log_write, Owners, OneBufferOneUser, TypeOK, Has
  <2>2. users(b)' = users(b)
    BY <2>1 DEF users
  <2>3. pinned' = pinned \cup {blk}
    BY <1>4 DEF log_write
  <2>4. CASE blk \in pinned
    BY <1>0, <1>4, <2>1, <2>2, <2>3, <2>4 DEF log_write, pins
  <2>5. CASE blk \notin pinned
    <3>1. refcnt' = [refcnt EXCEPT ![buf[p]] = @ + 1]
      BY <1>4, <2>5 DEF log_write, bpin
    <3>2. CASE b = buf[p]
      <4>1. pins(b) = 0 /\ pins(b)' = 1
        BY <2>1, <2>3, <2>5, <3>2 DEF pins
      <4>2. QED
        BY <1>0, <2>2, <3>1, <3>2, <4>1 DEF TypeOK
    <3>3. CASE b # buf[p]
      <4>1. blockno[b] # blk
        BY <2>1, <3>3 DEF OneBufferOneUser
      <4>2. pins(b)' = pins(b)
        BY <2>1, <2>3, <4>1 DEF pins
      <4>3. QED
        BY <1>0, <2>2, <3>1, <3>3, <4>2 DEF TypeOK
    <3>4. QED
      BY <3>2, <3>3, SMTT(60)
  <2>6. QED
    BY <2>4, <2>5
<1>5. ASSUME NEW p \in Procs, install(p) PROVE Goal
  <2> DEFINE blk == blockno[buf[p]]
  <2>1. /\ buf[p] \in Bufs /\ blk \in pinned /\ blk \in Blocks
        /\ UNCHANGED <<buf, blockno>> /\ pinned' = pinned \ {blk}
        /\ refcnt' = [refcnt EXCEPT ![buf[p]] = @ - 1]
    BY <1>5 DEF install, bunpin, Owners, TypeOK, Has
  <2>2. users(b)' = users(b)
    BY <2>1 DEF users
  <2>3. CASE b = buf[p]
    <3>1. pins(b) = 1 /\ pins(b)' = 0
      BY <2>1, <2>3 DEF pins
    <3>2. QED
      BY <1>0, <2>1, <2>2, <2>3, <3>1 DEF TypeOK
  <2>4. CASE b # buf[p]
    <3>1. blockno[b] # blk
      BY <2>1, <2>4 DEF OneBufferOneUser
    <3>2. pins(b)' = pins(b)
      BY <2>1, <3>1 DEF pins
    <3>3. QED
      BY <1>0, <2>1, <2>2, <2>4, <3>2 DEF TypeOK
  <2>5. QED
    BY <2>3, <2>4
<1>6. ASSUME NEW p \in Procs, brelse(p) PROVE Goal
  <2>1. /\ refcnt' = [refcnt EXCEPT ![buf[p]] = @ - 1] /\ UNCHANGED <<blockno, pinned>>
        /\ buf' = [buf EXCEPT ![p] = NULL] /\ buf[p] \in Bufs
    BY <1>6 DEF brelse, Owners, Has, TypeOK
  <2>2. pins(b)' = pins(b) /\ pins(b) \in {0, 1}
    BY <2>1 DEF pins
  <2>3. CASE b = buf[p]
    <3>1. users(b)' = users(b) \ {p} /\ p \in users(b)
      BY <2>1, <2>3 DEF users, TypeOK
    <3>2. Cardinality(users(b) \ {p}) = Cardinality(users(b)) - 1
      BY <1>0, <3>1, FS_RemoveElement, ZenonT(60)
    <3>3. QED
      BY <1>0, <2>1, <2>2, <2>3, <3>1, <3>2 DEF TypeOK
  <2>4. CASE b # buf[p]
    <3>1. users(b)' = users(b)
      BY <2>1, <2>4 DEF users, TypeOK
    <3>2. QED
      BY <1>0, <2>1, <2>2, <2>4, <3>1 DEF TypeOK
  <2>5. QED
    BY <2>3, <2>4
<1>7. ASSUME NEW p \in Procs,
             \/ \E blk \in Blocks : bread(p, blk)
             \/ bget_panic(p) \/ acquiresleep(p) \/ kill(p) \/ fill(p) \/ releasesleep(p)
      PROVE UNCHANGED <<refcnt, buf, blockno, pinned>>
  BY <1>7, Zenon DEF bread, bget_panic, acquiresleep, kill, fill, releasesleep, bufs
<1>8. CASE UNCHANGED vars
  BY <1>1, <1>8 DEF vars, bufs
<1>9. QED
  BY <1>1, <1>2, <1>3, <1>4, <1>5, <1>6, <1>7, <1>8 DEF Next, Step, Proceed
\* A valid buffer that is not pinned holds what the disk holds.
LEMMA StepContents == BufInv /\ [Next]_vars => Contents'
<1> SUFFICES ASSUME BufInv, [Next]_vars PROVE Contents'
  OBVIOUS
<1> USE BufConstantsOK DEF BufConstantsOK, BufInv, Contents, TypeOK
<1>1. ASSUME NEW p \in Procs, NEW blk \in Blocks, bread(p, blk) PROVE Contents'
  BY <1>1 DEF bread, goto, bufs
<1>2. ASSUME NEW p \in Procs, bget_hit(p) PROVE Contents'
  BY <1>2 DEF bget_hit, cached, goto
<1>3. ASSUME NEW p \in Procs, bget_recycle(p) PROVE Contents'
  <2>1. PICK b \in Bufs :
          /\ pc[p] = "bget" /\ cached(want[p]) = {} /\ refcnt[b] = 0
          /\ blockno' = [blockno EXCEPT ![b] = want[p]]
          /\ valid' = [valid EXCEPT ![b] = FALSE]
          /\ buf' = [buf EXCEPT ![p] = b]
          /\ pc' = [pc EXCEPT ![p] = "acquiresleep"] /\ UNCHANGED <<data, disk, pinned>>
    BY <1>3, Zenon DEF bget_recycle, goto, lru
  <2>2. users(b) = {} /\ blockno[b] \notin pinned
    <3>1. Cardinality(users(b)) = 0 /\ pins(b) = 0
      BY <2>1, UsersFinite, RefcntIs
    <3>2. QED
      BY <3>1, UsersFinite, FS_EmptySet DEF pins
  <2>3. \A q \in Procs : buf[q] # b
    BY <2>2 DEF users
  <2>4. \A c \in Bufs : valid'[c] => c # b /\ valid[c] /\ blockno'[c] = blockno[c]
    BY <2>1
  <2>5. \A blk \in pinned : \E c \in Bufs : blockno'[c] = blk /\ valid'[c]
    BY <2>1, <2>2
  <2>6. \A q \in Procs : pc'[q] = "use" => valid'[buf'[q]]
    BY <2>1, <2>3, SMTT(60)
  <2>7. QED
    BY <2>1, <2>4, <2>5, <2>6, SMTT(60)
<1>4. ASSUME NEW p \in Procs, bget_panic(p) PROVE Contents'
  BY <1>4 DEF bget_panic, bufs
<1>5. ASSUME NEW p \in Procs, acquiresleep(p) PROVE Contents'
  BY <1>5 DEF acquiresleep, goto, bufs
<1>6. ASSUME NEW p \in Procs, kill(p) PROVE Contents'
  BY <1>6 DEF kill, goto, bufs
<1>7. ASSUME NEW p \in Procs, fill(p) PROVE Contents'
  <2>1. buf[p] \in Bufs /\ blockno[buf[p]] \in Blocks
    BY <1>7 DEF fill, Owners, OneBufferOneUser, Has
  <2>2. \A q \in Procs : pc[q] = "use" => buf[q] \in Bufs /\ buf[q] # buf[p]
    BY <1>7 DEF fill, Owners, OneBufferOneUser, Has
  <2>3. QED
    BY <1>7, <2>1, <2>2 DEF fill, goto
<1>8. ASSUME NEW p \in Procs, NEW v \in Vals, log_write(p, v) PROVE Contents'
  <2> DEFINE b == buf[p]
             blk == blockno[b]
  <2>1. /\ b \in Bufs /\ blk \in Blocks /\ valid[b] /\ UNCHANGED <<blockno, valid, disk, pc, buf>>
        /\ pinned' = pinned \cup {blk} /\ data' = [data EXCEPT ![b] = v]
        /\ Cardinality(pinned \cup {blk}) <= MaxPins
    BY <1>8 DEF log_write, Owners, OneBufferOneUser, Has
  <2>2. IsFiniteSet(pinned \cup {blk})
    BY FS_AddElement, ZenonT(60)
  <2>3. \A c \in Bufs : valid[c] /\ blockno[c] \notin pinned' => c # b
    BY <2>1
  <2>4. QED
    BY <2>1, <2>2, <2>3, SMTT(60)
<1>9. ASSUME NEW p \in Procs, install(p) PROVE Contents'
  <2> DEFINE b == buf[p]
             blk == blockno[b]
  <2>1. /\ b \in Bufs /\ blk \in pinned /\ valid[b]
        /\ UNCHANGED <<blockno, valid, data, pc, buf>>
        /\ pinned' = pinned \ {blk} /\ disk' = [disk EXCEPT ![blk] = data[b]]
    BY <1>9 DEF install, Owners, Has
  <2>2. IsFiniteSet(pinned') /\ Cardinality(pinned') <= MaxPins
    <3>1. /\ IsFiniteSet(pinned \ {blk})
          /\ Cardinality(pinned \ {blk}) = Cardinality(pinned) - 1
      BY <2>1, FS_RemoveElement, SMTT(60)
    <3>2. Cardinality(pinned) \in Nat
      BY FS_CardinalityType
    <3>3. QED
      BY <2>1, <3>1, <3>2
  <2>3. \A c \in Bufs : blockno[c] = blk => c = b
    BY <2>1 DEF OneBufferOneUser
  <2>4. \A c \in Bufs : valid[c] /\ blockno[c] \notin pinned' => data[c] = disk'[blockno[c]]
    BY <2>1, <2>3
  <2>5. QED
    BY <2>1, <2>2, <2>4
<1>10. ASSUME NEW p \in Procs, releasesleep(p) PROVE Contents'
  BY <1>10, SMTT(60) DEF releasesleep, bufs
<1>11. ASSUME NEW p \in Procs, brelse(p) PROVE Contents'
  BY <1>11, SMTT(60) DEF brelse, goto
<1>12. CASE UNCHANGED vars
  BY <1>12 DEF vars, bufs
<1>13. QED
  BY <1>1, <1>2, <1>3, <1>4, <1>5, <1>6, <1>7, <1>8, <1>9, <1>10, <1>11, <1>12, ZenonT(60)
  DEF Next, Step, Proceed
\* bget() gives up only when every buffer is in use or in the log: there are
\* at most as many of those as other processes and blocks in the log.
LEMMA AllInUse ==
  ASSUME BufInv, NEW p \in Procs, bget_panic(p)
  PROVE  Cardinality(Bufs) < Cardinality(Callers) + Cardinality(pinned)
<1> DEFINE Q == {q \in Procs : buf[q] # NULL}
           A == {b \in Bufs : users(b) # {}}
           P == {b \in Bufs : blockno[b] \in pinned}
<1> USE BufConstantsOK DEF BufConstantsOK, BufInv
<1>1. /\ IsFiniteSet(Q) /\ Cardinality(Q) \in Nat /\ Cardinality(Callers) \in Nat
      /\ Cardinality(Q) <= Cardinality(Callers) - 1
  <2>1. p \in Callers /\ p \notin Q
    BY DEF bget_panic, Owners, Has, Callers
  <2>2. IsFiniteSet(Callers)
    BY FS_Subset DEF Callers
  <2>3. /\ IsFiniteSet(Callers \ {p}) /\ Cardinality(Callers \ {p}) = Cardinality(Callers) - 1
    BY <2>1, <2>2, FS_RemoveElement, SMTT(60)
  <2>4. Q \subseteq Callers \ {p}
    BY <2>1 DEF Owners, Has, Callers
  <2>5. IsFiniteSet(Q) /\ Cardinality(Q) <= Cardinality(Callers \ {p})
    BY <2>3, <2>4, FS_Subset
  <2>6. Cardinality(Q) \in Nat /\ Cardinality(Callers) \in Nat
    BY <2>2, <2>5, FS_CardinalityType, SMTT(60)
  <2>7. QED
    BY <2>3, <2>5, <2>6, SMTT(60)
<1>2. IsFiniteSet(A) /\ Cardinality(A) \in Nat /\ Cardinality(A) <= Cardinality(Q)
  <2> DEFINE f == [q \in Q |-> buf[q]]
  <2>1. f \in [Q -> A]
    BY SMTT(60) DEF TypeOK, users
  <2>2. \A b \in A : \E q \in Q : f[q] = b
    BY DEF users
  <2>3. f \in Surjection(Q, A)
    BY <2>1, <2>2, Fun_IsSurj, SMTT(60)
  <2>4. IsFiniteSet(A) /\ Cardinality(A) <= Cardinality(Q)
    BY <1>1, <2>3, FS_Surjection, SMTT(60)
  <2>5. QED
    BY <2>4, FS_CardinalityType
<1>3. /\ IsFiniteSet(P) /\ Cardinality(P) \in Nat /\ Cardinality(pinned) \in Nat
      /\ Cardinality(P) <= Cardinality(pinned)
  <2> DEFINE g == [b \in P |-> blockno[b]]
  <2>1. g \in [P -> pinned]
    OBVIOUS
  <2>2. \A b, c \in P : g[b] = g[c] => b = c
    BY DEF OneBufferOneUser, TypeOK
  <2>3. g \in Injection(P, pinned)
    BY <2>1, <2>2, Fun_IsInj, SMTT(60)
  <2>4. IsFiniteSet(pinned)
    BY DEF Contents
  <2>5. IsFiniteSet(P) /\ Cardinality(P) <= Cardinality(pinned)
    BY <2>3, <2>4, FS_Injection
  <2>6. Cardinality(P) \in Nat /\ Cardinality(pinned) \in Nat
    BY <2>4, <2>5, FS_CardinalityType
  <2>7. QED
    BY <2>4, <2>5, <2>6
<1>4. Bufs = A \cup P
  <2> SUFFICES ASSUME NEW b \in Bufs PROVE users(b) # {} \/ blockno[b] \in pinned
    OBVIOUS
  <2>1. refcnt[b] # 0 /\ refcnt[b] = Cardinality(users(b)) + pins(b)
    BY RefcntIs DEF bget_panic
  <2>2. CASE blockno[b] \notin pinned
    <3>1. pins(b) = 0 /\ Cardinality(users(b)) \in Nat
      BY <2>2, UsersFinite DEF pins
    <3>2. Cardinality(users(b)) # 0
      BY <2>1, <3>1, SMTT(60)
    <3>3. QED
      BY <3>2, FS_EmptySet
  <2>3. QED
    BY <2>2
<1> HIDE DEF A, P, Q
<1>5. /\ Cardinality(A \cup P) = Cardinality(A) + Cardinality(P) - Cardinality(A \cap P)
      /\ Cardinality(A \cap P) \in Nat
  <2>1. IsFiniteSet(A \cap P)
    BY <1>2, FS_Intersection, Zenon
  <2>2. QED
    BY <1>2, <1>3, <2>1, FS_Union, FS_CardinalityType, SMTT(60)
<1>6. QED
  BY <1>1, <1>2, <1>3, <1>4, <1>5, SMTT(60)

\* If bget() gives up, the buffers have indeed run out.
LEMMA StepPanic == BufInv /\ [Next]_vars => NoBuffersPanic'
<1> SUFFICES ASSUME BufInv, [Next]_vars PROVE NoBuffersPanic'
  OBVIOUS
<1>1. ASSUME NEW p \in Procs, bget_panic(p) PROVE NoBuffersPanic'
  <2>1. Cardinality(Bufs) < Cardinality(Callers) + Cardinality(pinned)
    BY <1>1, AllInUse
  <2>2. Callers' = Callers /\ pinned' = pinned
    BY <1>1, Zenon DEF bget_panic, Callers
  <2>3. QED
    BY <2>1, <2>2, Zenon DEF NoBuffersPanic
<1>2. ASSUME NEW p \in Procs, Step(p), ~panicked PROVE bget_panic(p) \/ ~panicked'
  BY <1>2, Zenon
  DEF Step, Proceed, bread, bget_hit, bget_recycle, acquiresleep, kill, fill, log_write,
      install, releasesleep, brelse
<1>3. CASE UNCHANGED vars
  <2>1. Callers' = Callers /\ pinned' = pinned /\ panicked' = panicked
    BY <1>3, Zenon DEF vars, Callers
  <2>2. QED
    BY <2>1, Zenon DEF BufInv, NoBuffersPanic
<1>4. CASE ~panicked'
  BY <1>4, ZenonT(60) DEF NoBuffersPanic
<1>5. QED
  BY <1>1, <1>2, <1>3, <1>4, Zenon DEF Next

\* Whoever sleeps on a buffer after the step sleeps on a locked one.
LEMMA StepWaiters == BufInv /\ [Next]_vars => BufferWaiterWakes'
<1> SUFFICES ASSUME BufInv, [Next]_vars, NEW q \in Procs, pc'[q] = "sleep"
             PROVE  locked'[buf'[q]] # NULL
  BY ZenonT(60) DEF BufferWaiterWakes
<1> USE BufConstantsOK DEF BufConstantsOK, BufInv, TypeOK, goto
<1>1. ASSUME NEW p \in Procs,
             \/ bget_hit(p) \/ bget_recycle(p) \/ bget_panic(p) \/ fill(p) \/ kill(p) \/ brelse(p)
             \/ install(p) \/ (\E v \in Vals : log_write(p, v)) \/ (\E blk \in Blocks : bread(p, blk))
      PROVE  pc[q] = "sleep" /\ buf'[q] = buf[q] /\ locked' = locked
  BY <1>1, ZenonT(60)
  DEF bget_hit, bget_recycle, bget_panic, fill, kill, brelse, install, log_write, bread
<1>2. ASSUME NEW p \in Procs, acquiresleep(p) PROVE locked'[buf'[q]] # NULL
  <2>1. buf[q] \in Bufs /\ buf[p] \in Bufs /\ buf' = buf
    BY <1>2 DEF acquiresleep, Owners, Has
  <2>2. CASE q = p
    BY <1>2, <2>1, <2>2 DEF acquiresleep
  <2>3. CASE q # p
    BY <1>2, <2>1, <2>3, SMTT(60) DEF acquiresleep, BufferWaiterWakes
  <2>4. QED
    BY <2>2, <2>3, ZenonT(60)
<1>3. ASSUME NEW p \in Procs, releasesleep(p) PROVE locked'[buf'[q]] # NULL
  <2>1. pc[q] = "sleep" /\ buf[q] # buf[p] /\ buf' = buf
    BY <1>3 DEF releasesleep
  <2>2. buf[q] \in Bufs /\ locked[buf[q]] # NULL
    BY <2>1 DEF Owners, Has, BufferWaiterWakes
  <2>3. QED
    BY <1>3, <2>1, <2>2 DEF releasesleep
<1>4. CASE UNCHANGED vars
  BY <1>4 DEF vars, BufferWaiterWakes
<1>5. QED
  BY <1>1, <1>2, <1>3, <1>4, Zenon DEF Next, Step, Proceed, BufferWaiterWakes

\* The invariant is inductive: it holds in every reachable state.
THEOREM BufInvariant == Spec => []BufInv
<1>1. BufInv /\ [Next]_vars => BufInv'
  BY StepTypes, StepOwners, StepRefcnt, StepOne, StepContents, StepPanic, StepWaiters
  DEF BufInv
<1>2. QED
  BY <1>1, InitInv, PTL DEF Spec
-----------------------------------------------------------------------------
\* What bread() returns, before and after a step: the data of the buffer that
\* has the block, or the block on the disk if there is none.
LEMMA ContentCached ==
  ASSUME NEW blk, NEW c \in Bufs, blockno[c] = blk, valid[c],
         \A e \in Bufs : blockno[e] = blk /\ valid[e] => e = c
  PROVE  Content(blk) = data[c]
BY Zenon DEF Content, cached

\* The same for the state after a step.
LEMMA ContentCachedNext ==
  ASSUME NEW blk, NEW c \in Bufs, blockno'[c] = blk, valid'[c],
         \A e \in Bufs : blockno'[e] = blk /\ valid'[e] => e = c
  PROVE  Content(blk)' = data'[c]
BY Zenon DEF Content, cached

\* A block in no valid buffer is what the disk holds.
LEMMA ContentOnDisk ==
  ASSUME NEW blk, ~\E c \in Bufs : blockno[c] = blk /\ valid[c]
  PROVE  Content(blk) = disk[blk]
BY Zenon DEF Content, cached

\* The same for the state after a step.
LEMMA ContentOnDiskNext ==
  ASSUME NEW blk, ~\E c \in Bufs : blockno'[c] = blk /\ valid'[c]
  PROVE  Content(blk)' = disk'[blk]
BY Zenon DEF Content, cached

\* Every step changes at most the block its caller writes.
LEMMA StepTransparent ==
  ASSUME BufInv, [Next]_vars, NEW blk \in Blocks, Content(blk)' # Content(blk)
  PROVE  \E p \in Procs : pc[p] = "use" /\ want[p] = blk /\ blk \in pinned'
<1> DEFINE Goal == \E p \in Procs : pc[p] = "use" /\ want[p] = blk /\ blk \in pinned'
<1>1. ASSUME UNCHANGED <<blockno, valid, data, disk>> PROVE FALSE
  BY <1>1, Zenon DEF Content, cached
<1> USE BufConstantsOK DEF BufConstantsOK, BufInv, TypeOK
<1>2. ASSUME NEW p \in Procs, bget_recycle(p) PROVE FALSE
  <2>1. PICK b \in Bufs :
          /\ cached(want[p]) = {} /\ refcnt[b] = 0
          /\ blockno' = [blockno EXCEPT ![b] = want[p]]
          /\ valid' = [valid EXCEPT ![b] = FALSE]
          /\ UNCHANGED <<data, disk>>
    BY <1>2, Zenon DEF bget_recycle, lru
  <2>2. blockno[b] \notin pinned
    <3>1. pins(b) = 0
      BY <2>1, UsersFinite, RefcntIs
    <3>2. QED
      BY <3>1 DEF pins
  <2>3. CASE \E c \in Bufs : c # b /\ blockno[c] = blk /\ valid[c]
    <3>1. PICK c \in Bufs : c # b /\ blockno[c] = blk /\ valid[c]
      BY <2>3
    <3>2. \A e \in Bufs : blockno[e] = blk => e = c
      BY <3>1 DEF OneBufferOneUser
    <3>3. Content(blk) = data[c]
      BY <3>1, <3>2, ContentCached, SMTT(60)
    <3>4. Content(blk)' = data[c]
      <4>1. blockno'[c] = blk /\ valid'[c] /\ data'[c] = data[c]
        BY <2>1, <3>1
      <4>2. \A e \in Bufs : blockno'[e] = blk /\ valid'[e] => e = c
        BY <2>1, <3>2
      <4>3. QED
        BY <4>1, <4>2, ContentCachedNext
    <3>5. QED
      BY <3>3, <3>4
  <2>4. CASE ~\E c \in Bufs : c # b /\ blockno[c] = blk /\ valid[c]
    <3>1. Content(blk) = disk[blk]
      <4>1. CASE blockno[b] = blk /\ valid[b]
        <5>1. Content(blk) = data[b]
          BY <2>4, <4>1, ContentCached
        <5>2. QED
          BY <2>2, <4>1, <5>1 DEF Contents
      <4>2. CASE ~(blockno[b] = blk /\ valid[b])
        BY <2>4, <4>2, ContentOnDisk
      <4>3. QED
        BY <4>1, <4>2
    <3>2. Content(blk)' = disk[blk]
      <4>1. ~\E c \in Bufs : blockno'[c] = blk /\ valid'[c]
        BY <2>1, <2>4
      <4>2. QED
        BY <2>1, <4>1, ContentOnDiskNext
    <3>3. QED
      BY <3>1, <3>2
  <2>5. QED
    BY <2>3, <2>4, SMTT(60)
<1>3. ASSUME NEW p \in Procs, fill(p) PROVE FALSE
  <2> DEFINE b == buf[p]
  <2>1. /\ b \in Bufs /\ UNCHANGED <<blockno, disk>>
        /\ data' = [data EXCEPT ![b] = IF valid[b] THEN @ ELSE disk[blockno[b]]]
        /\ valid' = [valid EXCEPT ![b] = TRUE]
    BY <1>3, SMTT(60) DEF fill, Owners, Has
  <2>2. blockno[b] \in Blocks
    BY <1>3, <2>1 DEF fill, Owners, OneBufferOneUser
  <2>3. CASE valid[b]
    BY <1>1, <2>1, <2>3
  <2>4. CASE ~valid[b] /\ blockno[b] = blk
    <3>1. \A c \in Bufs : blockno[c] = blk => c = b
      BY <2>1, <2>2, <2>4 DEF OneBufferOneUser
    <3>2. Content(blk) = disk[blk]
      BY <2>4, <3>1, ContentOnDisk
    <3>3. Content(blk)' = disk[blk]
      <4>1. blockno'[b] = blk /\ valid'[b] /\ data'[b] = disk[blk]
        BY <2>1, <2>4
      <4>2. \A e \in Bufs : blockno'[e] = blk /\ valid'[e] => e = b
        BY <2>1, <3>1
      <4>3. QED
        BY <2>1, <4>1, <4>2, ContentCachedNext
    <3>4. QED
      BY <3>2, <3>3
  <2>5. CASE blockno[b] # blk
    <3>1. \A c \in Bufs : blockno[c] = blk => valid'[c] = valid[c] /\ data'[c] = data[c]
      BY <2>1, <2>5, Zenon
    <3>2. CASE \E c \in Bufs : blockno[c] = blk /\ valid[c]
      <4>1. PICK c \in Bufs : blockno[c] = blk /\ valid[c]
        BY <3>2
      <4>2. \A e \in Bufs : blockno[e] = blk => e = c
        BY <4>1 DEF OneBufferOneUser
      <4>3. Content(blk) = data[c]
        BY <4>1, <4>2, ContentCached
      <4>4. Content(blk)' = data[c]
        <5>1. blockno'[c] = blk /\ valid'[c] /\ data'[c] = data[c]
          BY <2>1, <3>1, <4>1
        <5>2. \A e \in Bufs : blockno'[e] = blk /\ valid'[e] => e = c
          BY <2>1, <4>2
        <5>3. QED
          BY <5>1, <5>2, ContentCachedNext
      <4>5. QED
        BY <4>3, <4>4
    <3>3. CASE ~\E c \in Bufs : blockno[c] = blk /\ valid[c]
      <4>1. Content(blk) = disk[blk]
        BY <3>3, ContentOnDisk
      <4>2. Content(blk)' = disk[blk]
        <5>1. ~\E c \in Bufs : blockno'[c] = blk /\ valid'[c]
          BY <2>1, <3>1, <3>3, Zenon
        <5>2. QED
          BY <2>1, <5>1, ContentOnDiskNext
      <4>3. QED
        BY <4>1, <4>2
    <3>4. QED
      BY <3>2, <3>3
  <2>6. QED
    BY <2>3, <2>4, <2>5, SMTT(60)
<1>4. ASSUME NEW p \in Procs, NEW v \in Vals, log_write(p, v) PROVE Goal
  <2> DEFINE b == buf[p]
  <2>1. /\ b \in Bufs /\ pc[p] = "use" /\ blockno[b] = want[p]
        /\ UNCHANGED <<blockno, valid, disk>>
        /\ data' = [data EXCEPT ![b] = v] /\ pinned' = pinned \cup {blockno[b]}
    <3>1. /\ pc[p] = "use" /\ UNCHANGED <<blockno, valid, disk>>
          /\ data' = [data EXCEPT ![b] = v] /\ pinned' = pinned \cup {blockno[b]}
      BY <1>4, Zenon DEF log_write
    <3>2. QED
      BY <3>1 DEF Owners, OneBufferOneUser, Has
  <2>2. CASE want[p] = blk
    BY <2>1, <2>2
  <2>3. CASE want[p] # blk
    <3>1. \A c \in Bufs : blockno[c] = blk => data'[c] = data[c]
      BY <2>1, <2>3
    <3>2. CASE \E c \in Bufs : blockno[c] = blk /\ valid[c]
      <4>1. PICK c \in Bufs : blockno[c] = blk /\ valid[c]
        BY <3>2
      <4>2. \A e \in Bufs : blockno[e] = blk => e = c
        BY <4>1 DEF OneBufferOneUser
      <4>3. Content(blk) = data[c]
        BY <4>1, <4>2, ContentCached, SMTT(60)
      <4>4. Content(blk)' = data[c]
        <5>1. blockno'[c] = blk /\ valid'[c] /\ data'[c] = data[c]
          BY <2>1, <3>1, <4>1
        <5>2. \A e \in Bufs : blockno'[e] = blk /\ valid'[e] => e = c
          BY <2>1, <4>2
        <5>3. QED
          BY <5>1, <5>2, ContentCachedNext
      <4>5. QED
        BY <4>3, <4>4
    <3>3. CASE ~\E c \in Bufs : blockno[c] = blk /\ valid[c]
      <4>1. Content(blk) = disk[blk]
        BY <3>3, ContentOnDisk
      <4>2. Content(blk)' = disk[blk]
        BY <2>1, <3>3, ContentOnDiskNext
      <4>3. QED
        BY <4>1, <4>2
    <3>4. QED
      BY <3>2, <3>3
  <2>4. QED
    BY <2>2, <2>3
<1>5. ASSUME NEW p \in Procs, install(p) PROVE FALSE
  <2> DEFINE b == buf[p]
  <2>1. /\ b \in Bufs /\ valid[b] /\ blockno[b] \in Blocks
        /\ UNCHANGED <<blockno, valid, data>>
        /\ disk' = [disk EXCEPT ![blockno[b]] = data[b]]
    BY <1>5 DEF install, Owners, Has, Contents
  <2>2. CASE blockno[b] # blk
    <3>1. disk'[blk] = disk[blk]
      BY <2>1, <2>2
    <3>2. QED
      BY <2>1, <3>1, Zenon DEF Content, cached
  <2>3. CASE blockno[b] = blk
    <3>1. \E c \in Bufs : blockno[c] = blk /\ valid[c]
      BY <2>1, <2>3
    <3>2. QED
      BY <2>1, <3>1, Zenon DEF Content, cached
  <2>4. QED
    BY <2>2, <2>3, ZenonT(60)
<1>6. ASSUME NEW p \in Procs,
             \/ \E k \in Blocks : bread(p, k)
             \/ bget_hit(p) \/ bget_panic(p) \/ acquiresleep(p) \/ kill(p)
             \/ releasesleep(p) \/ brelse(p)
      PROVE FALSE
  <2>1. UNCHANGED <<blockno, valid, data, disk>>
    BY <1>6, Zenon
    DEF bread, bget_hit, bget_panic, acquiresleep, kill, releasesleep, brelse, bufs
  <2>2. QED
    BY <1>1, <2>1
<1>7. CASE UNCHANGED vars
  BY <1>1, <1>7 DEF vars, bufs
<1>8. QED
  BY <1>2, <1>3, <1>4, <1>5, <1>6, <1>7 DEF Next, Step, Proceed
-----------------------------------------------------------------------------
\* Every variable of bio.c keeps its type; in particular the list always has
\* every buffer, so the scans of bget() miss none.
THEOREM TypesHold == Spec => []TypeOK
BY BufInvariant, PTL DEF BufInv

\* refcnt counts exactly the processes that have a buffer or wait for it, and
\* the log: it is 0 just when bget() may recycle the buffer.
THEOREM RefcntHolds == Spec => []RefcntExact
BY BufInvariant, PTL DEF BufInv

\* No block is in two buffers and no buffer has two users.
THEOREM OneUserHolds == Spec => []OneBufferOneUser
BY BufInvariant, PTL DEF BufInv

\* bget() panics only when its callers and the blocks in the log outnumber the
\* buffers.
THEOREM PanicHolds == Spec => []NoBuffersPanic
BY BufInvariant, PTL DEF BufInv

\* So bget() does not panic when there is a buffer for each of the processes
\* and for each block the log can hold (NBUF and LOGSIZE in param.h).
THEOREM EnoughBuffers ==
  ASSUME Cardinality(Procs) + MaxPins <= Cardinality(Bufs)
  PROVE  Spec => []~panicked
<1>1. BufInv => ~panicked
  <2> SUFFICES ASSUME BufInv, panicked PROVE FALSE
    OBVIOUS
  <2>1. IsFiniteSet(Callers) /\ Cardinality(Callers) <= Cardinality(Procs)
    BY BufConstantsOK, FS_Subset, ZenonT(60) DEF BufConstantsOK, Callers
  <2>2. /\ {Cardinality(Callers), Cardinality(Procs), Cardinality(Bufs)} \subseteq Nat
        /\ Cardinality(pinned) \in Nat /\ MaxPins \in Nat
    BY <2>1, BufConstantsOK, FS_CardinalityType, ZenonT(60) DEF BufConstantsOK, BufInv, Contents
  <2>3. Cardinality(pinned) <= MaxPins
    BY DEF BufInv, Contents
  <2>4. Cardinality(Bufs) < Cardinality(Callers) + Cardinality(pinned)
    BY DEF BufInv, NoBuffersPanic
  <2>5. QED
    BY <2>1, <2>2, <2>3, <2>4
<1>2. QED
  BY <1>1, BufInvariant, PTL

\* No process sleeps on a buffer that nobody has locked: no wakeup of
\* releasesleep() is lost.
THEOREM WaitersHold == Spec => []BufferWaiterWakes
BY BufInvariant, PTL DEF BufInv

\* What bread() returns for a block changes only by the process that holds its
\* buffer: recycling, reading and installing lose no update.
THEOREM CacheTransparent == Spec => CacheIsTransparent
<1>1. BufInv /\ [Next]_vars =>
        [\A blk \in Blocks : Content(blk)' # Content(blk)
           => \E p \in Procs : pc[p] = "use" /\ want[p] = blk /\ blk \in pinned']_vars
  BY StepTransparent
<1>2. QED
  BY <1>1, BufInvariant, PTL DEF Spec, CacheIsTransparent
=============================================================================
