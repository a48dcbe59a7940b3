------------------------------ MODULE CowMemory ------------------------------
(***************************************************************************)
(* Physical pages and user address spaces: the page allocator with its     *)
(* reference counts (kalloc.c), user page tables (vm.c), and the paths     *)
(* that change them: fork, the store-fault handler, copyout, sbrk, exec,   *)
(* exit and wait.  One step is one critical section of kmem.lock, with the *)
(* accesses to the caller's own page table that surround it; what a CPU    *)
(* does between two such sections interleaves with every other process.    *)
(*                                                                         *)
(* Page-table pages above the leaves are one page here, the root.  Free    *)
(* pages are interchangeable (all junk, no reference), so the freelist is  *)
(* a set.  PTE_R and PTE_X are left out: no property depends on them.      *)
(***************************************************************************)
EXTENDS Integers, FiniteSets

CONSTANTS
  Procs,      \* slots of proc[NPROC]
  InitProc,   \* initproc
  Pages,      \* the pages between end and PHYSTOP
  NULL,       \* the null pointer
  NPg,        \* bound: pages of the largest user address space
  LeafSpan,   \* user pages mapped by one leaf page-table page
  Vals,       \* contents of a user page
  Zero,       \* memset(mem, 0, PGSIZE)
  Junk,       \* kalloc()'s 5s and kfree()'s 1s
  MaxCopy,    \* bound: pages one copyout() spans
  SpansCow,   \* whether the pages after the first may be copy-on-write then
  MaxKernel,  \* bound: pages the kernel has taken for itself
  TextPages   \* pages of a program file; 0 leaves exec() out

ASSUME ConstantsOK ==
  /\ InitProc \in Procs
  /\ IsFiniteSet(Procs) /\ IsFiniteSet(Pages)
  /\ NULL \notin Pages
  /\ Zero \in Vals
  /\ NPg \in Nat \ {0} /\ LeafSpan \in Nat \ {0} /\ MaxCopy \in Nat
  /\ TextPages \in Nat /\ MaxKernel \in Nat /\ SpansCow \in BOOLEAN

VARIABLES
  freelist,   \* kmem.freelist
  refs,       \* refs[]
  mem,        \* contents of every physical page
  kernel,     \* the pages the kernel keeps: its page table, stacks, disk rings
  pte,        \* leaf PTEs of every address space
  tab,        \* page-table pages of every address space
  leaves,     \* which leaf page-table pages exist
  tf,         \* p->trapframe
  cur,        \* which of p's two address spaces is p->pagetable
  sz,         \* p->sz in pages
  state,      \* p->state; RUNNING stands for every live state
  parent,     \* p->parent
  wait_lock,  \* holder of wait_lock, NULL when free
  pc, job     \* where p is in the kernel, and its locals there

kmem == <<freelist, refs, mem>>
pagetables == <<pte, tab, leaves>>
procs == <<tf, cur, sz, state, parent, wait_lock>>
vars == <<kmem, kernel, pagetables, procs, pc, job>>

VA == 0 .. NPg - 1
Spaces == Procs \X {0, 1}     \* exec() builds a second one beside p's own
Slots == Spaces \X VA
PTE == [pa : Pages \cup {NULL}, W : BOOLEAN, U : BOOLEAN, COW : BOOLEAN]
NoPte == [pa |-> NULL, W |-> FALSE, U |-> FALSE, COW |-> FALSE]

\* The locals of the running system call: the address space it works on, the
\* pages i .. n-1 left to do, the process it creates or reaps, the size p gets
\* at the end, a page it holds that no page table refers to, and the value and
\* PTE_W it writes.
Job == [sp : Spaces, i : 0 .. NPg, n : 0 .. NPg, ch : Procs, z : 0 .. NPg,
        held : Pages \cup {NULL}, v : Vals, w : BOOLEAN]
NoJob == [sp |-> <<InitProc, 0>>, i |-> 0, n |-> 0, ch |-> InitProc, z |-> 0,
          held |-> NULL, v |-> Zero, w |-> FALSE]

Mine(p) == <<p, cur[p]>>           \* p->pagetable
Other(p) == <<p, 1 - cur[p]>>      \* the one exec() builds
LeafOf(va) == va \div LeafSpan

-----------------------------------------------------------------------------
(* kalloc.c *)

\* The page kalloc() returns; its callers test for 0, here freelist = {}.
NewPage == CHOOSE pa \in freelist : TRUE

kalloc ==
  /\ freelist # {}
  /\ freelist' = freelist \ {NewPage}
  /\ refs' = [refs EXCEPT ![NewPage] = 1]

kfree(pa) ==
  /\ refs' = [refs EXCEPT ![pa] = @ - 1]
  /\ freelist' = IF refs[pa] = 1 THEN freelist \cup {pa} ELSE freelist
  /\ mem' = IF refs[pa] = 1 THEN [mem EXCEPT ![pa] = Junk] ELSE mem

\* Mutant of incRef: the increment is forgotten.
incRef_forgotten(pa) == UNCHANGED kmem

incRef(pa) ==
  /\ refs' = [refs EXCEPT ![pa] = @ + 1]
  /\ UNCHANGED <<freelist, mem>>

-----------------------------------------------------------------------------
(* vm.c *)

goto(p, label, j) ==
  /\ pc' = [pc EXCEPT ![p] = label]
  /\ job' = [job EXCEPT ![p] = j]

ret(p) == goto(p, "user", NoJob)

\* The entry of p's job: its address space and its next page.
At(p) == <<job[p].sp, job[p].i>>
next(p) == [job[p] EXCEPT !.i = @ + 1]

\* walk(pagetable, va, 1): the leaf page exists, or kalloc() gives one.
walk(sp, va) ==
  IF LeafOf(va) \in leaves[sp]
  THEN UNCHANGED <<freelist, refs, tab, leaves>>
  ELSE /\ kalloc
       /\ tab' = [tab EXCEPT ![sp] = @ \cup {NewPage}]
       /\ leaves' = [leaves EXCEPT ![sp] = @ \cup {LeafOf(va)}]
walkfails(sp, va) == LeafOf(va) \notin leaves[sp] /\ freelist = {}

mapped(s) == pte[s].pa # NULL

unmap(s) == pte' = [pte EXCEPT ![s] = NoPte]

\* Mutant of remap: the old contents are not copied.
remap_nocopy(s) ==
  /\ kalloc
  /\ UNCHANGED mem
  /\ pte' = [pte EXCEPT ![s] = [pa |-> NewPage, W |-> TRUE, U |-> TRUE,
                                COW |-> FALSE]]
  /\ UNCHANGED <<tab, leaves>>

\* The store-fault handler and copyout() replace a page by a writable copy in
\* the same way; the old page is kept for the kfree() that follows.
remap(s) ==
  /\ kalloc
  /\ mem' = [mem EXCEPT ![NewPage] = mem[pte[s].pa]]
  /\ pte' = [pte EXCEPT ![s] = [pa |-> NewPage, W |-> TRUE, U |-> TRUE,
                                COW |-> FALSE]]
  /\ UNCHANGED <<tab, leaves>>

\* uvmcopy() turns every entry, writable or not, into a copy-on-write entry.
cowshare(entry) == [entry EXCEPT !.W = FALSE, !.COW = TRUE]

-----------------------------------------------------------------------------
(* fork(): allocproc(), uvmcopy() page by page, then the child may run. *)

\* allocproc() takes an UNUSED slot and its trapframe page.
ForkAlloc(p, c) ==
  /\ pc[p] = "user" /\ state[p] = "RUNNING" /\ state[c] = "UNUSED"
  /\ kalloc
  /\ state' = [state EXCEPT ![c] = "USED"]
  /\ tf' = [tf EXCEPT ![c] = NewPage]
  /\ goto(p, "pagetable", [NoJob EXCEPT !.sp = Mine(c), !.ch = c, !.n = sz[p]])
  /\ UNCHANGED <<mem, pagetables, cur, sz, parent, wait_lock>>

\* allocproc()'s proc_pagetable(); without memory freeproc() undoes the rest.
ForkPagetable(p) ==
  /\ pc[p] = "pagetable"
  /\ \/ /\ kalloc
        /\ tab' = [tab EXCEPT ![job[p].sp] = {NewPage}]
        /\ goto(p, "fork", job[p])
     \/ /\ freelist = {}
        /\ goto(p, "freetf", job[p])
        /\ UNCHANGED <<freelist, refs, tab>>
  /\ UNCHANGED <<mem, pte, leaves, procs>>

\* One turn of uvmcopy()'s loop up to mappages(): the parent's entry loses
\* PTE_W and gets PTE_COW before the child's can fail.
ForkMap(p) ==
  LET from == <<Mine(p), job[p].i>>
      shared == cowshare(pte[from])
  IN /\ pc[p] = "fork" /\ job[p].i < job[p].n
     /\ \/ /\ walk(job[p].sp, job[p].i)
           /\ pte' = [pte EXCEPT ![from] = shared, ![At(p)] = shared]
           /\ goto(p, "incref", job[p])
        \/ /\ walkfails(job[p].sp, job[p].i)
           /\ pte' = [pte EXCEPT ![from] = shared]
           /\ goto(p, "forkerr", [job[p] EXCEPT !.i = 0, !.n = job[p].i])
           /\ UNCHANGED <<freelist, refs, tab, leaves>>
     /\ UNCHANGED <<mem, procs>>

\* ... and its incRef().
ForkIncRef(p) ==
  /\ pc[p] = "incref"
  /\ incRef(pte[At(p)].pa)
  /\ goto(p, "fork", next(p))
  /\ UNCHANGED <<pagetables, procs>>

ForkDone(p) ==
  LET c == job[p].ch
  IN /\ pc[p] = "fork" /\ job[p].i = job[p].n
     /\ wait_lock = NULL
     /\ sz' = [sz EXCEPT ![c] = sz[p]]
     /\ parent' = [parent EXCEPT ![c] = p]
     /\ state' = [state EXCEPT ![c] = "RUNNING"]
     /\ ret(p)
     /\ UNCHANGED <<kmem, pagetables, tf, cur, wait_lock>>

-----------------------------------------------------------------------------
(* uvmunmap(..., 1), freeproc() and proc_freepagetable(), page by page. *)

Unmap(p) ==
  /\ pc[p] \in {"dealloc", "forkerr", "free"} /\ job[p].i < job[p].n
  /\ kfree(pte[At(p)].pa)
  /\ unmap(At(p))
  /\ goto(p, pc[p], next(p))
  /\ UNCHANGED <<tab, leaves, procs>>

\* What follows the last page: growproc() stores p->sz and returns, fork()'s
\* error path calls freeproc(), uvmfree() goes on to freewalk().
Unmapped(p) ==
  /\ job[p].i = job[p].n
  /\ \/ /\ pc[p] = "dealloc"
        /\ sz' = [sz EXCEPT ![p] = job[p].z]
        /\ ret(p)
     \/ /\ pc[p] = "forkerr"
        /\ goto(p, "freetf", job[p])
        /\ UNCHANGED sz
     \/ /\ pc[p] = "free"
        /\ goto(p, "freewalk", job[p])
        /\ UNCHANGED sz
  /\ UNCHANGED <<kmem, pagetables, tf, cur, state, parent, wait_lock>>

\* freeproc() frees the trapframe page, then the address space.
FreeTrapframe(p) ==
  LET c == job[p].ch
  IN /\ pc[p] = "freetf"
     /\ kfree(tf[c])
     /\ tf' = [tf EXCEPT ![c] = NULL]
     /\ goto(p, "free", [job[p] EXCEPT !.i = 0, !.n = sz[c]])
     /\ UNCHANGED <<pagetables, cur, sz, state, parent, wait_lock>>

FreeWalk(p) ==
  LET t == CHOOSE pa \in tab[job[p].sp] : TRUE
  IN /\ pc[p] = "freewalk" /\ tab[job[p].sp] # {}
     /\ kfree(t)
     /\ tab' = [tab EXCEPT ![job[p].sp] = @ \ {t}]
     /\ UNCHANGED <<pte, leaves, procs, pc, job>>

\* The address space is gone; freeproc() also gives the slot back, and wait()
\* releases its lock.
Freed(p) ==
  LET c == job[p].ch
  IN /\ pc[p] = "freewalk" /\ tab[job[p].sp] = {}
     /\ leaves' = [leaves EXCEPT ![job[p].sp] = {}]
     /\ IF c = p
        THEN UNCHANGED <<sz, state, parent>>
        ELSE /\ sz' = [sz EXCEPT ![c] = 0]
             /\ state' = [state EXCEPT ![c] = "UNUSED"]
             /\ parent' = [parent EXCEPT ![c] = NULL]
     /\ wait_lock' = IF wait_lock = p THEN NULL ELSE wait_lock
     /\ ret(p)
     /\ UNCHANGED <<kmem, pte, tab, tf, cur>>

-----------------------------------------------------------------------------
(* Stores of the program, and the store-fault branch of usertrap(). *)

Running(p) == state[p] = "RUNNING" /\ pc[p] = "user"

Store(p, va, v) ==
  LET s == <<Mine(p), va>>
  IN /\ Running(p) /\ mapped(s) /\ pte[s].U /\ pte[s].W
     /\ mem' = [mem EXCEPT ![pte[s].pa] = v]
     /\ UNCHANGED <<freelist, refs, pagetables, procs, pc, job>>

\* A fault on a COW page gets a copy.  Any other fault, one at address 0 (in
\* page 0), and a failing kalloc() end in setkilled() and exit(-1).
StoreFault(p, va) ==
  LET s == <<Mine(p), va>>
      cow == mapped(s) /\ pte[s].U /\ pte[s].COW
  IN /\ Running(p) /\ ~(mapped(s) /\ pte[s].U /\ pte[s].W)
     /\ \/ /\ cow
           /\ remap(s)
           /\ goto(p, "kfree", [NoJob EXCEPT !.held = pte[s].pa])
        \/ /\ ~cow \/ va = 0 \/ freelist = {}
           /\ goto(p, "exit", NoJob)
           /\ UNCHANGED <<kmem, pagetables>>
     /\ UNCHANGED procs

\* The kfree() of the page that was replaced, in either path.
FreeReplaced(p) ==
  /\ pc[p] = "kfree"
  /\ kfree(job[p].held)
  /\ IF job[p].i < job[p].n
     THEN goto(p, "copyout", [job[p] EXCEPT !.held = NULL])
     ELSE ret(p)
  /\ UNCHANGED <<pagetables, procs>>

-----------------------------------------------------------------------------
(* copyout(), called by system calls in general, by wait() and by exec(). *)

\* The caller's error path: exec() drops the new image, wait() its lock.
copyfail(p) ==
  IF job[p].sp # Mine(p)
  THEN /\ goto(p, "free", [job[p] EXCEPT !.i = 0, !.n = job[p].z])
       /\ UNCHANGED wait_lock
  ELSE /\ ret(p)
       /\ wait_lock' = IF wait_lock = p THEN NULL ELSE wait_lock

\* The destinations: the pages va .. va + len - 1.
Spans(p, va, len) ==
  /\ va + len <= NPg
  /\ SpansCow \/ \A k \in va + 1 .. va + len - 1 : ~pte[<<Mine(p), k>>].COW

\* A system call that copies len pages' worth of data to page va onwards.
CopyOut(p, va, len, v) ==
  /\ Running(p) /\ Spans(p, va, len)
  /\ goto(p, "copyout0", [NoJob EXCEPT !.sp = Mine(p), !.i = va, !.n = va + len,
                                       !.v = v])
  /\ UNCHANGED <<kmem, pagetables, procs>>

\* The checks on the first page, which then always gets a copy of its own.
CopyOutFirst(p) ==
  LET s == At(p)
      ok == job[p].i # 0 /\ mapped(s) /\ (pte[s].W \/ pte[s].COW) /\ pte[s].U
  IN /\ pc[p] = "copyout0"
     /\ \/ /\ ok
           /\ remap(s)
           /\ goto(p, "kfree", [job[p] EXCEPT !.held = pte[s].pa])
           /\ UNCHANGED wait_lock
        \/ /\ ~ok \/ freelist = {}
           /\ copyfail(p)
           /\ UNCHANGED <<kmem, pagetables>>
     /\ UNCHANGED <<tf, cur, sz, state, parent>>

\* One turn of the copy loop: walkaddr() looks at PTE_V and PTE_U only.
CopyOutPage(p) ==
  LET s == At(p)
  IN /\ pc[p] = "copyout" /\ job[p].i < job[p].n
     /\ \/ /\ mapped(s) /\ pte[s].U
           /\ mem' = [mem EXCEPT ![pte[s].pa] = job[p].v]
           /\ goto(p, "copyout", next(p))
           /\ UNCHANGED wait_lock
        \/ /\ ~(mapped(s) /\ pte[s].U)
           /\ copyfail(p)
           /\ UNCHANGED mem
     /\ UNCHANGED <<freelist, refs, pagetables, tf, cur, sz, state, parent>>

\* Success: exec() copies the next argument or commits, wait() frees the child.
CopyOutDone(p) ==
  /\ pc[p] = "copyout" /\ job[p].i = job[p].n
  /\ \/ /\ job[p].sp # Mine(p)
        /\ \/ goto(p, "copyout0", [job[p] EXCEPT !.i = job[p].z - 1])
           \/ goto(p, "commit", job[p])
     \/ /\ job[p].sp = Mine(p) /\ wait_lock = p
        /\ goto(p, "freetf", [job[p] EXCEPT !.sp = Mine(job[p].ch)])
     \/ /\ job[p].sp = Mine(p) /\ wait_lock # p
        /\ ret(p)
  /\ UNCHANGED <<kmem, pagetables, procs>>

-----------------------------------------------------------------------------
(* growproc() and exec(): uvmalloc() page by page. *)

Sbrk(p, newsz) ==
  /\ Running(p) /\ newsz # sz[p]
  /\ IF newsz > sz[p]
     THEN goto(p, "alloc", [NoJob EXCEPT !.sp = Mine(p), !.i = sz[p],
                                         !.n = newsz, !.z = sz[p], !.ch = p])
     ELSE goto(p, "dealloc", [NoJob EXCEPT !.sp = Mine(p), !.i = newsz,
                                           !.n = sz[p], !.z = newsz, !.ch = p])
  /\ UNCHANGED <<kmem, pagetables, procs>>

\* Out of memory: growproc() drops the pages it added, exec() the new image.
allocfail(p) ==
  IF job[p].sp = Mine(p)
  THEN goto(p, "dealloc", [job[p] EXCEPT !.i = job[p].z, !.n = job[p].i,
                                         !.held = NULL])
  ELSE goto(p, "free", [job[p] EXCEPT !.i = 0, !.n = job[p].i, !.held = NULL])

UvmAlloc(p) ==
  /\ pc[p] = "alloc" /\ job[p].i < job[p].n
  /\ \/ /\ kalloc
        /\ mem' = [mem EXCEPT ![NewPage] = Zero]
        /\ goto(p, "map", [job[p] EXCEPT !.held = NewPage])
     \/ /\ freelist = {}
        /\ allocfail(p)
        /\ UNCHANGED kmem
  /\ UNCHANGED <<pagetables, procs>>

\* PTE_W comes from the program header for the pages of the file.
UvmMap(p) ==
  LET w == job[p].sp = Mine(p) \/ job[p].i >= TextPages \/ job[p].w
  IN /\ pc[p] = "map"
     /\ \/ /\ walk(job[p].sp, job[p].i)
           /\ pte' = [pte EXCEPT ![At(p)] = [pa |-> job[p].held, W |-> w,
                                             U |-> TRUE, COW |-> FALSE]]
           /\ goto(p, "alloc", [next(p) EXCEPT !.held = NULL])
           /\ UNCHANGED mem
        \/ /\ walkfails(job[p].sp, job[p].i)
           /\ kfree(job[p].held)
           /\ allocfail(p)
           /\ UNCHANGED pagetables
     /\ UNCHANGED procs

\* Mutant of GrowDone: p->sz counts one page too many.
GrowDoneOffByOne(p) ==
  /\ pc[p] = "alloc" /\ job[p].i = job[p].n /\ job[p].sp = Mine(p)
  /\ sz' = [sz EXCEPT ![p] = job[p].n + 1]
  /\ ret(p)
  /\ UNCHANGED <<kmem, pagetables, tf, cur, state, parent, wait_lock>>

GrowDone(p) ==
  /\ pc[p] = "alloc" /\ job[p].i = job[p].n /\ job[p].sp = Mine(p)
  /\ sz' = [sz EXCEPT ![p] = job[p].n]
  /\ ret(p)
  /\ UNCHANGED <<kmem, pagetables, tf, cur, state, parent, wait_lock>>

\* proc_pagetable() for a program with TextPages pages, a guard and a stack.
ExecPagetable(p, v, w) ==
  /\ Running(p) /\ TextPages > 0 /\ TextPages + 2 <= NPg
  /\ kalloc
  /\ tab' = [tab EXCEPT ![Other(p)] = {NewPage}]
  /\ goto(p, "alloc", [NoJob EXCEPT !.sp = Other(p), !.n = TextPages + 2,
                                    !.ch = p, !.v = v, !.w = w])
  /\ UNCHANGED <<mem, pte, leaves, procs>>

\* The file cannot be read, or is not a program: goto bad.
ExecBad(p) ==
  /\ pc[p] = "alloc" /\ job[p].sp # Mine(p)
  /\ goto(p, "free", [job[p] EXCEPT !.i = 0, !.n = job[p].i])
  /\ UNCHANGED <<kmem, pagetables, procs>>

\* loadseg() has filled the pages of the file; uvmclear() takes PTE_U from the
\* guard page; the arguments are copied to the stack page, the last one.
ExecLoaded(p) ==
  LET sp == job[p].sp
      text == {pte[<<sp, va>>].pa : va \in 0 .. TextPages - 1}
  IN /\ pc[p] = "alloc" /\ job[p].i = job[p].n /\ sp # Mine(p)
     /\ mem' = [pa \in Pages |-> IF pa \in text THEN job[p].v ELSE mem[pa]]
     /\ pte' = [pte EXCEPT ![<<sp, TextPages>>].U = FALSE]
     /\ goto(p, "copyout0", [job[p] EXCEPT !.i = job[p].n - 1, !.z = job[p].n])
     /\ UNCHANGED <<freelist, refs, tab, leaves, procs>>

\* Commit to the new image, then proc_freepagetable() of the old one.
ExecCommit(p) ==
  /\ pc[p] = "commit"
  /\ cur' = [cur EXCEPT ![p] = 1 - @]
  /\ sz' = [sz EXCEPT ![p] = job[p].z]
  /\ goto(p, "free", [job[p] EXCEPT !.sp = Mine(p), !.i = 0, !.n = sz[p]])
  /\ UNCHANGED <<kmem, pagetables, tf, state, parent, wait_lock>>

-----------------------------------------------------------------------------
(* exit() and wait(). *)

\* exit() of initproc is a panic; its children go to initproc otherwise.
Exit(p) ==
  /\ state[p] = "RUNNING" /\ pc[p] \in {"user", "exit"}
  /\ p # InitProc /\ wait_lock = NULL
  /\ parent' = [c \in Procs |-> IF parent[c] = p THEN InitProc ELSE parent[c]]
  /\ state' = [state EXCEPT ![p] = "ZOMBIE"]
  /\ ret(p)
  /\ UNCHANGED <<kmem, pagetables, tf, cur, sz, wait_lock>>

\* wait() finds a zombie child; with addr # 0 it first copies out the status.
Wait(p, c) ==
  /\ Running(p) /\ wait_lock = NULL
  /\ parent[c] = p /\ state[c] = "ZOMBIE"
  /\ wait_lock' = p
  /\ \/ goto(p, "freetf", [NoJob EXCEPT !.sp = Mine(c), !.ch = c])
     \/ \E va \in VA, len \in 1 .. MaxCopy, v \in Vals :
          /\ Spans(p, va, len)
          /\ goto(p, "copyout0", [NoJob EXCEPT !.sp = Mine(p), !.i = va,
                                  !.n = va + len, !.ch = c, !.v = v])
  /\ UNCHANGED <<kmem, pagetables, tf, cur, sz, state, parent>>

-----------------------------------------------------------------------------
\* The kernel as userinit() leaves it: initproc has one page, initcode's.
boot == CHOOSE f \in [1 .. 4 + MaxKernel -> Pages] :
          \A i, j \in 1 .. 4 + MaxKernel : f[i] = f[j] => i = j

Init ==
  /\ \E k \in 0 .. MaxKernel : kernel = {boot[i] : i \in 5 .. 4 + k}
  /\ freelist = Pages \ (kernel \cup {boot[i] : i \in 1 .. 4})
  /\ refs = [pa \in Pages |-> IF pa \in freelist THEN 0 ELSE 1]
  /\ mem = [pa \in Pages |-> IF pa = boot[1] THEN Zero ELSE Junk]
  /\ pte = [s \in Slots |->
              IF s = <<<<InitProc, 0>>, 0>>
              THEN [pa |-> boot[1], W |-> TRUE, U |-> TRUE, COW |-> FALSE]
              ELSE NoPte]
  /\ tab = [sp \in Spaces |->
              IF sp = <<InitProc, 0>> THEN {boot[2], boot[3]} ELSE {}]
  /\ leaves = [sp \in Spaces |-> IF sp = <<InitProc, 0>> THEN {0} ELSE {}]
  /\ tf = [p \in Procs |-> IF p = InitProc THEN boot[4] ELSE NULL]
  /\ cur = [p \in Procs |-> 0]
  /\ sz = [p \in Procs |-> IF p = InitProc THEN 1 ELSE 0]
  /\ state = [p \in Procs |-> IF p = InitProc THEN "RUNNING" ELSE "UNUSED"]
  /\ parent = [p \in Procs |-> NULL]
  /\ wait_lock = NULL
  /\ pc = [p \in Procs |-> "user"]
  /\ job = [p \in Procs |-> NoJob]

\* exit() called for initproc: panic("init exiting") stops the machine.
Halted == pc[InitProc] = "exit"

Step(p) ==
  \/ \E c \in Procs : ForkAlloc(p, c) \/ Wait(p, c)
  \/ ForkPagetable(p) \/ ForkMap(p) \/ ForkIncRef(p) \/ ForkDone(p)
  \/ Unmap(p) \/ Unmapped(p) \/ FreeTrapframe(p) \/ FreeWalk(p) \/ Freed(p)
  \/ \E va \in VA : StoreFault(p, va)
  \/ \E va \in VA, v \in Vals :
        Store(p, va, v) \/ \E len \in 1 .. MaxCopy : CopyOut(p, va, len, v)
  \/ FreeReplaced(p)
  \/ CopyOutFirst(p) \/ CopyOutPage(p) \/ CopyOutDone(p)
  \/ \E newsz \in 0 .. NPg : Sbrk(p, newsz)
  \/ UvmAlloc(p) \/ UvmMap(p) \/ GrowDone(p)
  \/ \E v \in Vals, w \in BOOLEAN : ExecPagetable(p, v, w)
  \/ ExecBad(p) \/ ExecLoaded(p) \/ ExecCommit(p)
  \/ Exit(p)

Next ==
  \/ ~Halted /\ UNCHANGED kernel /\ \E p \in Procs : Step(p)
  \/ Halted /\ UNCHANGED vars

Spec == Init /\ [][Next]_vars

-----------------------------------------------------------------------------
Labels == {"user", "pagetable", "fork", "incref", "forkerr", "dealloc", "free",
           "freetf", "freewalk", "kfree", "exit", "copyout0", "copyout",
           "alloc", "map", "commit"}

\* Every variable has its type; in particular no reference count is negative.
TypeOK ==
  /\ freelist \in SUBSET Pages /\ kernel \in SUBSET Pages
  /\ refs \in [Pages -> Nat]
  /\ mem \in [Pages -> Vals \cup {Junk}]
  /\ pte \in [Slots -> PTE]
  /\ tab \in [Spaces -> SUBSET Pages]
  /\ leaves \in [Spaces -> SUBSET (0 .. NPg - 1)]
  /\ tf \in [Procs -> Pages \cup {NULL}]
  /\ cur \in [Procs -> {0, 1}]
  /\ sz \in [Procs -> 0 .. NPg]
  /\ state \in [Procs -> {"UNUSED", "USED", "RUNNING", "ZOMBIE"}]
  /\ parent \in [Procs -> Procs \cup {NULL}]
  /\ wait_lock \in Procs \cup {NULL}
  /\ pc \in [Procs -> Labels]
  /\ job \in [Procs -> Job]

\* The references that exist to page pa: user PTEs (but not the one fork() has
\* written and not counted yet), page tables, trapframes, pages held by a
\* system call in progress, pages the kernel keeps.
Uncounted(s) == \E p \in Procs : pc[p] = "incref" /\ s = At(p)
UserRefs(pa) == {s \in Slots : pte[s].pa = pa /\ ~Uncounted(s)}
TabRefs(pa) == {sp \in Spaces : pa \in tab[sp]}
TfRefs(pa) == {p \in Procs : tf[p] = pa}
HeldRefs(pa) == {p \in Procs : job[p].held = pa}

\* refs[] (kalloc.c) counts exactly the references that exist, and a page is
\* on the freelist exactly when there is none.  freeproc() and exec() leave no
\* reference behind: an UNUSED slot and an address space that is not in use have
\* none, and the types hold.  So no page is lost or freed early however fork, faults, copyout, sbrk,
\* exec and wait interleave.
RefCountExact ==
  /\ TypeOK
  /\ \A pa \in Pages :
       /\ refs[pa] = Cardinality(UserRefs(pa)) + Cardinality(TabRefs(pa))
                     + Cardinality(TfRefs(pa)) + Cardinality(HeldRefs(pa))
                     + Cardinality(kernel \cap {pa})
       /\ pa \in freelist <=> refs[pa] = 0
  /\ \A p \in Procs :
       /\ state[p] = "UNUSED" =>
            tf[p] = NULL /\ \A b \in {0, 1} :
              tab[<<p, b>>] = {} /\ \A va \in VA : ~mapped(<<<<p, b>>, va>>)
       /\ pc[p] = "user" =>
            tab[Other(p)] = {} /\ \A va \in VA : ~mapped(<<Other(p), va>>)

\* The page p's next step gives to kfree().
Freeing(p, pa) ==
  \/ pc[p] = "kfree" /\ pa = job[p].held
  \/ /\ pc[p] \in {"dealloc", "forkerr", "free"} /\ job[p].i < job[p].n
     /\ pa = pte[At(p)].pa
  \/ pc[p] = "freetf" /\ pa = tf[job[p].ch]
  \/ pc[p] = "freewalk" /\ pa \in tab[job[p].sp]

\* No process is about to run into one of the panic()s of kalloc.c and vm.c:
\* "kfree: ref count is 0", "uvmunmap: not mapped", "uvmcopy: page not
\* present", "mappages: remap", "freewalk: leaf", and kalloc()'s "Allocating a
\* page that is already allocated".
NoPanic ==
  /\ \A pa \in freelist : refs[pa] = 0
  /\ \A p \in Procs :
       /\ \A pa \in Pages \cup {NULL} :
            Freeing(p, pa) => pa # NULL /\ refs[pa] > 0
       /\ pc[p] = "fork" /\ job[p].i < job[p].n =>
            mapped(<<Mine(p), job[p].i>>) /\ ~mapped(At(p))
       /\ pc[p] = "map" => ~mapped(At(p))
       /\ pc[p] = "freewalk" => \A va \in VA : ~mapped(<<job[p].sp, va>>)

\* Every process sees memory of its own (README.md: modifications are made to
\* the copy, "thus not affecting the other process").
PM == INSTANCE PrivateMemory WITH
  None <- NULL,
  view <- [p \in Procs |-> [va \in VA |->
             IF state[p] = "RUNNING" /\ mapped(<<Mine(p), va>>)
             THEN mem[pte[<<Mine(p), va>>].pa] ELSE NULL]]
MemoryIsPrivate == PM!Spec
=============================================================================
