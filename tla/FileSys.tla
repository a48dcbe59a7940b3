------------------------------ MODULE FileSys ------------------------------
(***************************************************************************)
(* The file system calls (sysfile.c), path names (namex() in fs.c) and the *)
(* file table (file.c) over the inodes of Inodes and an image of Mkfs.     *)
(* A step is what a call does between two operations on locks: what it     *)
(* changes then belongs to inodes it has locked, or is protected by the    *)
(* lock of a table or a buffer.  dp and ip are the locals of the calls, 0  *)
(* when they hold no reference; an inode that is to be released by iput()  *)
(* or iunlockput() before the call goes on, or returns, is in puts.        *)
(* begin_op() and end_op() are in Log.                                     *)
(***************************************************************************)
EXTENDS Mkfs

CONSTANTS
  Procs, NFILE, NOFILE,
  MAXWRITE,        \* units that filewrite() writes in one transaction
  Mixes            \* bounds: the image, the calls that set a tree up, the calls of each
                   \* process and how many of them it makes

VARIABLES
  fs,              \* blocks and inodes
  file,            \* ftable
  proc,            \* p->cwd and p->ofile
  at,              \* where p is in a call, and the locals of the call
  mix, setup,      \* the bounds of this behaviour, and what is left of the set-up
  lost             \* inodes named in, or by, a directory that was already removed, or
                   \* whose last reference iput() dropped without a look at them

vars == <<fs, file, proc, at, mix, setup, lost>>

Files == 1 .. NFILE
Fds == 0 .. NOFILE - 1
alive(p) == proc[p].cwd # 0
quiet(p) == at[p].pc = "idle" /\ at[p].puts = <<>>
ready(p, label) == at[p].pc = label /\ at[p].puts = <<>> /\ ~fs.panic

\* The sleep-lock of entry s is free.
unlocked(s) == fs.inode[s].lock = NULL

\* p goes on at the label with the locals dp and ip when `puts' are released.
goto(p, label, dp, ip, puts) ==
  at' = [at EXCEPT ![p].pc = label, ![p].dp = dp, ![p].ip = ip, ![p].puts = puts]
Idle == [pc |-> "idle", call |-> [op |-> "none"], path |-> <<>>, dp |-> 0, ip |-> 0,
         puts |-> <<>>, freeing |-> "no", file |-> 0, todo |-> 0]
return(p, puts) == at' = [at EXCEPT ![p] = [Idle EXCEPT !.puts = puts]]

-----------------------------------------------------------------------------
\* iput() of the first of puts, after iunlock() if p has it locked.
Unlock(p) ==
  LET s == Head(at[p].puts)
  IN /\ at[p].puts # <<>> /\ at[p].freeing = "no" /\ fs.inode[s].lock = p /\ ~fs.panic
     /\ fs' = iunlock(fs, s)
     /\ UNCHANGED <<file, proc, at, mix, setup, lost>>

\* Mutant of last: the links are not looked at.
last_linked(ip) == ip.ref = 1 /\ ip.valid

last(ip) == ip.ref = 1 /\ ip.valid /\ ip.nlink = 0

drop(F, s) == [F EXCEPT !.inode[s].ref = @ - 1]

Put(p) ==
  LET s == Head(at[p].puts)
  IN /\ at[p].puts # <<>> /\ at[p].freeing = "no" /\ fs.inode[s].lock # p /\ ~fs.panic
     /\ IF last(fs.inode[s])
        THEN /\ unlocked(s)
             /\ fs' = [fs EXCEPT !.inode[s].lock = p]
             /\ at' = [at EXCEPT ![p].freeing = "locked"]
        ELSE /\ fs' = drop(fs, s)
             /\ at' = [at EXCEPT ![p].puts = Tail(@)]
     /\ UNCHANGED <<file, proc, mix, setup, lost>>

\* itable.lock is released while the inode is truncated and freed.
PutFree(p) ==
  /\ at[p].freeing = "locked" /\ ~fs.panic
  /\ fs' = ifree(fs, Head(at[p].puts))
  /\ at' = [at EXCEPT ![p].freeing = "freed"]
  /\ UNCHANGED <<file, proc, mix, setup, lost>>

\* ip->ref is decremented whatever has become of the entry in the meantime: the
\* inode may have been allocated again, and unlinked again while ref was 2.
PutFreed(p) ==
  LET s == Head(at[p].puts)
      i == fs.inode[s].inum
      dropped == fs.inode[s].ref = 1 /\ fs.dinode[i].type # "none" /\ fs.dinode[i].nlink = 0
  IN /\ at[p].freeing = "freed" /\ ~fs.panic
     /\ fs' = drop(fs, s)
     /\ at' = [at EXCEPT ![p].puts = Tail(@), ![p].freeing = "no"]
     /\ lost' = IF dropped THEN lost \cup {i} ELSE lost
     /\ UNCHANGED <<file, proc, mix, setup>>

-----------------------------------------------------------------------------
\* A call is one of the set-up, then one of the mix.
mayCall(p, c) ==
  /\ alive(p) /\ ready(p, "idle")
  /\ IF setup # <<>>
     THEN p = mix.first /\ c = Head(setup) /\ setup' = Tail(setup) /\ UNCHANGED mix
     ELSE /\ c \in mix.calls[p] /\ mix.left[p] > 0 /\ UNCHANGED setup
          /\ mix' = [mix EXCEPT !.left[p] = @ - 1]

\* namex() starts at the root or at the current directory.
start(F, path, p) ==
  IF path.abs THEN iget(F, ROOTINO) ELSE [fs |-> idup(F, proc[p].cwd), slot |-> proc[p].cwd]

PathCalls == {"open", "mkdir", "mknod", "link", "unlink", "chdir"}

PathCall(p, c) ==
  LET g == start(fs, c.path, p)
  IN /\ c.op \in PathCalls /\ mayCall(p, c)
     /\ fs' = g.fs
     /\ at' = [at EXCEPT ![p].pc = "walk", ![p].call = c, ![p].path = c.path.elems,
                         ![p].dp = g.slot]
     /\ UNCHANGED <<file, proc, lost>>

\* nameiparent() or namei()?  link() has found its first inode when ip is set.
creates(c) == c.op \in {"mkdir", "mknod"} \/ (c.op = "open" /\ "create" \in c.mode)
parent(p) ==
  LET c == at[p].call IN creates(c) \/ c.op = "unlink" \/ (c.op = "link" /\ at[p].ip # 0)

\* Where the call goes on when its path is resolved, or cannot be.
found(p) ==
  LET c == at[p].call
  IN IF creates(c) THEN "create" ELSE IF parent(p) /\ c.op = "link" THEN "linkdir" ELSE c.op
WalkFails(p, puts) ==
  IF at[p].call.op = "link" /\ at[p].ip # 0
  THEN goto(p, "linkbad", 0, at[p].ip, puts) ELSE return(p, puts)

\* One iteration of namex(), or its end.
Walk(p) ==
  LET s == at[p].dp
      path == at[p].path
      L == ilock(fs, s, p)
      off == dirlookup(L, s, Head(path))
      g == iget(L, unit(L, s, off).num)
  IN /\ ready(p, "walk")
     /\ \/ /\ path = <<>> /\ UNCHANGED fs
           /\ IF parent(p) THEN WalkFails(p, <<s>>) ELSE goto(p, found(p), 0, s, <<>>)
        \/ /\ path # <<>> /\ unlocked(s) /\ L.inode[s].type # "dir"
           /\ fs' = L
           /\ WalkFails(p, <<s>>)
        \/ /\ path # <<>> /\ unlocked(s) /\ L.inode[s].type = "dir"
           /\ parent(p) /\ Len(path) = 1
           /\ fs' = iunlock(L, s)
           /\ goto(p, found(p), s, at[p].ip, <<>>)
        \/ /\ path # <<>> /\ unlocked(s) /\ L.inode[s].type = "dir"
           /\ ~(parent(p) /\ Len(path) = 1)
           /\ IF off = -1
              THEN fs' = L /\ WalkFails(p, <<s>>)
              ELSE /\ fs' = g.fs
                   /\ at' = [at EXCEPT ![p].dp = g.slot, ![p].path = Tail(@), ![p].puts = <<s>>]
     /\ UNCHANGED <<file, proc, mix, setup, lost>>

-----------------------------------------------------------------------------
\* sys_link(): one more link of ip, then its entry in the new parent.
Link(p) ==
  LET s == at[p].ip
      L == ilock(fs, s, p)
      U == iunlock(iupdate([L EXCEPT !.inode[s].nlink = @ + 1], s), s)
      g == start(U, at[p].call.new, p)
  IN /\ ready(p, "link") /\ unlocked(s)
     /\ IF L.inode[s].type = "dir"
        THEN fs' = L /\ return(p, <<s>>)
        ELSE /\ fs' = g.fs
             /\ at' = [at EXCEPT ![p].pc = "walk", ![p].path = at[p].call.new.elems,
                                 ![p].dp = g.slot]
     /\ UNCHANGED <<file, proc, mix, setup, lost>>

\* Inodes that a name in the removed directory s loses, for the properties.
loses(F, s, t) == IF F.inode[s].nlink = 0 THEN {F.inode[s].inum, F.inode[t].inum} ELSE {}

LinkDir(p) ==
  LET s == at[p].dp
      L == ilock(fs, s, p)
      d == dirlink(L, s, Head(at[p].path), fs.inode[at[p].ip].inum)
  IN /\ ready(p, "linkdir") /\ unlocked(s)
     /\ fs' = d.fs
     /\ IF d.ok THEN return(p, <<s, at[p].ip>>) ELSE goto(p, "linkbad", 0, at[p].ip, <<s>>)
     /\ lost' = IF d.ok THEN lost \cup loses(L, s, at[p].ip) ELSE lost
     /\ UNCHANGED <<file, proc, mix, setup>>

LinkBad(p) ==
  LET s == at[p].ip
      L == ilock(fs, s, p)
  IN /\ ready(p, "linkbad") /\ unlocked(s)
     /\ fs' = iupdate([L EXCEPT !.inode[s].nlink = @ - 1], s)
     /\ return(p, <<s>>)
     /\ UNCHANGED <<file, proc, mix, setup, lost>>

-----------------------------------------------------------------------------
\* Mutant of isdot: only ".." is refused.
isdot_parent(name) == name = ".."

isdot(name) == name \in {".", ".."}

\* sys_unlink(): dp is locked, then ip.
Unlink(p) ==
  LET s == at[p].dp
      name == Head(at[p].path)
      L == ilock(fs, s, p)
      off == dirlookup(L, s, name)
      g == iget(L, unit(L, s, off).num)
  IN /\ ready(p, "unlink") /\ unlocked(s)
     /\ IF isdot(name) \/ off = -1
        THEN fs' = L /\ return(p, <<s>>)
        ELSE fs' = g.fs /\ goto(p, "unlinkip", s, g.slot, <<>>)
     /\ UNCHANGED <<file, proc, mix, setup, lost>>

UnlinkIp(p) ==
  LET s == at[p].dp
      t == at[p].ip
      L == ilock(fs, t, p)
      off == dirlookup(L, s, Head(at[p].path))
      W == writei(L, s, off, <<Zero>>, 1)
      isdir == L.inode[t].type = "dir"
      D == IF isdir THEN iupdate([W.fs EXCEPT !.inode[s].nlink = @ - 1], s) ELSE W.fs
  IN /\ ready(p, "unlinkip") /\ unlocked(t)
     /\ IF isdir /\ ~isdirempty(L, t)
        THEN fs' = L /\ return(p, <<t, s>>)
        ELSE /\ fs' = [D EXCEPT !.panic = @ \/ W.n # 1 \/ L.inode[t].nlink < 1]
             /\ goto(p, "unlinked", 0, t, <<s>>)
     /\ UNCHANGED <<file, proc, mix, setup, lost>>

\* dp is released; ip, still locked, has one link less.
Unlinked(p) ==
  LET t == at[p].ip
  IN /\ ready(p, "unlinked")
     /\ fs' = iupdate([fs EXCEPT !.inode[t].nlink = @ - 1], t)
     /\ return(p, <<t>>)
     /\ UNCHANGED <<file, proc, mix, setup, lost>>

-----------------------------------------------------------------------------
newtype(c) == CASE c.op = "mkdir" -> "dir" [] c.op = "mknod" -> c.dev [] OTHER -> "file"

\* create() with dp locked: the name exists, or an inode is allocated for it.
Create(p) ==
  LET s == at[p].dp
      L == ilock(fs, s, p)
      off == dirlookup(L, s, Head(at[p].path))
      g == IF off = -1 THEN ialloc(L, newtype(at[p].call)) ELSE iget(L, unit(L, s, off).num)
  IN /\ ready(p, "create") /\ unlocked(s)
     /\ fs' = g.fs
     /\ CASE off # -1 -> goto(p, "createold", 0, g.slot, <<s>>)
          [] off = -1 /\ g.slot = 0 -> return(p, <<s>>)
          [] OTHER -> goto(p, "createnew", s, g.slot, <<>>)
     /\ UNCHANGED <<file, proc, mix, setup, lost>>

CreateOld(p) ==
  LET t == at[p].ip
      L == ilock(fs, t, p)
  IN /\ ready(p, "createold") /\ unlocked(t)
     /\ fs' = L
     /\ IF at[p].call.op = "open" /\ L.inode[t].type # "dir"
        THEN goto(p, "opened", 0, t, <<>>) ELSE return(p, <<t>>)
     /\ UNCHANGED <<file, proc, mix, setup, lost>>

\* "something went wrong. de-allocate ip."
undo(F, t) == iupdate([F EXCEPT !.inode[t].nlink = 0], t)

\* One more entry, if the ones before could be made.
andlink(d, s, name, inum) == IF d.ok THEN dirlink(d.fs, s, name, inum) ELSE d

\* The entries of a new inode t, a directory has two of its own.
entries(F, s, t, isdir, name) ==
  LET num(k) == F.inode[k].inum
      new == [fs |-> F, ok |-> TRUE]
      dots == IF isdir THEN andlink(andlink(new, t, ".", num(t)), t, "..", num(s)) ELSE new
  IN andlink(dots, s, name, num(t))

\* create() after the last dirlink().
Created(p, s, t, d, isdir) ==
  /\ fs' = IF ~d.ok THEN undo(d.fs, t)
           ELSE IF isdir THEN iupdate([d.fs EXCEPT !.inode[s].nlink = @ + 1], s) ELSE d.fs
  /\ CASE ~d.ok -> return(p, <<t, s>>)
       [] d.ok /\ at[p].call.op = "open" -> goto(p, "opened", 0, t, <<s>>)
       [] OTHER -> return(p, <<s, t>>)
  /\ lost' = IF d.ok THEN lost \cup loses(d.fs, s, t) ELSE lost

CreateNew(p) ==
  LET s == at[p].dp
      t == at[p].ip
      isdir == at[p].call.op = "mkdir"
      L == iupdate([ilock(fs, t, p) EXCEPT !.inode[t].nlink = 1], t)
  IN /\ ready(p, "createnew") /\ unlocked(t)
     /\ Created(p, s, t, entries(L, s, t, isdir, Head(at[p].path)), isdir)
     /\ UNCHANGED <<file, proc, mix, setup>>

-----------------------------------------------------------------------------
\* sys_open() without O_CREATE.
Open(p) ==
  LET t == at[p].ip
      L == ilock(fs, t, p)
  IN /\ ready(p, "open") /\ unlocked(t)
     /\ fs' = L
     /\ IF L.inode[t].type = "dir" /\ at[p].call.mode # {}
        THEN return(p, <<t>>) ELSE goto(p, "opened", 0, t, <<>>)
     /\ UNCHANGED <<file, proc, mix, setup, lost>>

\* filealloc() and fdalloc().
freefiles == {f \in Files : file[f].ref = 0}
freefds(p) == {fd \in Fds : proc[p].ofile[fd] = 0}

\* sys_open() with ip locked.
Opened(p) ==
  LET t == at[p].ip
      c == at[p].call
      type == fs.inode[t].type
      f == Min(freefiles)
      fd == Min(freefds(p))
      T == IF "trunc" \in c.mode /\ type = "file" THEN itrunc(fs, t) ELSE fs
  IN /\ ready(p, "opened")
     /\ IF type = "baddev" \/ freefiles = {} \/ freefds(p) = {}
        THEN return(p, <<t>>) /\ UNCHANGED <<fs, file, proc>>
        ELSE /\ fs' = iunlock(T, t)
             /\ file' = [file EXCEPT ![f] = [ref |-> 1, ip |-> t, off |-> 0,
                                             type |-> IF type = "dev" THEN "dev" ELSE "inode",
                                             readable |-> "wronly" \notin c.mode,
                                             writable |-> c.mode \cap {"wronly", "rdwr"} # {}]]
             /\ proc' = [proc EXCEPT ![p].ofile[fd] = f]
             /\ return(p, <<>>)
     /\ UNCHANGED <<mix, setup, lost>>

\* sys_chdir()
Chdir(p) ==
  LET t == at[p].ip
      L == ilock(fs, t, p)
  IN /\ ready(p, "chdir") /\ unlocked(t)
     /\ IF L.inode[t].type # "dir"
        THEN fs' = L /\ return(p, <<t>>) /\ UNCHANGED proc
        ELSE /\ fs' = iunlock(L, t)
             /\ return(p, <<proc[p].cwd>>)
             /\ proc' = [proc EXCEPT ![p].cwd = t]
     /\ UNCHANGED <<file, mix, setup, lost>>

-----------------------------------------------------------------------------
\* fileclose(): the file table without one reference to f, and the inode that
\* is then put, if it was the last one.
\* Mutant of unref: the entry is freed with any reference to it.
unref_all(f) == [file EXCEPT ![f].ref = 0, ![f].type = "none"]

unref(f) == [file EXCEPT ![f].ref = @ - 1, ![f].type = IF file[f].ref = 1 THEN "none" ELSE @]
closed(f) == IF file[f].ref = 1 THEN <<file[f].ip>> ELSE <<>>

\* The calls with a descriptor: argfd() finds f.
FdCall(p, c, f) ==
  c.fd \in Fds /\ proc[p].ofile[c.fd] = f /\ f # 0 /\ mayCall(p, c)

Close(p, c, f) ==
  /\ c.op = "close" /\ FdCall(p, c, f)
  /\ proc' = [proc EXCEPT ![p].ofile[c.fd] = 0]
  /\ file' = unref(f)
  /\ return(p, closed(f))
  /\ UNCHANGED <<fs, lost>>

Dup(p, c, f) ==
  /\ c.op = "dup" /\ FdCall(p, c, f)
  /\ IF freefds(p) = {} THEN UNCHANGED <<file, proc>>
     ELSE /\ proc' = [proc EXCEPT ![p].ofile[Min(freefds(p))] = f]
          /\ file' = [file EXCEPT ![f].ref = @ + 1]
  /\ UNCHANGED <<fs, at, lost>>

\* read() and write() of an inode, a device is in Console; fstat().
Io(p, c, f) ==
  /\ c.op \in {"read", "write", "fstat"} /\ FdCall(p, c, f)
  /\ c.op # "fstat" => file[f].type = "inode"
  /\ c.op = "read" => file[f].readable
  /\ c.op = "write" => file[f].writable
  /\ at' = [at EXCEPT ![p].pc = c.op, ![p].call = c, ![p].file = f, ![p].todo = c.n]
  /\ UNCHANGED <<fs, file, proc, lost>>

\* filestat()
Fstat(p) ==
  LET t == file[at[p].file].ip
  IN /\ ready(p, "fstat") /\ unlocked(t)
     /\ fs' = iunlock(ilock(fs, t, p), t)
     /\ return(p, <<>>)
     /\ UNCHANGED <<file, proc, mix, setup, lost>>

\* fileread(): either_copyout() may fail.
Read(p) ==
  LET f == at[p].file
      t == file[f].ip
      L == ilock(fs, t, p)
      r == Min({at[p].todo, L.inode[t].size - file[f].off})
  IN /\ ready(p, "read") /\ unlocked(t)
     /\ fs' = iunlock(L, t)
     /\ \/ r > 0 /\ file' = [file EXCEPT ![f].off = @ + r]
        \/ UNCHANGED file
     /\ return(p, <<>>)
     /\ UNCHANGED <<proc, mix, setup, lost>>

\* One transaction of filewrite(); either_copyin() may fail at a block.
Write(p) ==
  LET f == at[p].file
      t == file[f].ip
      n1 == Min({at[p].todo, MAXWRITE})
      off == file[f].off
  IN /\ ready(p, "write") /\ unlocked(t) /\ n1 > 0
     /\ \E copied \in {k \in 0 .. n1 : k \in {0, n1} \/ (off + k) % BSIZE = 0} :
          LET w == writei(ilock(fs, t, p), t, off, [k \in 1 .. n1 |-> Zero], copied)
          IN /\ fs' = iunlock(w.fs, t)
             /\ file' = IF w.n > 0 THEN [file EXCEPT ![f].off = @ + w.n] ELSE file
             /\ IF w.n = n1 THEN at' = [at EXCEPT ![p].todo = @ - n1] ELSE return(p, <<>>)
     /\ UNCHANGED <<proc, mix, setup, lost>>

Written(p) ==
  /\ ready(p, "write") /\ at[p].todo = 0
  /\ return(p, <<>>)
  /\ UNCHANGED <<fs, file, proc, mix, setup, lost>>

-----------------------------------------------------------------------------
\* fork() duplicates the open files and the current directory.
Fork(p, c, q) ==
  LET n(f) == Cardinality({fd \in Fds : proc[p].ofile[fd] = f})
  IN /\ c.op = "fork" /\ mayCall(p, c)
     /\ ~alive(q) /\ quiet(q)
     /\ file' = [f \in Files |-> [file[f] EXCEPT !.ref = @ + n(f)]]
     /\ fs' = idup(fs, proc[p].cwd)
     /\ proc' = [proc EXCEPT ![q] = proc[p]]
     /\ UNCHANGED <<at, lost>>

\* exit() closes the files one by one, then puts the current directory.
Exit(p, c) ==
  /\ c.op = "exit" /\ mayCall(p, c)
  /\ at' = [at EXCEPT ![p].pc = "exit"]
  /\ UNCHANGED <<fs, file, proc, lost>>

ExitClose(p) ==
  LET fd == Min(Fds \ freefds(p))
      f == proc[p].ofile[fd]
  IN /\ ready(p, "exit")
     /\ IF freefds(p) # Fds
        THEN /\ file' = unref(f)
             /\ proc' = [proc EXCEPT ![p].ofile[fd] = 0]
             /\ goto(p, "exit", 0, 0, closed(f))
        ELSE /\ proc' = [proc EXCEPT ![p].cwd = 0]
             /\ return(p, <<proc[p].cwd>>)
             /\ UNCHANGED file
     /\ UNCHANGED <<fs, mix, setup, lost>>

-----------------------------------------------------------------------------
\* The image of mkfs, and the processes of the mix with the root as their
\* current directory, which the first entry of the table holds.
Init ==
  /\ mix \in Mixes
  /\ setup = mix.setup /\ lost = {}
  /\ LET image == mkfs(mix.files)
         root == image.dinode[ROOTINO]
     IN fs = [used |-> image.used, data |-> image.data, dinode |-> image.dinode, panic |-> FALSE,
              inode |-> [s \in Slots |->
                IF s = 1
                THEN [inum |-> ROOTINO, ref |-> Cardinality(mix.procs), valid |-> TRUE,
                      lock |-> NULL, type |-> "dir", nlink |-> root.nlink, size |-> root.size,
                      addrs |-> root.addrs]
                ELSE [inum |-> 0, ref |-> 0, valid |-> FALSE, lock |-> NULL, type |-> "none",
                      nlink |-> 0, size |-> 0, addrs |-> NoAddrs]]]
  /\ file = [f \in Files |-> [ref |-> 0, ip |-> 0, off |-> 0, type |-> "none",
                              readable |-> FALSE, writable |-> FALSE]]
  /\ proc = [p \in Procs |-> [cwd |-> IF p \in mix.procs THEN 1 ELSE 0,
                              ofile |-> [fd \in Fds |-> 0]]]
  /\ at = [p \in Procs |-> Idle]

Call(p, c) ==
  \/ PathCall(p, c) \/ Exit(p, c)
  \/ \E q \in Procs : Fork(p, c, q)
  \/ \E f \in Files : Close(p, c, f) \/ Dup(p, c, f) \/ Io(p, c, f)

Proceed(p) ==
  \/ Unlock(p) \/ Put(p) \/ PutFree(p) \/ PutFreed(p) \/ Walk(p)
  \/ Link(p) \/ LinkDir(p) \/ LinkBad(p)
  \/ Unlink(p) \/ UnlinkIp(p) \/ Unlinked(p)
  \/ Create(p) \/ CreateOld(p) \/ CreateNew(p)
  \/ Open(p) \/ Opened(p) \/ Chdir(p)
  \/ Fstat(p) \/ Read(p) \/ Write(p) \/ Written(p) \/ ExitClose(p)

\* The processes have made their calls, or the kernel has panicked.
Done == fs.panic \/ (\A p \in Procs : quiet(p))

Next ==
  \/ \E p \in Procs : Proceed(p) \/ \E c \in mix.calls[p] \cup Range(setup) : Call(p, c)
  \/ Done /\ UNCHANGED vars

Spec == Init /\ [][Next]_vars
-----------------------------------------------------------------------------
\* Every variable has its type; no count is negative and no block out of range.
TypeOK ==
  /\ fs.used \subseteq 0 .. FSSIZE - 1 /\ fs.panic \in BOOLEAN
  /\ \A s \in Slots :
       /\ fs.inode[s].inum \in Inums \cup {0} /\ fs.inode[s].ref \in Nat
       /\ fs.inode[s].lock \in Procs \cup {NULL} /\ fs.inode[s].nlink \in Nat
       /\ fs.inode[s].size \in 0 .. MAXFILE * BSIZE
       /\ \A k \in 0 .. NDIRECT : fs.inode[s].addrs[k] \in 0 .. FSSIZE - 1
  /\ \A f \in Files : file[f].ref \in Nat /\ file[f].ip \in Slots \cup {0}
  /\ \A p \in Procs :
       /\ proc[p].cwd \in Slots \cup {0} /\ proc[p].ofile \in [Fds -> Files \cup {0}]
       /\ at[p].dp \in Slots \cup {0} /\ at[p].ip \in Slots \cup {0}
       /\ at[p].puts \in Seq(Slots)
  /\ lost \subseteq Inums

\* Everybody who has a pointer to entry s.
Pointers(s) ==
  Cardinality({p \in Procs : proc[p].cwd = s}) + Cardinality({p \in Procs : at[p].dp = s})
  + Cardinality({p \in Procs : at[p].ip = s})
  + Cardinality({f \in Files : file[f].ref > 0 /\ file[f].ip = s})
  + Cardinality({<<p, k>> \in Procs \X (1 .. 3) : k <= Len(at[p].puts) /\ at[p].puts[k] = s})

\* The counts are exact at every moment, whatever calls are in progress: ip->ref
\* "tracks the number of in-memory pointers to the entry", f->ref the number of
\* descriptors; no inode is in the table twice, and the types hold.
RefsExact ==
  /\ TypeOK
  /\ \A s \in Slots : fs.inode[s].ref = Pointers(s)
  /\ \A f \in Files :
       file[f].ref = Cardinality({<<p, fd>> \in Procs \X Fds : proc[p].ofile[fd] = f})
  /\ \A s, t \in Slots :
       s # t /\ fs.inode[s].ref > 0 /\ fs.inode[t].ref > 0 => fs.inode[s].inum # fs.inode[t].inum

\* The inode that p waits to lock.
wants(p) ==
  CASE at[p].puts # <<>> -> 0
    [] at[p].pc \in {"walk", "linkdir", "unlink", "create"} -> at[p].dp
    [] at[p].pc \in {"read", "write", "fstat"} -> file[at[p].file].ip
    [] at[p].pc \in {"opened", "unlinked"} -> 0
    [] OTHER -> at[p].ip

\* unlink() and create() lock an inode while they hold its parent: no processes
\* wait for each other's inodes in a circle, and none for its own.  And iput(),
\* which holds itable.lock, never waits: "ip->ref == 1 means no other process can
\* have ip locked, so this acquiresleep() won't block (or deadlock)".
NoLockCycle ==
  /\ \A S \in SUBSET Procs \ {{}} :
       \E p \in S : wants(p) = 0 \/ fs.inode[wants(p)].lock \notin S
  /\ \A p \in Procs :
       at[p].puts # <<>> /\ at[p].freeing = "no" /\ last(fs.inode[Head(at[p].puts)])
         => fs.inode[Head(at[p].puts)].lock \in {NULL, p}

\* No two files share a block, and the bitmap marks the blocks of inodes and the
\* metadata and nothing else: no step of a call loses a block or frees it twice.
\* No block below the size of an inode is missing, also after writes that were cut
\* short: readi(), which fileread() calls outside a transaction, allocates nothing.
now(i) ==
  LET here == {s \in Slots : fs.inode[s].ref > 0 /\ fs.inode[s].inum = i /\ fs.inode[s].valid}
  IN IF here = {} THEN fs.dinode[i] ELSE fs.inode[Min(here)]
held(i) ==
  LET addrs == now(i).addrs
  IN Cardinality({k \in 0 .. NDIRECT : addrs[k] # 0})
     + IF addrs[NDIRECT] = 0 THEN 0
       ELSE Cardinality({k \in 0 .. NINDIRECT - 1 : fs.data[addrs[NDIRECT]][k].num # 0})
BlocksExact ==
  /\ fs.used = 0 .. nmeta - 1 \cup UNION {BlocksOf(fs, now(i).addrs) : i \in Inums}
  /\ Cardinality(fs.used) = nmeta + MapThenSumSet(held, Inums)
  /\ \A i \in Inums : \A off \in 0 .. now(i).size - 1 :
       addrOf(fs, now(i).addrs, off \div BSIZE) # 0

\* The inodes in memory and on disk agree whenever a call is at a lock: iupdate()
\* is "called after every change to an ip->xxx field that lives on disk".
CacheWritten ==
  \A s \in Slots :
    fs.inode[s].ref > 0 /\ fs.inode[s].valid => dinodeOf(fs.inode[s]) = fs.dinode[fs.inode[s].inum]

Quiet == \A p \in Procs : quiet(p)
Dirs == {i \in Inums : fs.dinode[i].type = "dir" /\ fs.dinode[i].nlink > 0}
entry(i, off) == readi(fs, fs.dinode[i].addrs, off)
Entries(i) == {off \in 0 .. fs.dinode[i].size - 1 : entry(i, off).num # 0}

\* The links to inode i: its names, and the ".." of its subdirectories.
Links(i) ==
  Cardinality({<<d, off>> \in Dirs \X (0 .. MAXFILE * BSIZE) :
                 /\ off \in Entries(d) /\ entry(d, off).num = i
                 /\ entry(d, off).name # "." /\ (entry(d, off).name = ".." => d # ROOTINO)})
  + IF i = ROOTINO THEN 1 ELSE 0

\* When no call is in progress, also after calls that failed half-way (this is the
\* disk that a crash leaves): the link count of every inode is the number of its
\* links, every name leads to an inode that is allocated, and an inode without a
\* link is free, or open, or a current directory.  The exceptions are in the code:
\* create() and link() may enter a name in a directory that was removed after
\* nameiparent() found it, or is a removed current directory; and iput() releases
\* its locks before it drops the reference, see PutFreed().
LinksExact ==
  Quiet => \A i \in Inums \ lost : fs.dinode[i].type # "none" =>
    /\ fs.dinode[i].nlink = Links(i)
    /\ i \in Dirs => \A off \in Entries(i) : fs.dinode[entry(i, off).num].type # "none"
    /\ fs.dinode[i].nlink = 0 => \E s \in Slots : fs.inode[s].ref > 0 /\ fs.inode[s].inum = i

\* The kernel does not panic in the file system.  The exception is in the code: a
\* removed directory that is still a current directory keeps its "..", which may
\* lead to an inode that has been freed since ("ilock: no type").
NoPanic ==
  fs.panic => \E s \in Slots :
    /\ fs.inode[s].ref > 0 /\ fs.inode[s].valid
    /\ fs.inode[s].type = "dir" /\ fs.inode[s].nlink = 0
=============================================================================
