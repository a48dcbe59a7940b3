------------------------------ MODULE MCFileSys ------------------------------
(* An instance of FileSys for TLC. *)
EXTENDS FileSys

CONSTANTS p1, p2, p3

rel(elems) == [abs |-> FALSE, elems |-> elems]
abs(elems) == [abs |-> TRUE, elems |-> elems]
open(path, mode) == [op |-> "open", path |-> path, mode |-> mode]
mkdir(path) == [op |-> "mkdir", path |-> path]
mknod(path, dev) == [op |-> "mknod", path |-> path, dev |-> dev]
link(path, new) == [op |-> "link", path |-> path, new |-> new]
unlink(path) == [op |-> "unlink", path |-> path]
chdir(path) == [op |-> "chdir", path |-> path]
io(op, fd, n) == [op |-> op, fd |-> fd, n |-> n]
fd(op, k) == [op |-> op, fd |-> k]
self(op) == [op |-> op]

a == rel(<<"a">>)
d == rel(<<"d">>)
dx == rel(<<"d", "x">>)

\* The mix where p, q and r make at most i, j and k of the calls P, Q and R.
with(first, P, Q, R, i, j, k) ==
  [files |-> <<[name |-> "a", size |-> 1]>>, procs |-> {p1, p2}, first |-> p1, setup |-> first,
   calls |-> (p1 :> P) @@ (p2 :> Q) @@ (p3 :> R),
   left |-> (p1 :> i) @@ (p2 :> j) @@ (p3 :> k)]

MCMixes == {
  \* names of one file come and go while it is opened
  with(<<>>, {unlink(a), link(a, rel(<<"b">>)), open(rel(<<"b">>), {"create"})},
       {open(a, {}), unlink(a), fd("close", 0), unlink(rel(<<"b">>))}, {}, 2, 3, 0),
  \* a directory is removed while it is used
  with(<<mkdir(d)>>, {unlink(d), unlink(dx), mkdir(dx), unlink(rel(<<".">>)), unlink(rel(<<"d", ".">>))},
       {chdir(d), open(dx, {"create"}), link(a, dx), chdir(rel(<<"..">>)), mkdir(rel(<<"x">>))}, {}, 2, 2, 0),
  \* descriptors that share an offset, and a truncation between two writes
  with(<<open(a, {"rdwr"})>>, {self("fork"), io("write", 0, 3), self("exit")},
       {open(a, {"wronly", "trunc"}), io("write", 0, 1)}, {io("write", 0, 3), io("read", 0, 2)}, 2, 2, 1),
  \* the disk fills up while a file and a directory grow
  with(<<open(a, {"rdwr"})>>, {io("write", 0, 5), io("write", 0, 2), fd("close", 0)},
       {mkdir(d), open(dx, {"create", "wronly"}), io("write", 0, 2), unlink(a)}, {}, 2, 3, 0),
  \* tables that are full, devices, paths from the root
  with(<<mknod(rel(<<"c">>), "dev")>>,
       {open(a, {}), fd("dup", 0), open(rel(<<"c">>), {}), fd("close", 0), io("fstat", 0, 0)},
       {open(a, {"create"}), mknod(rel(<<"e">>), "baddev"), open(abs(<<"e">>), {}), mkdir(a),
        link(abs(<<>>), d), link(a, abs(<<"c">>)), link(a, rel(<<"a", "b">>)), unlink(rel(<<>>)),
        chdir(a), chdir(rel(<<"f">>))}, {}, 3, 2, 0)
}

=============================================================================
