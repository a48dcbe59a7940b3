-------------------------------- MODULE MCCow --------------------------------
(***************************************************************************)
(* CowMemory on small instances.  Pages are interchangeable, and so are    *)
(* the two address spaces of a process, so two states that differ only in  *)
(* which of them plays which part are explored once: UpToRenaming replaces *)
(* a page by what refers to it and an address space by whether it is       *)
(* p->pagetable.  (TypeOK is constantly true; evaluating it brings the     *)
(* values of all variables into the normal form in which TLC can write a   *)
(* state to disk.)                                                         *)
(***************************************************************************)
EXTENDS CowMemory

Role(sp) == <<sp[1], sp = Mine(sp[1])>>
Space(role) == IF role[2] THEN Mine(role[1]) ELSE Other(role[1])
Roles == Procs \X BOOLEAN

Page(pa) ==
  IF pa = NULL THEN <<>>
  ELSE <<{<<r, va>> \in Roles \X VA : pte[<<Space(r), va>>].pa = pa},
         {p \in Procs : job[p].held = pa}, refs[pa], mem[pa]>>

\* The locals that p's steps still use: a call that frees an address space is
\* done with the sizes and contents it worked on.
Locals(p) ==
  IF pc[p] = "user" THEN <<>>
  ELSE IF pc[p] \in {"freetf", "freewalk"} THEN <<Role(job[p].sp), job[p].ch>>
  ELSE IF pc[p] \in {"forkerr", "free"} THEN <<Role(job[p].sp), job[p].ch, job[p].i, job[p].n>>
  ELSE IF pc[p] = "commit" THEN <<job[p].z>>
  ELSE <<Role(job[p].sp), [job[p] EXCEPT !.held = NULL, !.sp = NoJob.sp,
                           !.w = @ /\ pc[p] \in {"alloc", "map"}]>>

UpToRenaming ==
  <<TypeOK,
    [r \in Roles |-> <<Cardinality(tab[Space(r)]), leaves[Space(r)],
       [va \in {w \in VA : mapped(<<Space(r), w>>)} |->
          LET e == pte[<<Space(r), va>>] IN <<e.W, e.U, e.COW, Page(e.pa)>>]>>],
    [p \in Procs |-> <<tf[p] = NULL, Page(job[p].held), Locals(p)>>],
    Cardinality(freelist), Cardinality(kernel), sz, state, parent, wait_lock, pc>>
=============================================================================
