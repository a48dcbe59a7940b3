------------------------------- MODULE Sched -------------------------------
(***************************************************************************)
(* scheduler() in its five builds (RR, FCFS, LBS, PBS and MLFQ), the times *)
(* that the clock interrupt, sleep(), wakeup() and yield() account, and    *)
(* the calls that change what a build goes by (proc.c, trap.c, sysproc.c). *)
(* A step of scheduler() is what it does while it holds a p->lock, or all  *)
(* of them; in the MLFQ build, which the Makefile gives one CPU, it is a   *)
(* pass over the table.  Between the steps other CPUs and interrupts act.  *)
(* The first process does all the forking and waiting.  Variables seen,    *)
(* ran, passed and early only observe.                                     *)
(***************************************************************************)
EXTENDS Integers, FiniteSets, FiniteSetsExt

CONSTANTS
  NPROC,       \* slots of the process table
  CPUs, CPU0,  \* CPU0 handles the clock
  RAND,        \* values of rand()
  UintBits,    \* width of an unsigned int, 32 in the code
  LAST,        \* the bottom queue, 4 in the code
  RunLimit,    \* ticks that a process may run in each queue but the last
  AgeLimit,    \* ticks that a process waits in each queue but the first
  Mixes        \* bounds: the build, its CPUs, ticks, forks, sleeps
               \* and calls

ASSUME SchedConstantsOK ==
  /\ NPROC \in Nat \ {0} /\ CPU0 \in CPUs /\ RAND \in Nat \ {0} /\ UintBits \in Nat /\ LAST \in Nat \ {0}
  /\ RunLimit \in [0 .. LAST - 1 -> Nat \ {0}]
  /\ AgeLimit \in [1 .. LAST -> Nat \ {0}]

Slots == 1 .. NPROC
None == 0

VARIABLES
  ticks,
  proc,    \* the fields of struct proc that scheduling is about
  cpu,     \* where scheduler() is on each CPU, with its locals; "swtch" while a
           \* process runs, "timer" when it is about to yield
  clock,   \* the slot that clockintr() has come to, None outside of it
  mix,     \* the bounds of this behaviour
  seen,    \* since scheduler() of a CPU started over: the slots that stayed
           \* runnable, and whether its choice kept what it is ordered by
  ran,     \* ticks in which the process really ran in its queue
  passed,  \* times that another process got a CPU while this one was runnable
  early    \* processes created in the middle of clockintr()

vars == <<ticks, proc, cpu, clock, mix, seen, ran, passed, early>>

in(S) == {s \in Slots : proc[s].state \in S}
Runnable == in({"RUNNABLE"})
build == mix.build

\* The CPU's own code goes on: CPU0 is not in clockintr().
free(c) == c \in mix.cpus /\ (c = CPU0 => clock = None)
runs(c, s) == free(c) /\ cpu[c].at = "swtch" /\ cpu[c].slot = s

\* The observation after a step: the CPUs R start over, the slots K are reordered.
Observe(R, K) ==
  seen' = [c \in CPUs |->
             IF c \in R THEN [kept |-> TRUE, steady |-> Runnable']
             ELSE IF cpu'[c].slot # None THEN [kept |-> TRUE, steady |-> {}]
             ELSE [kept |-> seen[c].kept /\ cpu[c].best \notin K,
                   steady |-> (seen[c].steady \ K) \cap Runnable']]

-----------------------------------------------------------------------------
\* getDP()
getDP(s) == Max({0, Min({100, proc[s].priority - proc[s].niceness + 5})})

\* Mutant of before: the later one.
before_late(r, s) == proc[r].createTime > proc[s].createTime

\* Is r chosen rather than s?
before(r, s) ==
  LET p == proc[r]
      q == proc[s]
  IN CASE build = "FCFS" -> p.createTime < q.createTime
       [] build = "PBS" ->
            \/ getDP(r) < getDP(s)
            \/ getDP(r) = getDP(s) /\ p.timesScheduled < q.timesScheduled
            \/ getDP(r) = getDP(s) /\ p.timesScheduled = q.timesScheduled
                 /\ p.createTime < q.createTime
       [] build = "MLFQ" ->
            p.queue < q.queue \/ (p.queue = q.queue /\ p.entryTime < q.entryTime)

top == [at |-> IF build = "MLFQ" THEN "demote" ELSE "scan", i |-> 1, best |-> None, slot |-> None]

\* The process s gets CPU c.
dispatch(c, s) ==
  /\ proc' = [proc EXCEPT ![s].state = "RUNNING",
                          ![s].lastScheduled = IF cpu[c].at = "rr" THEN @ ELSE ticks,
                          ![s].timesScheduled = IF build = "PBS" THEN @ + 1 ELSE @]
  /\ cpu' = [cpu EXCEPT ![c] = [at |-> "swtch", slot |-> s, best |-> None,
                                i |-> IF build = "RR" \/ @.at = "rr" THEN @.i ELSE NPROC]]
  /\ passed' = [r \in Slots |-> IF r \in Runnable \ {s} /\ build = "RR" THEN passed[r] + 1 ELSE 0]
  /\ Observe({}, IF build = "PBS" THEN {s} ELSE {})

startover(c) ==
  /\ cpu' = [cpu EXCEPT ![c] = top]
  /\ UNCHANGED <<proc, passed>>
  /\ Observe({c}, {})

\* RR: one slot after the other gets the CPU.
ScanRR(c) ==
  LET i == cpu[c].i
  IN /\ free(c) /\ build = "RR" /\ cpu[c].at = "scan"
     /\ \/ i \in Runnable /\ dispatch(c, i)
        \/ i \in Slots \ Runnable /\ i < NPROC
             /\ cpu' = [cpu EXCEPT ![c].i = i + 1] /\ UNCHANGED <<proc, passed, seen>>
        \/ i \in Slots \ Runnable /\ i = NPROC /\ startover(c)
     /\ UNCHANGED <<ticks, clock, mix, ran, early>>

\* FCFS, PBS: the best one so far; its fields are read without its lock.
ScanBest(c) ==
  LET i == cpu[c].i
      best == cpu[c].best
  IN /\ free(c) /\ build \in {"FCFS", "PBS"} /\ cpu[c].at = "scan"
     /\ cpu' = [cpu EXCEPT ![c].best = IF i \in Runnable /\ (best = None \/ before(i, best))
                                       THEN i ELSE best,
                           ![c].i = i + 1,
                           ![c].at = IF i = NPROC THEN "chosen" ELSE "scan"]
     /\ UNCHANGED <<ticks, proc, clock, mix, seen, ran, passed, early>>

\* The choice is locked again, and runs if it still can.
RunBest(c) ==
  LET s == cpu[c].best
  IN /\ free(c) /\ cpu[c].at = "chosen"
     /\ \/ s \in Runnable /\ dispatch(c, s)
        \/ s \notin Runnable /\ startover(c)
     /\ UNCHANGED <<ticks, clock, mix, ran, early>>

\* LBS: the tickets of the runnable processes up to slot s, with all locks held.
tickets(s) == MapThenSumSet(LAMBDA r : proc[r].tickets, {r \in Runnable : r <= s})
totalTickets == tickets(NPROC)

\* Mutant of winner: the ticket numbers start from 1.
winner_from_one(random) ==
  LET behind == {s \in Runnable : random <= tickets(s)} IN IF behind = {} THEN None ELSE Min(behind)

winner(random) ==
  LET behind == {s \in Runnable : random < tickets(s)} IN IF behind = {} THEN None ELSE Min(behind)

\* rand() % totalTickets; the remainder by 0 is the dividend on this CPU.
draw(r) == IF totalTickets = 0 THEN r ELSE r % totalTickets

Lottery(c) ==
  /\ free(c) /\ build = "LBS" /\ cpu[c].at = "scan"
  /\ \E r \in 0 .. RAND - 1 :
       IF winner(draw(r)) = None THEN startover(c) ELSE dispatch(c, winner(draw(r)))
  /\ UNCHANGED <<ticks, clock, mix, ran, early>>

-----------------------------------------------------------------------------
\* MLFQ: the slots move by one queue, down or up.
move(S, by) ==
  /\ proc' = [s \in Slots |->
                IF s \in S THEN [proc[s] EXCEPT !.queue = @ + by, !.entryTime = ticks,
                                                !.timeRanInQueue = 0]
                ELSE proc[s]]
  /\ ran' = [s \in Slots |-> IF s \in S THEN 0 ELSE ran[s]]

\* A process that used up its time moves down.
Demote(c) ==
  /\ free(c) /\ cpu[c].at = "demote"
  /\ move({s \in in({"RUNNABLE", "RUNNING"}) :
             proc[s].queue < LAST /\ proc[s].timeRanInQueue >= RunLimit[proc[s].queue]}, 1)
  /\ cpu' = [cpu EXCEPT ![c].at = "age"]
  /\ UNCHANGED <<ticks, clock, mix, seen, passed, early>>

\* The ticks a process has spent in its queue without running.
waitTime(s) == ticks - proc[s].entryTime - proc[s].timeRanInQueue

\* Mutant of old: one tick later.
old_off_by_one == {s \in in({"RUNNABLE", "SLEEPING"}) :
                     proc[s].queue > 0 /\ waitTime(s) > AgeLimit[proc[s].queue]}

old == {s \in in({"RUNNABLE", "SLEEPING"}) :
          proc[s].queue > 0 /\ waitTime(s) >= AgeLimit[proc[s].queue]}

\* age(): a process that waited too long moves up.
age(c) ==
  /\ free(c) /\ cpu[c].at = "age"
  /\ move(old, -1)
  /\ cpu' = [cpu EXCEPT ![c].at = "scan", ![c].i = 0]
  /\ UNCHANGED <<ticks, clock, mix, seen, passed, early>>

\* Queue i is searched for the process that entered it first; if none but the
\* last has a process the round-robin pass starts.
ScanQueue(c) ==
  LET i == cpu[c].i
      Here == {s \in Runnable : proc[s].queue = i}
      first == Min({s \in Here : \A r \in Here : ~before(r, s)})
  IN /\ free(c) /\ build = "MLFQ" /\ cpu[c].at = "scan"
     /\ cpu' = [cpu EXCEPT ![c] =
                  IF Here # {} THEN [@ EXCEPT !.best = first, !.at = "chosen"]
                  ELSE IF i + 1 < LAST THEN [@ EXCEPT !.i = i + 1]
                  ELSE [@ EXCEPT !.i = 1, !.at = "rr"]]
     /\ UNCHANGED <<ticks, proc, clock, mix, seen, ran, passed, early>>

\* The round-robin pass over the last queue does not set lastScheduled.
RoundRobin(c) ==
  LET i == cpu[c].i
      Here == {s \in Runnable : proc[s].queue = LAST}
  IN /\ free(c) /\ cpu[c].at = "rr"
     /\ \/ i \in Here /\ dispatch(c, i)
        \/ i \in Slots \ Here /\ i < NPROC
             /\ cpu' = [cpu EXCEPT ![c].i = i + 1] /\ UNCHANGED <<proc, passed, seen>>
        \/ i \in Slots \ Here /\ i = NPROC /\ startover(c)
     /\ UNCHANGED <<ticks, clock, mix, ran, early>>

\* Mutant of back: the pass starts over after every process.
back_to_top(c) == top

\* Where scheduler() goes on after swtch(): with the next slot of a round-robin
\* pass, or from the top.
back(c) ==
  IF cpu[c].i < NPROC
  THEN [at |-> IF build = "RR" THEN "scan" ELSE "rr", i |-> cpu[c].i + 1, best |-> None,
        slot |-> None]
  ELSE top

\* The process on c has set its state and called sched().
sched(c) ==
  /\ cpu' = [cpu EXCEPT ![c] = back(c)]
  /\ Observe({c}, {})

-----------------------------------------------------------------------------
niceness(p) ==
  IF p.timeSlept + p.timeRun = 0 THEN p.niceness
  ELSE (10 * p.timeSlept) \div (p.timeSlept + p.timeRun)

\* Mutant of yielded: the time since the process last slept is charged.
yielded_since_slept(p) ==
  LET t == ticks - p.lastSlept
      q == [p EXCEPT !.state = "RUNNABLE", !.timeRun = @ + t, !.timeRanInQueue = @ + t]
  IN [q EXCEPT !.niceness = niceness(q)]

yielded(p) ==
  LET t == ticks - p.lastScheduled
      q == [p EXCEPT !.state = "RUNNABLE", !.timeRun = @ + t, !.timeRanInQueue = @ + t]
  IN [q EXCEPT !.niceness = niceness(q)]

\* yield() on a timer interrupt, which the FCFS and PBS builds leave out.
preemptive == build \notin {"FCFS", "PBS"}
Yield(c) ==
  LET s == cpu[c].slot
  IN /\ free(c) /\ preemptive
     /\ \/ cpu[c].at = "timer"
        \/ cpu[c].at = "swtch" /\ c # CPU0
     /\ proc' = [proc EXCEPT ![s] = yielded(@)]
     /\ sched(c)
     /\ UNCHANGED <<ticks, clock, mix, ran, passed, early>>

\* sleep() for the next tick, and wait() of the first process for a child.
Sleep(c, chan) ==
  LET s == cpu[c].slot
  IN /\ runs(c, s) /\ mix.sleeps > 0
     /\ mix' = [mix EXCEPT !.sleeps = @ - 1]
     /\ IF chan = "ticks" THEN clock = None
        ELSE s = 1 /\ in({"ZOMBIE"}) = {} /\ in({"UNUSED"}) # Slots \ {1}
     /\ proc' = [proc EXCEPT ![s].state = "SLEEPING", ![s].chan = chan, ![s].lastSlept = ticks]
     /\ sched(c)
     /\ UNCHANGED <<ticks, clock, ran, passed, early>>

woken(p) ==
  LET q == [p EXCEPT !.state = "RUNNABLE", !.timeSlept = @ + ticks - p.lastSlept, !.lastSlept = -1,
                       !.chan = "none"]
  IN [q EXCEPT !.niceness = niceness(q)]
wakeup(P, chan) ==
  [s \in Slots |-> IF P[s].state = "SLEEPING" /\ P[s].chan = chan THEN woken(P[s]) ELSE P[s]]

\* exit() of a child: the parent may be in wait().
Exit(c) ==
  LET s == cpu[c].slot
  IN /\ runs(c, s) /\ s # 1
     /\ proc' = [wakeup(proc, "wait") EXCEPT ![s].state = "ZOMBIE", ![s].etime = ticks]
     /\ sched(c)
     /\ UNCHANGED <<ticks, clock, mix, ran, passed, early>>

\* What waitx() reports of a child as its waiting time, an unsigned number.
wtime(p) == (p.etime - p.createTime - p.rtime) % 2^UintBits

waitx(c, s) ==
  /\ runs(c, 1) /\ proc[s].state = "ZOMBIE"
  /\ proc' = [proc EXCEPT ![s].state = "UNUSED"]
  /\ UNCHANGED <<ticks, cpu, clock, mix, ran, passed, early>>
  /\ Observe({}, {})

\* A process of allocproc() that the fork has made runnable.
new(parent) ==
  [state |-> "RUNNABLE", chan |-> "none", createTime |-> ticks, priority |-> 60,
   timesScheduled |-> 0, niceness |-> 5, tickets |-> parent.tickets, lastSlept |-> -1,
   lastScheduled |-> 0, timeSlept |-> 0, timeRun |-> 0, rtime |-> 0, etime |-> 0,
   queue |-> 0, entryTime |-> ticks, timeRanInQueue |-> 0]

Fork(c) ==
  LET s == Min(in({"UNUSED"}))
  IN /\ runs(c, 1) /\ in({"UNUSED"}) # {} /\ mix.forks > 0 /\ s <= mix.slots
     /\ mix' = [mix EXCEPT !.forks = @ - 1]
     /\ proc' = [proc EXCEPT ![s] = new(proc[1])]
     /\ early' = IF clock \in 1 .. s THEN early \cup {s} ELSE early \ {s}
     /\ ran' = [ran EXCEPT ![s] = 0]
     /\ UNCHANGED <<ticks, cpu, clock, passed>>
     /\ Observe({}, {s})

-----------------------------------------------------------------------------
settickets(c, n) ==
  LET s == cpu[c].slot
  IN /\ runs(c, s) /\ mix.calls > 0 /\ n >= 1
     /\ mix' = [mix EXCEPT !.calls = @ - 1]
     /\ proc' = [proc EXCEPT ![s].tickets = n]
     /\ UNCHANGED <<ticks, cpu, clock, seen, ran, passed, early>>

\* set_priority() of r by the process s; it yields if the priority was raised.
set_priority(c, r, n) ==
  LET s == cpu[c].slot
      P == [proc EXCEPT ![r].priority = n, ![r].niceness = 5, ![r].timeRun = 0, ![r].timeSlept = 0]
  IN /\ runs(c, s) /\ mix.calls > 0 /\ r \notin in({"UNUSED"})
     /\ mix' = [mix EXCEPT !.calls = @ - 1]
     /\ IF proc[r].priority > n
        THEN /\ proc' = [P EXCEPT ![s] = yielded(@)]
             /\ cpu' = [cpu EXCEPT ![c] = back(c)]
             /\ Observe({c}, {r})
        ELSE proc' = P /\ UNCHANGED cpu /\ Observe({}, {r})
     /\ UNCHANGED <<ticks, clock, ran, passed, early>>

-----------------------------------------------------------------------------
\* clockintr(), with tickslock held: a tick, update_time(), wakeup(&ticks).  What
\* ran on CPU0 then yields.
Tick ==
  /\ clock = None /\ ticks < mix.ticks /\ cpu[CPU0].at # "timer"
  /\ ticks' = ticks + 1 /\ clock' = 1
  /\ UNCHANGED <<proc, cpu, mix, seen, ran, passed, early>>

update_time ==
  /\ clock \in Slots
  /\ LET up == IF proc[clock].state = "RUNNING" THEN 1 ELSE 0
     IN /\ proc' = [proc EXCEPT ![clock].rtime = @ + up]
        /\ ran' = [ran EXCEPT ![clock] = @ + up]
  /\ clock' = clock + 1
  /\ UNCHANGED <<ticks, cpu, mix, seen, passed, early>>

clockdone ==
  /\ clock = NPROC + 1
  /\ proc' = wakeup(proc, "ticks")
  /\ cpu' = IF preemptive /\ cpu[CPU0].at = "swtch" THEN [cpu EXCEPT ![CPU0].at = "timer"] ELSE cpu
  /\ clock' = None
  /\ Observe({}, {})
  /\ UNCHANGED <<ticks, mix, ran, passed, early>>

-----------------------------------------------------------------------------
\* userinit()
Init ==
  /\ mix \in Mixes
  /\ ticks = 0 /\ clock = None /\ early = {}
  /\ LET unused == [new([tickets |-> 1]) EXCEPT !.state = "UNUSED"]
     IN proc = [s \in Slots |-> IF s = 1 THEN new([tickets |-> 1]) ELSE unused]
  /\ cpu = [c \in CPUs |-> top]
  /\ seen = [c \in CPUs |-> [kept |-> TRUE, steady |-> {1}]]
  /\ ran = [s \in Slots |-> 0] /\ passed = [s \in Slots |-> 0]

Schedule(c) ==
  \/ ScanRR(c) \/ ScanBest(c) \/ RunBest(c) \/ Lottery(c)
  \/ Demote(c) \/ age(c) \/ ScanQueue(c) \/ RoundRobin(c)

Process(c) ==
  \/ Yield(c) \/ Sleep(c, "ticks") \/ Sleep(c, "wait") \/ Exit(c) \/ Fork(c)
  \/ \E s \in Slots : waitx(c, s)
  \/ \E n \in mix.tickets : settickets(c, n)
  \/ \E s \in Slots, n \in mix.priorities : set_priority(c, s, n)

Next == Tick \/ update_time \/ clockdone \/ \E c \in CPUs : Schedule(c) \/ Process(c)

Spec == Init /\ [][Next]_vars
-----------------------------------------------------------------------------
\* Every variable has its type; a process is running exactly on the CPU that
\* switched to it.
TypeOK ==
  /\ ticks \in Nat /\ clock \in 0 .. NPROC + 1
  /\ \A s \in Slots :
       /\ proc[s].state \in {"UNUSED", "RUNNABLE", "RUNNING", "SLEEPING", "ZOMBIE"}
       /\ proc[s].queue \in 0 .. LAST /\ proc[s].niceness \in 0 .. 10
       /\ proc[s].state = "RUNNING" <=> \E c \in CPUs : cpu[c].slot = s
  /\ \A c \in CPUs : cpu[c].at \in {"scan", "chosen", "demote", "age", "rr", "swtch", "timer"}
  /\ \A c, b \in CPUs : c # b /\ cpu[c].slot # None => cpu[c].slot # cpu[b].slot

\* FCFS, PBS and MLFQ (but for the last queue): whatever other CPUs and
\* interrupts did since scheduler() started to look, a process gets the CPU only
\* if none that was runnable all that time comes before it.  The exception is in
\* the code: the best one so far is compared without its lock and only looked at
\* again for its state, so it may have been ordered anew by another CPU, or its
\* slot may have a new process.
BestChosen ==
  [][\A c \in CPUs, s \in Slots :
       /\ build \in {"FCFS", "PBS", "MLFQ"} /\ cpu[c].at # "rr"
       /\ cpu[c].slot = None /\ cpu'[c].slot = s /\ seen[c].kept
       => \A r \in seen[c].steady : ~before(r, s)]_vars

\* LBS: every value of rand() has a winner, and a process wins for as many of the
\* values as its tickets are of all tickets, up to one round of them.
LotteryFair ==
  build = "LBS" /\ Runnable # {} =>
    \A s \in Runnable :
      LET wins == Cardinality({r \in 0 .. RAND - 1 : winner(draw(r)) = s})
          rounds == RAND \div totalTickets
      IN rounds * proc[s].tickets <= wins /\ wins <= (rounds + 1) * proc[s].tickets

\* RR: while a process is runnable, every CPU gives itself to each other process
\* at most once before it comes to this one.
BoundedBypass == \A s \in Slots : passed[s] <= Cardinality(mix.cpus) * (NPROC - 1)

\* The types hold, a process runs on one CPU only, and the times that the builds
\* and waitx() go by are right.  timeRun and timeSlept,
\* from which niceness is computed, do not overlap: together they are no more than
\* the process has lived.  (Not claimed of MLFQ, whose round-robin pass does not set
\* lastScheduled.)  The waiting time of waitx() is never negative, which would wrap
\* around.  (But for a child forked, run and ended on another CPU between ticks++
\* and update_time().)  And in every MLFQ queue but the last, timeRanInQueue is the
\* number of ticks in which the process ran since it entered its queue.
TimesExact ==
  TypeOK /\ \A s \in Slots :
    /\ build # "MLFQ" /\ proc[s].state # "UNUSED" =>
         proc[s].timeRun + proc[s].timeSlept <= ticks - proc[s].createTime
    /\ proc[s].state = "ZOMBIE" /\ s \notin early =>
         wtime(proc[s]) + proc[s].rtime = proc[s].etime - proc[s].createTime
    /\ build = "MLFQ" /\ proc[s].state # "RUNNING" /\ proc[s].queue < LAST =>
         proc[s].timeRanInQueue = ran[s]

\* What s really waited in its queue.
Waited(s) == ticks - proc[s].entryTime - ran[s]

\* MLFQ: after age(), no process is still in its queue that waited its limit
\* there.  (Claimed of the queues in which the run time is exact.)
AgedByWaiting ==
  [][cpu[CPU0].at = "age" /\ cpu'[CPU0].at = "scan" =>
       \A s \in Slots : proc[s].state \in {"RUNNABLE", "SLEEPING"}
                        /\ proc'[s].queue \in 1 .. LAST - 1
                        => Waited(s)' < AgeLimit[proc'[s].queue]]_vars
=============================================================================
