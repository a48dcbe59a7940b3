------------------------------- MODULE Alarm -------------------------------
(***************************************************************************)
(* sigalarm() and sigreturn() (sysproc.c), the delivery of alarms by       *)
(* usertrap() (trap.c) and the CPU time they go by (yield(), proc.c), for  *)
(* one process slot.  The process is in user mode between actions; an      *)
(* action is a trap from there to the return to user mode.  A program      *)
(* calls sigreturn() only at the end of its handler, and forks there only  *)
(* if ForkInHandler.  Variables cpu, first, reset and left only observe.   *)
(***************************************************************************)
EXTENDS Integers

CONSTANTS
  ForkInHandler,
  MaxFreq,      \* bound: alarm intervals
  MaxWait,      \* bound: ticks until the process is scheduled again
  MaxTicks,     \* bound on ticks
  Regs          \* bound: values of the user registers

ASSUME AlarmConstantsOK ==
  ForkInHandler \in BOOLEAN /\ {MaxFreq, MaxWait, MaxTicks, Regs} \subseteq Nat /\ Regs > 0

Contexts == [at : {"main", "handler"}, r : 0 .. Regs - 1]
Start == [at |-> "main", r |-> 0]
NULL == [at |-> "null", r |-> 0]

VARIABLES
  preemptive,                                   \* the build yields on timer
                                                \* interrupts: not FCFS, not PBS
  ticks,
  state,                                        \* "USED" or "UNUSED"
  regs,                                         \* user pc and registers
  timeRun, lastScheduled,                       \* struct proc
  alarmFreq, lastAlarm, alarmRunning, backupTrapFrame,
  panicked,
  cpu,      \* CPU ticks used since the last alarm, or since sigalarm()
  first,    \* no alarm since sigalarm()
  reset,    \* set_priority() since the last alarm or sigalarm()
  left      \* the user context when the handler was called

alarm == <<alarmFreq, lastAlarm, alarmRunning, backupTrapFrame>>
time == <<ticks, timeRun, lastScheduled>>
ghosts == <<cpu, first, reset, left>>
vars == <<preemptive, state, regs, time, alarm, panicked, ghosts>>

\* The tick and, in a preemptive build, yield(): the time since the process was
\* scheduled is charged, and the process waits for its turn.
tickyield ==
  \/ /\ preemptive
     /\ timeRun' = timeRun + (ticks + 1 - lastScheduled)
     /\ ticks' \in ticks + 1 .. ticks + 1 + MaxWait
     /\ ticks' <= MaxTicks
     /\ lastScheduled' = ticks'
  \/ /\ ~preemptive /\ ticks < MaxTicks
     /\ ticks' = ticks + 1
     /\ UNCHANGED <<timeRun, lastScheduled>>

\* Mutant of due: one tick more than the interval.
due_late == alarmFreq # 0 /\ ~alarmRunning /\ timeRun - lastAlarm > alarmFreq

due == alarmFreq # 0 /\ ~alarmRunning /\ timeRun - lastAlarm >= alarmFreq

\* Mutant of saved: the context is saved after epc was changed.
saved_late == [regs EXCEPT !.at = "handler"]

\* What the backup page gets.
saved == regs

stamp == timeRun

\* usertrap() for a timer interrupt, when an alarm is due.  kalloc() is not
\* checked: without memory the memmove() faults.
TimerAlarm ==
  /\ state = "USED" /\ due
  /\ \/ /\ backupTrapFrame' = saved
        /\ alarmRunning' = TRUE
        /\ lastAlarm' = stamp
        /\ regs' = [regs EXCEPT !.at = "handler"]
        /\ tickyield
        /\ cpu' = 1 /\ first' = FALSE /\ reset' = FALSE /\ left' = regs
        /\ UNCHANGED panicked
     \/ /\ panicked' = TRUE
        /\ UNCHANGED <<backupTrapFrame, alarmRunning, lastAlarm, regs, time, ghosts>>
  /\ UNCHANGED <<preemptive, state, alarmFreq>>

\* usertrap() for a timer interrupt otherwise.
Timer ==
  /\ state = "USED" /\ ~due
  /\ tickyield
  /\ cpu' = cpu + 1
  /\ UNCHANGED <<preemptive, state, regs, alarm, panicked, first, reset, left>>

\* A timer interrupt in a system call: kerneltrap() delivers no alarm.
TimerInKernel ==
  /\ state = "USED"
  /\ tickyield
  /\ cpu' = cpu + 1
  /\ UNCHANGED <<preemptive, state, regs, alarm, panicked, first, reset, left>>

\* A system call that sleeps: no run time is charged.
Sleep ==
  /\ state = "USED"
  /\ ticks' \in ticks .. ticks + MaxWait /\ ticks' <= MaxTicks
  /\ lastScheduled' = ticks'
  /\ UNCHANGED <<preemptive, state, regs, timeRun, alarm, panicked, ghosts>>

\* The program goes on.
User ==
  /\ state = "USED"
  /\ regs' = [regs EXCEPT !.r = (@ + 1) % Regs]
  /\ UNCHANGED <<preemptive, state, time, alarm, panicked, ghosts>>

-----------------------------------------------------------------------------
\* With an interval of 0, or a negative one, alarms end.
sigalarm(n) ==
  /\ state = "USED"
  /\ alarmFreq' = n
  /\ \/ n = 0 /\ UNCHANGED lastAlarm
     \/ n > 0 /\ lastAlarm' = 0
  /\ cpu' = 0 /\ first' = TRUE /\ reset' = FALSE
  /\ UNCHANGED <<preemptive, state, regs, time, alarmRunning, backupTrapFrame, panicked, left>>

\* The context is restored from the backup page and the page is freed, whether
\* there is one or not: a copy from address 0 faults.
sigreturn ==
  /\ state = "USED" /\ regs.at = "handler"
  /\ alarmRunning' = FALSE
  /\ regs' = backupTrapFrame
  /\ panicked' = (backupTrapFrame = NULL)
  /\ UNCHANGED <<preemptive, state, time, alarmFreq, lastAlarm, backupTrapFrame, ghosts>>

\* set_priority() of this process, by itself or by another one; if the new
\* value is lower, the caller yields.
set_priority(yields) ==
  /\ state = "USED"
  /\ timeRun' = IF yields THEN ticks - lastScheduled ELSE 0
  /\ lastScheduled' = IF yields THEN ticks ELSE lastScheduled
  /\ reset' = TRUE
  /\ UNCHANGED <<preemptive, ticks, state, regs, alarm, panicked, cpu, first, left>>

\* exit(), and wait() of the parent: freeproc().
exit ==
  /\ state = "USED"
  /\ state' = "UNUSED"
  /\ UNCHANGED <<preemptive, regs, time, alarm, panicked, ghosts>>

\* A process forks into the slot, with the registers of its parent, and gets
\* scheduled; left is the parent's.
fork ==
  /\ state = "UNUSED"
  /\ state' = "USED"
  /\ \E c \in Contexts : /\ c.at = "main" \/ ForkInHandler
                         /\ regs' = c
  /\ \E c \in Contexts : c.at = "main" /\ left' = c
  /\ timeRun' = 0 /\ lastScheduled' = ticks
  /\ alarmFreq' = 0 /\ lastAlarm' = 0 /\ alarmRunning' = FALSE
  /\ cpu' = 0 /\ first' = TRUE /\ reset' = FALSE
  /\ UNCHANGED <<preemptive, ticks, backupTrapFrame, panicked>>

-----------------------------------------------------------------------------
Init ==
  /\ ticks = 0 /\ state = "USED" /\ regs = Start
  /\ timeRun = 0 /\ lastScheduled = 0
  /\ alarmFreq = 0 /\ lastAlarm = 0 /\ alarmRunning = FALSE
  /\ preemptive \in BOOLEAN
  /\ backupTrapFrame = NULL /\ panicked = FALSE
  /\ cpu = 0 /\ first = TRUE /\ reset = FALSE /\ left = Start

Next ==
  \/ ~panicked /\ (\/ TimerAlarm \/ Timer \/ TimerInKernel \/ Sleep \/ User
                   \/ sigreturn \/ exit \/ fork
                   \/ \E n \in 0 .. MaxFreq : sigalarm(n)
                   \/ \E yields \in BOOLEAN : set_priority(yields))
  \/ panicked /\ UNCHANGED vars

Spec == Init /\ [][Next]_vars
-----------------------------------------------------------------------------
\* Every variable has its type; no run time is charged that did not pass.
TypeOK ==
  /\ ticks \in 0 .. MaxTicks /\ state \in {"USED", "UNUSED"}
  /\ regs \in Contexts /\ left \in Contexts /\ backupTrapFrame \in Contexts \cup {NULL}
  /\ timeRun \in 0 .. ticks /\ lastScheduled \in 0 .. ticks
  /\ alarmFreq \in 0 .. MaxFreq /\ lastAlarm \in 0 .. ticks
  /\ {preemptive, alarmRunning, panicked, first, reset} \subseteq BOOLEAN
  /\ cpu \in Nat

delivered == TimerAlarm /\ ~panicked'

\* The handler is called with the program at its own code, never while it runs,
\* and sigreturn() brings the program back with the registers it had then.
ResumesWhereItLeft ==
  [][/\ delivered => regs.at = "main"
     /\ sigreturn => regs' = left]_vars

\* In builds that yield at timer interrupts (yield() alone advances timeRun), two
\* alarms are at least the interval of CPU time apart, and an alarm comes with the
\* first timer interrupt in user mode after the interval.  Not claimed: the first
\* alarm is not early (sigalarm() starts counting at 0, not at timeRun), and none
\* is late after set_priority() (which sets the time of the process back).
AlarmInTime ==
  [][preemptive =>
       /\ delivered /\ ~first => cpu >= alarmFreq
       /\ /\ state = "USED" /\ state' = "USED" /\ ~panicked'
          /\ alarmFreq > 0 /\ ~alarmRunning /\ ~reset /\ cpu >= alarmFreq
          => ~Timer]_vars
=============================================================================
