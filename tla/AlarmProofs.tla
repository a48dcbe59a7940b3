---------------------------- MODULE AlarmProofs ----------------------------
(***************************************************************************)
(* Proofs about Alarm, for every bound.  The times that an alarm goes by    *)
(* are right whatever the process does; that the program resumes where the  *)
(* handler interrupted it needs that no process forks in its handler (the   *)
(* run alarm_fork shows what happens then).                                 *)
(***************************************************************************)
EXTENDS Alarm, TLAPS

\* In a build that yields at every timer interrupt, a process in user mode was
\* scheduled in this tick.  From the last alarm on, cpu is what timeRun advanced;
\* before the first alarm timeRun is more, after set_priority() less.
Times ==
  /\ ticks \in 0 .. MaxTicks /\ timeRun \in 0 .. ticks /\ lastScheduled \in 0 .. ticks
  /\ alarmFreq \in 0 .. MaxFreq /\ lastAlarm \in 0 .. ticks /\ cpu \in Nat
  /\ preemptive => lastScheduled = ticks
  /\ preemptive /\ alarmFreq > 0 /\ ~first => timeRun - lastAlarm <= cpu
  /\ preemptive /\ alarmFreq > 0 /\ ~reset => timeRun - lastAlarm >= cpu

\* The handler runs exactly while alarmRunning is set, and the backup page then
\* holds the context that the program had.
Handling ==
  /\ state \in {"USED", "UNUSED"}
  /\ regs \in Contexts /\ left \in Contexts /\ backupTrapFrame \in Contexts \cup {NULL}
  /\ state = "USED" =>
       /\ regs.at = "handler" <=> alarmRunning
       /\ alarmRunning => backupTrapFrame = left /\ left.at = "main"

Flags == {preemptive, alarmRunning, panicked, first, reset} \subseteq BOOLEAN

-----------------------------------------------------------------------------
\* The steps of the process.
LEMMA Steps ==
  ASSUME [Next]_vars
  PROVE  \/ UNCHANGED vars \/ TimerAlarm \/ Timer \/ TimerInKernel \/ Sleep \/ User
         \/ sigreturn \/ exit \/ fork
         \/ \E n \in 0 .. MaxFreq : sigalarm(n)
         \/ \E yields \in BOOLEAN : set_priority(yields)
BY Zenon DEF Next

\* What a tick does to the time of the process.
LEMMA TickTimes ==
  ASSUME Times, tickyield, UNCHANGED preemptive
  PROVE  /\ ticks' \in ticks + 1 .. MaxTicks
         /\ timeRun' \in 0 .. ticks' /\ lastScheduled' \in 0 .. ticks'
         /\ preemptive => lastScheduled' = ticks' /\ timeRun' = timeRun + 1
BY AlarmConstantsOK DEF Times, tickyield, AlarmConstantsOK

\* A process that starts has used no time.
LEMMA TimesInit == Init => Times
BY AlarmConstantsOK DEF Init, Times, AlarmConstantsOK

\* Only a tick, and set_priority(), change the time that the process has used.
LEMMA TimesNext == Times /\ [Next]_vars => Times'
<1> SUFFICES ASSUME Times, [Next]_vars PROVE Times'
  OBVIOUS
<1>1. CASE UNCHANGED vars
  BY <1>1 DEF Times, vars, time, alarm, ghosts
<1>2. CASE TimerAlarm
  <2>1. CASE tickyield /\ lastAlarm' = timeRun /\ cpu' = 1 /\ UNCHANGED <<preemptive, alarmFreq>>
    BY <2>1, TickTimes DEF Times
  <2>2. CASE UNCHANGED <<preemptive, alarmFreq, lastAlarm, time, ghosts>>
    BY <2>2 DEF Times, time, ghosts
  <2>3. QED
    BY <1>2, <2>1, <2>2 DEF TimerAlarm, stamp
<1>3. CASE Timer \/ TimerInKernel
  <2>1. /\ tickyield /\ cpu' = cpu + 1
        /\ UNCHANGED <<preemptive, alarmFreq, lastAlarm, first, reset>>
    BY <1>3 DEF Timer, TimerInKernel, alarm
  <2>2. QED
    BY <2>1, TickTimes DEF Times
<1>4. CASE Sleep
  BY <1>4, AlarmConstantsOK DEF Times, Sleep, alarm, ghosts, AlarmConstantsOK
<1>5. CASE User \/ sigreturn \/ exit
  BY <1>5 DEF Times, User, sigreturn, exit, time, alarm, ghosts
<1>6. CASE fork
  BY <1>6, AlarmConstantsOK DEF Times, fork, AlarmConstantsOK
<1>7. ASSUME NEW n \in 0 .. MaxFreq, sigalarm(n) PROVE Times'
  BY <1>7 DEF Times, sigalarm, time
<1>8. ASSUME NEW yields \in BOOLEAN, set_priority(yields) PROVE Times'
  BY <1>8 DEF Times, set_priority, alarm
<1>9. QED
  BY <1>1, <1>2, <1>3, <1>4, <1>5, <1>6, <1>7, <1>8, Steps

\* An alarm is neither early (but for the first one) nor late (but for
\* set_priority()), in builds that yield at timer interrupts.
THEOREM InTimeHolds == Spec => AlarmInTime
<1>1. Times /\ [Next]_vars =>
        [preemptive =>
           /\ delivered /\ ~first => cpu >= alarmFreq
           /\ /\ state = "USED" /\ state' = "USED" /\ ~panicked'
              /\ alarmFreq > 0 /\ ~alarmRunning /\ ~reset /\ cpu >= alarmFreq
              => ~Timer]_vars
  <2> SUFFICES ASSUME Times, preemptive
               PROVE  /\ delivered /\ ~first => cpu >= alarmFreq
                      /\ /\ alarmFreq > 0 /\ ~alarmRunning /\ ~reset /\ cpu >= alarmFreq
                         => ~Timer
    OBVIOUS
  <2>1. ASSUME delivered, ~first PROVE cpu >= alarmFreq
    <3>1. alarmFreq # 0 /\ timeRun - lastAlarm >= alarmFreq
      BY <2>1 DEF delivered, TimerAlarm, due
    <3>2. QED
      BY <2>1, <3>1 DEF Times
  <2>2. ASSUME alarmFreq > 0, ~alarmRunning, ~reset, cpu >= alarmFreq PROVE due
    BY <2>2, AlarmConstantsOK DEF Times, due, AlarmConstantsOK
  <2>3. QED
    BY <2>1, <2>2 DEF Timer
<1>2. QED
  BY TimesInit, TimesNext, <1>1, PTL DEF Spec, AlarmInTime
-----------------------------------------------------------------------------
\* The flags are Boolean.
LEMMA FlagsInit == Init => Flags
BY Zenon DEF Init, Flags

\* Every step leaves the flags Boolean.
LEMMA FlagsNext == Flags /\ [Next]_vars => Flags'
<1> SUFFICES ASSUME Flags, [Next]_vars PROVE Flags'
  OBVIOUS
<1> USE DEF Flags
<1>1. ASSUME UNCHANGED vars PROVE Flags'
  BY <1>1, Zenon DEF vars, alarm, ghosts
<1>2. ASSUME TimerAlarm PROVE Flags'
  BY <1>2, Zenon DEF TimerAlarm, ghosts
<1>3. ASSUME Timer \/ TimerInKernel PROVE Flags'
  BY <1>3, Zenon DEF Timer, TimerInKernel, alarm
<1>4. ASSUME Sleep \/ User \/ exit PROVE Flags'
  BY <1>4, Zenon DEF Sleep, User, exit, alarm, ghosts
<1>5. ASSUME sigreturn \/ fork PROVE Flags'
  BY <1>5, Zenon DEF sigreturn, fork, ghosts
<1>6. ASSUME NEW n \in 0 .. MaxFreq, sigalarm(n) PROVE Flags'
  BY <1>6, Zenon DEF sigalarm
<1>7. ASSUME NEW yields \in BOOLEAN, set_priority(yields) PROVE Flags'
  BY <1>7, Zenon DEF set_priority, alarm
<1>8. QED
  BY <1>1, <1>2, <1>3, <1>4, <1>5, <1>6, <1>7, Steps, Zenon

\* No alarm is running.
LEMMA HandlingInit == Init => Handling
BY AlarmConstantsOK DEF Init, Handling, Contexts, Start, NULL, AlarmConstantsOK

\* TimerAlarm saves the context before it changes it; sigreturn() ends the handler.
LEMMA HandlingNext == ~ForkInHandler /\ Flags /\ Handling /\ [Next]_vars => Handling'
<1> SUFFICES ASSUME ~ForkInHandler, Flags, Handling, [Next]_vars PROVE Handling'
  OBVIOUS
<1> USE AlarmConstantsOK DEF AlarmConstantsOK, Contexts
<1>1. CASE UNCHANGED vars
  BY <1>1 DEF Handling, vars, alarm, ghosts
<1>2. CASE TimerAlarm
  BY <1>2 DEF Handling, TimerAlarm, due, saved, ghosts
<1>3. CASE Timer \/ TimerInKernel \/ Sleep \/ exit
  BY <1>3 DEF Handling, Timer, TimerInKernel, Sleep, exit, alarm, ghosts
<1>4. CASE User
  BY <1>4 DEF Handling, User, alarm, ghosts
<1>5. CASE sigreturn
  BY <1>5 DEF Handling, sigreturn, ghosts
<1>6. CASE fork
  BY <1>6 DEF Handling, fork
<1>7. ASSUME NEW n \in 0 .. MaxFreq, sigalarm(n) PROVE Handling'
  BY <1>7 DEF Handling, sigalarm
<1>8. ASSUME NEW yields \in BOOLEAN, set_priority(yields) PROVE Handling'
  BY <1>8 DEF Handling, set_priority, alarm
<1>9. QED
  BY <1>1, <1>2, <1>3, <1>4, <1>5, <1>6, <1>7, <1>8, Steps

\* If no process forks in its handler, the variables have their types: in
\* particular sigreturn() never restores a context that was not saved.
THEOREM TypesHold == ~ForkInHandler => (Spec => []TypeOK)
<1> SUFFICES ASSUME ~ForkInHandler PROVE Spec => []TypeOK
  OBVIOUS
<1>1. Times /\ Flags /\ Handling => TypeOK
  BY DEF Times, Flags, Handling, TypeOK
<1>2. Flags /\ Handling /\ [Next]_vars => Handling'
  BY HandlingNext
<1>3. QED
  BY TimesInit, TimesNext, FlagsInit, FlagsNext, HandlingInit, <1>1, <1>2, PTL DEF Spec

\* If no process forks in its handler, the handler is never called while it runs,
\* and sigreturn() brings the program back with the registers it had.
THEOREM ResumeHolds == ~ForkInHandler => (Spec => ResumesWhereItLeft)
<1> SUFFICES ASSUME ~ForkInHandler PROVE Spec => ResumesWhereItLeft
  OBVIOUS
<1>1. Handling /\ [Next]_vars =>
        [/\ delivered => regs.at = "main"
         /\ sigreturn => regs' = left]_vars
  BY DEF Handling, delivered, TimerAlarm, due, sigreturn, Contexts
<1>2. Flags /\ Handling /\ [Next]_vars => Handling'
  BY HandlingNext
<1>3. QED
  BY FlagsInit, FlagsNext, HandlingInit, <1>1, <1>2, PTL DEF Spec, ResumesWhereItLeft
=============================================================================
