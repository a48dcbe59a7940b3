------------------------------- MODULE MCSched -------------------------------
EXTENDS Sched

CONSTANTS c1, c2

\* Limits in the proportions of the code's: a process may run longer the lower
\* its queue, and waits longer the higher.
RunLimits == [q \in 0 .. LAST - 1 |-> 2^q]
AgeLimits == [q \in 1 .. LAST |-> LAST + 2 - q]

with(b, cpus, slots, t, f, z, n, P, T) ==
  [build |-> b, cpus |-> cpus, slots |-> slots, ticks |-> t, forks |-> f, sleeps |-> z,
   calls |-> n, priorities |-> P, tickets |-> T]

MCMixes == {
  with("RR", {c1, c2}, 3, 2, 3, 2, 0, {}, {}),
  with("FCFS", {c1, c2}, 3, 1, 3, 1, 0, {}, {}),
  with("LBS", {c1, c2}, 3, 1, 2, 1, 2, {}, {1, 3, 7}),
  with("PBS", {c1, c2}, 3, 1, 2, 1, 1, {0, 100}, {}),
  with("MLFQ", {c1}, 2, 6, 1, 2, 0, {}, {}) }

\* What each build goes by and the properties say of it, in the used slots.
fields(p) ==
  CASE build = "RR" -> <<p.state, p.chan>>
    [] build = "FCFS" -> <<p.state, p.chan, p.createTime, p.rtime, p.etime>>
    [] build = "LBS" -> <<p.state, p.chan, p.tickets>>
    [] build = "PBS" -> <<p.state, p.chan, p.createTime, p.priority, p.niceness, p.timesScheduled,
                          p.timeRun, p.timeSlept, p.lastSlept, p.lastScheduled>>
    [] build = "MLFQ" -> <<p.state, p.chan, p.queue, p.entryTime, p.timeRanInQueue,
                           p.lastScheduled>>
View ==
  <<ticks, cpu, clock, mix, passed,
    CASE build = "FCFS" -> <<seen, early>>
      [] build = "PBS" -> seen
      [] build = "MLFQ" -> <<seen, ran>>
      [] OTHER -> {},
    [s \in {r \in Slots : proc[r].state # "UNUSED"} |-> fields(proc[s])]>>
=============================================================================
