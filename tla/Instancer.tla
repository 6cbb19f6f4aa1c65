------------------------------ MODULE Instancer ------------------------------
(***************************************************************************)
(* Challenge instances: a pod and a service in the cluster, a row of        *)
(* challenge_instances, and a sleeping task that destroys all three. The    *)
(* rows survive a crash, the sleeping tasks do not; init_reaper_schedules   *)
(* sets them up again. It has no caller yet, nor does main construct the    *)
(* service: that a start-up calls it is assumed here. Times are the seconds *)
(* that remain, so the clock has no bound: a row with 0 left has expired, a *)
(* timer with 0 left may fire.                                              *)
(***************************************************************************)
EXTENDS Naturals, FiniteSets

CONSTANTS
  Instances,    \* fresh instance ids
  Instanced,   \* challenges with instances
  ChallengeOf,  \* the challenge an instance is spawned for
  Lifespan,     \* lifespan_seconds of a spawned instance
  Durations,    \* duration_seconds a renewal may ask for
  Faults,       \* "kube": a cluster call may fail; "db": a row's insert or delete may; "crash"
  MaxCrashes    \* bound: crashes of the server

ASSUME InstancerAssumption ==
  /\ ChallengeOf \in [Instances -> Instanced]
  /\ Lifespan \in Nat /\ Durations \subseteq Nat
  /\ Faults \subseteq {"kube", "db", "crash"}
  /\ MaxCrashes \in Nat

VARIABLES
  challenges,  \* challenges not deleted yet
  rows,        \* challenge_instances: seconds until expires_at
  pods,        \* pods in the cluster
  services,    \* services in the cluster
  spawn,       \* next call of each spawn_instance
  timers,      \* sleeping tasks: an instance and the seconds left
  expired,     \* instances reap_expired_instances has still to destroy
  destroys,    \* running destroy_instances calls
  boot,        \* "down", or how far init_reaper_schedules has got
  crashes,     \* crashes so far
  renewed      \* instances ever renewed

vars == <<challenges, rows, pods, services, spawn, timers, expired, destroys, boot,
          crashes, renewed>>

Destroy ==
  [id : Instances, by : {"timer", "reaper"}, step : {"service", "pod", "row"}]

TypeOK ==
  /\ challenges \subseteq Instanced
  /\ DOMAIN rows \subseteq Instances
  /\ \A i \in DOMAIN rows : rows[i] \in Nat
  /\ pods \subseteq Instances /\ services \subseteq Instances
  /\ spawn \in [Instances -> {"unused", "pod", "service", "insert", "schedule", "done"}]
  /\ timers \subseteq Instances \X Nat
  /\ expired \subseteq Instances
  /\ destroys \subseteq Destroy
  /\ boot \in {"down", "schedule", "reap", "up"}
  /\ crashes \in 0..MaxCrashes
  /\ renewed \subseteq Instances

Init ==
  /\ challenges = Instanced
  /\ rows = [i \in {} |-> 0]
  /\ pods = {} /\ services = {}
  /\ spawn = [i \in Instances |-> "unused"]
  /\ timers = {} /\ expired = {} /\ destroys = {}
  /\ boot = "schedule"
  /\ crashes = 0 /\ renewed = {}
-----------------------------------------------------------------------------
\* spawn_instance moves on to its next call, or returns.
Goto(i, from, to) ==
  /\ spawn[i] = from
  /\ spawn' = [spawn EXCEPT ![i] = to]

Spawn(i) ==
  /\ boot # "down"
  /\ Goto(i, "unused", "pod")
  /\ UNCHANGED <<challenges, rows, pods, services, timers, expired, destroys, boot,
                 crashes, renewed>>

CreatePod(i) ==
  /\ Goto(i, "pod", "service")
  /\ pods' = pods \cup {i}
  /\ UNCHANGED <<challenges, rows, services, timers, expired, destroys, boot, crashes,
                 renewed>>

CreateService(i) ==
  /\ Goto(i, "service", "insert")
  /\ services' = services \cup {i}
  /\ UNCHANGED <<challenges, rows, pods, timers, expired, destroys, boot, crashes, renewed>>

\* A cluster call fails, done or not, or the service has no cluster ip: the call
\* returns and removes nothing.
FailSpawn(i) ==
  /\ "kube" \in Faults
  /\ spawn[i] \in {"pod", "service"}
  /\ spawn' = [spawn EXCEPT ![i] = "done"]
  /\ \/ spawn[i] = "pod" /\ pods' \in {pods, pods \cup {i}} /\ UNCHANGED services
     \/ spawn[i] = "service" /\ services' \in {services, services \cup {i}} /\ UNCHANGED pods
  /\ UNCHANGED <<challenges, rows, timers, expired, destroys, boot, crashes, renewed>>

\* expires_at was computed from the clock before the insert; some of it may have
\* passed. A deleted challenge makes the insert fail.
InsertRow(i, left) ==
  /\ ChallengeOf[i] \in challenges
  /\ Goto(i, "insert", "schedule")
  /\ rows' = [x \in DOMAIN rows \cup {i} |-> IF x = i THEN left ELSE rows[x]]
  /\ UNCHANGED <<challenges, pods, services, timers, expired, destroys, boot, crashes,
                 renewed>>

\* The insert fails, or its answer is lost: no timer is set.
FailInsert(i) ==
  /\ \/ spawn[i] = "insert" /\ (ChallengeOf[i] \notin challenges \/ "db" \in Faults)
     \/ spawn[i] = "schedule" /\ "db" \in Faults
  /\ spawn' = [spawn EXCEPT ![i] = "done"]
  /\ UNCHANGED <<challenges, rows, pods, services, timers, expired, destroys, boot,
                 crashes, renewed>>

\* schedule_reap: a task that sleeps for the lifespan.
Schedule(i) ==
  /\ Goto(i, "schedule", "done")
  /\ timers' = timers \cup {<<i, Lifespan>>}
  /\ UNCHANGED <<challenges, rows, pods, services, expired, destroys, boot, crashes, renewed>>
-----------------------------------------------------------------------------
\* A row that has not expired gets a new expiry; the timer stays what it is.
Renew(i, duration) ==
  /\ boot # "down"
  /\ i \in DOMAIN rows /\ rows[i] > 0
  /\ rows' = [rows EXCEPT ![i] = duration]
  /\ renewed' = renewed \cup {i}
  /\ UNCHANGED <<challenges, pods, services, spawn, timers, expired, destroys, boot, crashes>>

\* Deleting a challenge cascades to the rows of its instances.
DeleteChallenge(c) ==
  /\ boot # "down"
  /\ c \in challenges
  /\ challenges' = challenges \ {c}
  /\ rows' = [i \in {x \in DOMAIN rows : ChallengeOf[x] # c} |-> rows[i]]
  /\ UNCHANGED <<pods, services, spawn, timers, expired, destroys, boot, crashes, renewed>>
-----------------------------------------------------------------------------
Fire(t) ==
  /\ t \in timers /\ t[2] = 0
  /\ timers' = timers \ {t}
  /\ destroys' = destroys \cup {[id |-> t[1], by |-> "timer", step |-> "service"]}
  /\ UNCHANGED <<challenges, rows, pods, services, spawn, expired, boot, crashes, renewed>>

\* The destroy d moves on to its next call.
Advance(d, to) == destroys' = (destroys \ {d}) \cup {[d EXCEPT !.step = to]}

\* The answers of the cluster are ignored.
DeleteService(d) ==
  /\ d \in destroys /\ d.step = "service"
  /\ \/ services' = services \ {d.id}
     \/ "kube" \in Faults /\ UNCHANGED services
  /\ Advance(d, "pod")
  /\ UNCHANGED <<challenges, rows, pods, spawn, timers, expired, boot, crashes, renewed>>

DeletePod(d) ==
  /\ d \in destroys /\ d.step = "pod"
  /\ \/ pods' = pods \ {d.id}
     \/ "kube" \in Faults /\ UNCHANGED pods
  /\ Advance(d, "row")
  /\ UNCHANGED <<challenges, rows, services, spawn, timers, expired, boot, crashes, renewed>>

DeleteRow(d) ==
  /\ d \in destroys /\ d.step = "row"
  /\ \/ rows' = [i \in DOMAIN rows \ {d.id} |-> rows[i]]
     \/ "db" \in Faults /\ UNCHANGED rows
  /\ destroys' = destroys \ {d}
  /\ UNCHANGED <<challenges, pods, services, spawn, timers, expired, boot, crashes, renewed>>
-----------------------------------------------------------------------------
\* A crash takes the running calls and the sleeping tasks with it.
Crash ==
  /\ "crash" \in Faults /\ crashes < MaxCrashes
  /\ boot # "down"
  /\ boot' = "down" /\ crashes' = crashes + 1
  /\ spawn' = [i \in Instances |-> IF spawn[i] = "unused" THEN "unused" ELSE "done"]
  /\ timers' = {} /\ expired' = {} /\ destroys' = {}
  /\ UNCHANGED <<challenges, rows, pods, services, renewed>>

Restart ==
  /\ boot = "down" /\ boot' = "schedule"
  /\ UNCHANGED <<challenges, rows, pods, services, spawn, timers, expired, destroys,
                 crashes, renewed>>

M_ScheduleReaps ==
  /\ boot = "schedule" /\ boot' = "reap"
  /\ UNCHANGED <<challenges, rows, pods, services, spawn, timers, expired, destroys,
                 crashes, renewed>>

\* init_reaper_schedules: a timer for every row that has not expired.
ScheduleReaps ==
  /\ boot = "schedule" /\ boot' = "reap"
  /\ timers' = timers \cup {<<i, rows[i]>> : i \in {x \in DOMAIN rows : rows[x] > 0}}
  /\ UNCHANGED <<challenges, rows, pods, services, spawn, expired, destroys, crashes, renewed>>

M_ReapExpired ==
  /\ boot = "reap" /\ boot' = "up"
  /\ expired' = DOMAIN rows
  /\ UNCHANGED <<challenges, rows, pods, services, spawn, timers, destroys, crashes, renewed>>

\* reap_expired_instances: the rows that have expired, destroyed one by one.
ReapExpired ==
  /\ boot = "reap" /\ boot' = "up"
  /\ expired' = {i \in DOMAIN rows : rows[i] = 0}
  /\ UNCHANGED <<challenges, rows, pods, services, spawn, timers, destroys, crashes, renewed>>

ReapNext(i) ==
  /\ i \in expired
  /\ \A d \in destroys : d.by # "reaper"
  /\ expired' = expired \ {i}
  /\ destroys' = destroys \cup {[id |-> i, by |-> "reaper", step |-> "service"]}
  /\ UNCHANGED <<challenges, rows, pods, services, spawn, timers, boot, crashes, renewed>>

M_Less(n) == n - 1

Less(n) == IF n > 0 THEN n - 1 ELSE 0

\* A second passes.
Tick ==
  /\ rows' = [i \in DOMAIN rows |-> Less(rows[i])]
  /\ timers' = {<<t[1], Less(t[2])>> : t \in timers}
  /\ UNCHANGED <<challenges, pods, services, spawn, expired, destroys, boot, crashes, renewed>>

\* What the server does by itself.
Progress ==
  \/ \E i \in Instances :
       \/ CreatePod(i) \/ CreateService(i) \/ FailSpawn(i)
       \/ \E left \in 0..Lifespan : InsertRow(i, left)
       \/ FailInsert(i) \/ Schedule(i) \/ ReapNext(i)
  \/ \E t \in timers : Fire(t)
  \/ \E d \in destroys : DeleteService(d) \/ DeletePod(d) \/ DeleteRow(d)
  \/ Restart \/ ScheduleReaps \/ ReapExpired

Next ==
  \/ Progress
  \/ \E i \in Instances : Spawn(i) \/ \E duration \in Durations : Renew(i, duration)
  \/ \E c \in Instanced : DeleteChallenge(c)
  \/ Crash
  \/ Tick

Spec == Init /\ [][Next]_vars

\* Time passes, tokio wakes the tasks whose sleep is over and runs them on, and
\* the server is started again after a crash and scans its rows.
FairSpec == Spec /\ WF_vars(Tick) /\ WF_vars(Progress)
-----------------------------------------------------------------------------
Spawning(i) == spawn[i] \in {"pod", "service", "insert", "schedule"}

\* Something in memory that will destroy instance i.
ToBeReaped(i) ==
  \/ spawn[i] = "schedule"
  \/ \E t \in timers : t[1] = i
  \/ \E d \in destroys : d.id = i
  \/ i \in expired

\* services/instancer.rs:185-208: once a server is up, however it crashed
\* before, every row has something in memory that will reap it, provided that a
\* start-up calls init_reaper_schedules.
RowsWatched == boot = "up" => \A i \in DOMAIN rows : ToBeReaped(i)

\* services/instancer.rs:46-149: an instance whose flag still counts has its pod
\* and its service, unless it was renewed, and a failing call never deletes
\* them ahead of time.
ServedWhileLive ==
  \A i \in DOMAIN rows : rows[i] > 0 /\ i \notin renewed => i \in pods /\ i \in services

\* PARITY.md:149 promises "timed reaping": no instance's row stays for ever,
\* although the timers are lost in a crash, provided that a start-up calls
\* init_reaper_schedules.
RowsReaped == \A i \in Instances : (i \in DOMAIN rows) ~> (i \notin DOMAIN rows)

\* PARITY.md:149 promises "lifespan renewal": an instance whose expiry was moved
\* has its pod until then.
RenewalKept == \A i \in DOMAIN rows : rows[i] > 0 => i \in pods

\* PARITY.md:149 promises "timed reaping" of what is spawned: every pod is being
\* spawned, or has something that will reap it.
PodsWatched == boot = "up" => \A i \in pods : Spawning(i) \/ ToBeReaped(i)
=============================================================================
