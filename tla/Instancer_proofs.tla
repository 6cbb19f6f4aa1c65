-------------------------- MODULE Instancer_proofs --------------------------
(***************************************************************************)
(* Proofs about Instancer: type correctness, that every row is watched      *)
(* whatever crashes, and that no instance is destroyed before its expiry    *)
(* unless it was renewed.                                                   *)
(***************************************************************************)
EXTENDS Instancer, TLAPS

\* Tick's countdown stays within the natural numbers.
LEMMA LessNat ==
  ASSUME NEW n \in Nat
  PROVE  /\ Less(n) \in Nat
         /\ Less(n) <= n
         /\ n = 0 => Less(n) = 0
BY DEF Less

-----------------------------------------------------------------------------
(* Type correctness.                                                        *)

\* A step keeps every variable well typed.
LEMMA TypeStep ==
  ASSUME TypeOK, [Next]_vars
  PROVE  TypeOK'
<1> USE InstancerAssumption
<1>1. ASSUME NEW i \in Instances, Spawn(i) PROVE TypeOK'
  BY <1>1 DEF TypeOK, Spawn, Goto
<1>2. ASSUME NEW i \in Instances, CreatePod(i) PROVE TypeOK'
  BY <1>2 DEF TypeOK, CreatePod, Goto
<1>3. ASSUME NEW i \in Instances, CreateService(i) PROVE TypeOK'
  BY <1>3 DEF TypeOK, CreateService, Goto
<1>4. ASSUME NEW i \in Instances, FailSpawn(i) PROVE TypeOK'
  BY <1>4 DEF TypeOK, FailSpawn
<1>5. ASSUME NEW i \in Instances, NEW left \in 0..Lifespan, InsertRow(i, left) PROVE TypeOK'
  BY <1>5 DEF TypeOK, InsertRow, Goto
<1>6. ASSUME NEW i \in Instances, FailInsert(i) PROVE TypeOK'
  BY <1>6 DEF TypeOK, FailInsert
<1>7. ASSUME NEW i \in Instances, Schedule(i) PROVE TypeOK'
  BY <1>7 DEF TypeOK, Schedule, Goto
<1>8. ASSUME NEW i \in Instances, ReapNext(i) PROVE TypeOK'
  BY <1>8 DEF TypeOK, ReapNext, Destroy
<1>9. ASSUME NEW t \in timers, Fire(t) PROVE TypeOK'
  BY <1>9 DEF TypeOK, Fire, Destroy
<1>10. ASSUME NEW d \in destroys, DeleteService(d) PROVE TypeOK'
  BY <1>10 DEF TypeOK, DeleteService, Advance, Destroy
<1>11. ASSUME NEW d \in destroys, DeletePod(d) PROVE TypeOK'
  BY <1>11 DEF TypeOK, DeletePod, Advance, Destroy
<1>12. ASSUME NEW d \in destroys, DeleteRow(d) PROVE TypeOK'
  BY <1>12 DEF TypeOK, DeleteRow
<1>13. CASE Restart
  BY <1>13 DEF TypeOK, Restart
<1>14. CASE ScheduleReaps
  BY <1>14 DEF TypeOK, ScheduleReaps
<1>15. CASE ReapExpired
  BY <1>15 DEF TypeOK, ReapExpired
<1>16. ASSUME NEW i \in Instances, NEW duration \in Durations, Renew(i, duration) PROVE TypeOK'
  BY <1>16 DEF TypeOK, Renew
<1>17. ASSUME NEW c \in Instanced, DeleteChallenge(c) PROVE TypeOK'
  BY <1>17 DEF TypeOK, DeleteChallenge
<1>18. CASE Crash
  BY <1>18 DEF TypeOK, Crash
<1>19. CASE Tick
  <2>1. rows' = [i \in DOMAIN rows |-> Less(rows[i])]
    BY <1>19 DEF Tick
  <2>2. \A i \in DOMAIN rows : Less(rows[i]) \in Nat
    BY LessNat DEF TypeOK
  <2>3. DOMAIN rows' \subseteq Instances /\ \A i \in DOMAIN rows' : rows'[i] \in Nat
    BY <2>1, <2>2 DEF TypeOK
  <2>4. timers' \subseteq Instances \X Nat
    BY <1>19, LessNat DEF TypeOK, Tick
  <2> QED  BY <1>19, <2>3, <2>4 DEF TypeOK, Tick
<1>20. CASE UNCHANGED vars
  BY <1>20 DEF TypeOK, vars
<1> QED
  BY <1>1, <1>2, <1>3, <1>4, <1>5, <1>6, <1>7, <1>8, <1>9, <1>10, <1>11, <1>12, <1>13,
     <1>14, <1>15, <1>16, <1>17, <1>18, <1>19, <1>20 DEF Next, Progress

\* In every reachable state each variable has its type.
THEOREM TypeCorrect == Spec => []TypeOK
<1>1. Init => TypeOK
  BY InstancerAssumption DEF Init, TypeOK
<1> QED  BY <1>1, TypeStep, PTL DEF Spec

-----------------------------------------------------------------------------
(* Every row is watched.                                                    *)

\* RowsWatched needs to know what holds half way through the boot: the rows
\* that have not expired already have their timers, and nothing is being reaped.
Watched ==
  /\ RowsWatched
  /\ boot # "up" => expired = {}
  /\ boot = "reap" => \A i \in DOMAIN rows : rows[i] > 0 => ToBeReaped(i)

\* Without database faults no step takes the last watcher from a row.
LEMMA WatchedStep ==
  ASSUME "db" \notin Faults, TypeOK, Watched, [Next]_vars
  PROVE  Watched'
<1> USE DEF Watched, RowsWatched, ToBeReaped
<1>1. ASSUME NEW i \in Instances, Spawn(i) PROVE Watched'
  BY <1>1 DEF TypeOK, Spawn, Goto
<1>2. ASSUME NEW i \in Instances, CreatePod(i) PROVE Watched'
  BY <1>2 DEF TypeOK, CreatePod, Goto
<1>3. ASSUME NEW i \in Instances, CreateService(i) PROVE Watched'
  BY <1>3 DEF TypeOK, CreateService, Goto
<1>4. ASSUME NEW i \in Instances, FailSpawn(i) PROVE Watched'
  BY <1>4 DEF TypeOK, FailSpawn
<1>5. ASSUME NEW i \in Instances, NEW left \in 0..Lifespan, InsertRow(i, left) PROVE Watched'
  BY <1>5 DEF TypeOK, InsertRow, Goto
<1>6. ASSUME NEW i \in Instances, FailInsert(i) PROVE Watched'
  BY <1>6 DEF TypeOK, FailInsert
<1>7. ASSUME NEW i \in Instances, Schedule(i) PROVE Watched'
  <2>1. <<i, Lifespan>> \in timers' /\ timers \subseteq timers'
    BY <1>7 DEF Schedule
  <2>2. \A x \in Instances : ToBeReaped(x) => ToBeReaped(x)'
    BY <1>7, <2>1 DEF TypeOK, Schedule, Goto
  <2> QED  BY <1>7, <2>2 DEF TypeOK, Schedule
<1>8. ASSUME NEW i \in Instances, ReapNext(i) PROVE Watched'
  <2>1. /\ expired' = expired \ {i}
        /\ [id |-> i, by |-> "reaper", step |-> "service"] \in destroys'
        /\ destroys \subseteq destroys'
        /\ UNCHANGED <<spawn, timers>>
    BY <1>8 DEF ReapNext
  <2>2. \E d \in destroys' : d.id = i
    BY <2>1
  <2>3. \A x \in Instances : ToBeReaped(x) => ToBeReaped(x)'
    BY <2>1, <2>2
  <2> QED  BY <1>8, <2>3 DEF TypeOK, ReapNext
<1>9. ASSUME NEW t \in timers, Fire(t) PROVE Watched'
  <2>1. /\ timers' = timers \ {t}
        /\ [id |-> t[1], by |-> "timer", step |-> "service"] \in destroys'
        /\ destroys \subseteq destroys'
        /\ UNCHANGED <<spawn, expired>>
    BY <1>9 DEF Fire
  <2>2. \E d \in destroys' : d.id = t[1]
    BY <2>1
  <2>3. \A x \in Instances : ToBeReaped(x) => ToBeReaped(x)'
    BY <2>1, <2>2
  <2> QED  BY <1>9, <2>3 DEF TypeOK, Fire
<1>10. ASSUME NEW d \in destroys, NEW to \in {"pod", "row"}, Advance(d, to)
       PROVE  \A x \in Instances :
                (\E e \in destroys : e.id = x) => (\E e \in destroys' : e.id = x)
  <2>1. [d EXCEPT !.step = to].id = d.id
    OBVIOUS
  <2> QED  BY <1>10, <2>1 DEF Advance, TypeOK, Destroy
<1>11. ASSUME NEW d \in destroys, DeleteService(d) PROVE Watched'
  BY <1>10, <1>11 DEF TypeOK, DeleteService
<1>12. ASSUME NEW d \in destroys, DeletePod(d) PROVE Watched'
  BY <1>10, <1>12 DEF TypeOK, DeletePod
<1>13. ASSUME NEW d \in destroys, DeleteRow(d) PROVE Watched'
  <2>1. rows' = [i \in DOMAIN rows \ {d.id} |-> rows[i]]
    BY <1>13 DEF DeleteRow
  <2>2. \A i \in DOMAIN rows' : i \in DOMAIN rows /\ rows'[i] = rows[i] /\ i # d.id
    BY <2>1
  <2>3. \A i \in Instances : ToBeReaped(i) /\ i # d.id => ToBeReaped(i)'
    BY <1>13 DEF DeleteRow
  <2> QED  BY <1>13, <2>2, <2>3 DEF TypeOK, DeleteRow
<1>14. CASE Restart
  BY <1>14 DEF TypeOK, Restart
<1>15. CASE ScheduleReaps
  <2>1. \A i \in DOMAIN rows : rows[i] > 0 => <<i, rows[i]>> \in timers'
    BY <1>15 DEF ScheduleReaps
  <2> QED  BY <1>15, <2>1 DEF ScheduleReaps
<1>16. CASE ReapExpired
  <2>1. \A i \in DOMAIN rows : rows[i] > 0 \/ i \in expired'
    BY <1>16 DEF TypeOK, ReapExpired
  <2> QED  BY <1>16, <2>1 DEF ReapExpired
<1>17. ASSUME NEW i \in Instances, NEW duration \in Durations, Renew(i, duration) PROVE Watched'
  BY <1>17 DEF TypeOK, Renew
<1>18. ASSUME NEW c \in Instanced, DeleteChallenge(c) PROVE Watched'
  BY <1>18 DEF TypeOK, DeleteChallenge
<1>19. CASE Crash
  BY <1>19 DEF Crash
<1>20. CASE Tick
  <2>1. \A t \in timers : <<t[1], Less(t[2])>> \in timers'
    BY <1>20 DEF Tick
  <2>2. \A i \in Instances : ToBeReaped(i) => ToBeReaped(i)'
    BY <1>20, <2>1 DEF Tick
  <2>3. DOMAIN rows' = DOMAIN rows /\ \A i \in DOMAIN rows : rows'[i] > 0 => rows[i] > 0
    BY <1>20, LessNat DEF Tick, TypeOK
  <2> QED  BY <1>20, <2>2, <2>3 DEF TypeOK, Tick
<1>21. CASE UNCHANGED vars
  BY <1>21 DEF vars
<1> QED
  BY <1>1, <1>2, <1>3, <1>4, <1>5, <1>6, <1>7, <1>8, <1>9, <1>11, <1>12, <1>13,
     <1>14, <1>15, <1>16, <1>17, <1>18, <1>19, <1>20, <1>21 DEF Next, Progress

\* Unless a database call of its own fails, a server that has booted watches
\* every row, however often it crashed and whatever the cluster answered.
THEOREM RowsAlwaysWatched ==
  ASSUME "db" \notin Faults
  PROVE  Spec => []RowsWatched
<1>1. Init => Watched
  BY DEF Init, Watched, RowsWatched
<1>2. TypeOK /\ Watched /\ [Next]_vars => Watched'
  BY WatchedStep
<1>3. Watched => RowsWatched
  BY DEF Watched
<1> QED  BY <1>1, <1>2, <1>3, TypeCorrect, PTL DEF Spec

-----------------------------------------------------------------------------
(* Nothing unrenewed is destroyed while it is live.                         *)

\* Before its row is inserted nothing in memory or in the table knows instance i.
Unborn(i) ==
  spawn[i] \in {"unused", "pod", "service", "insert"} =>
    /\ i \notin DOMAIN rows /\ i \notin expired
    /\ \A t \in timers : t[1] # i
    /\ \A d \in destroys : d.id # i

\* What spawn_instance has created by the time of each call.
Created(i) ==
  /\ spawn[i] \in {"service", "insert"} => i \in pods
  /\ spawn[i] = "insert" => i \in services

\* An unrenewed row expires before its timers, and before anything destroys it.
ExpiresFirst(i) ==
  i \in DOMAIN rows /\ i \notin renewed =>
    /\ rows[i] > 0 => i \in pods /\ i \in services
    /\ spawn[i] = "schedule" => rows[i] <= Lifespan
    /\ \A t \in timers : t[1] = i => rows[i] <= t[2]
    /\ i \in expired => rows[i] = 0
    /\ \A d \in destroys : d.id = i => rows[i] = 0

Served == \A i \in Instances : Unborn(i) /\ Created(i) /\ ExpiresFirst(i)

\* No step touches a live instance that was not renewed, whatever fails.
LEMMA ServedStep ==
  ASSUME TypeOK, Served, [Next]_vars
  PROVE  Served'
<1> USE InstancerAssumption DEF Served, Unborn, Created, ExpiresFirst
<1>1. ASSUME NEW i \in Instances, Spawn(i) PROVE Served'
  BY <1>1 DEF TypeOK, Spawn, Goto
<1>2. ASSUME NEW i \in Instances, CreatePod(i) PROVE Served'
  BY <1>2 DEF TypeOK, CreatePod, Goto
<1>3. ASSUME NEW i \in Instances, CreateService(i) PROVE Served'
  BY <1>3 DEF TypeOK, CreateService, Goto
<1>4. ASSUME NEW i \in Instances, FailSpawn(i) PROVE Served'
  BY <1>4 DEF TypeOK, FailSpawn
<1>5. ASSUME NEW i \in Instances, NEW left \in 0..Lifespan, InsertRow(i, left) PROVE Served'
  <2>1. /\ rows' = [x \in DOMAIN rows \cup {i} |-> IF x = i THEN left ELSE rows[x]]
        /\ spawn[i] = "insert" /\ spawn' = [spawn EXCEPT ![i] = "schedule"]
        /\ UNCHANGED <<pods, services, timers, expired, destroys, renewed>>
    BY <1>5 DEF InsertRow, Goto
  <2>2. (Unborn(i) /\ Created(i) /\ ExpiresFirst(i))'
    BY <2>1 DEF TypeOK
  <2>3. ASSUME NEW x \in Instances, x # i PROVE (Unborn(x) /\ Created(x) /\ ExpiresFirst(x))'
    BY <2>1, <2>3 DEF TypeOK
  <2> QED  BY <2>2, <2>3
<1>6. ASSUME NEW i \in Instances, FailInsert(i) PROVE Served'
  BY <1>6 DEF TypeOK, FailInsert
<1>7. ASSUME NEW i \in Instances, Schedule(i) PROVE Served'
  <2>1. /\ spawn[i] = "schedule" /\ spawn' = [spawn EXCEPT ![i] = "done"]
        /\ timers' = timers \cup {<<i, Lifespan>>}
        /\ UNCHANGED <<rows, pods, services, expired, destroys, renewed>>
    BY <1>7 DEF Schedule, Goto
  <2> QED  BY <2>1 DEF TypeOK
<1>8. ASSUME NEW i \in Instances, ReapNext(i) PROVE Served'
  <2>1. /\ i \in expired /\ expired' = expired \ {i}
        /\ \A d \in destroys' : d \in destroys \/ d.id = i
        /\ UNCHANGED <<rows, pods, services, spawn, timers, renewed>>
    BY <1>8 DEF ReapNext
  <2> QED  BY <2>1 DEF TypeOK
<1>9. ASSUME NEW t \in timers, Fire(t) PROVE Served'
  <2>1. /\ t[2] = 0 /\ timers' = timers \ {t}
        /\ \A d \in destroys' : d \in destroys \/ d.id = t[1]
        /\ UNCHANGED <<rows, pods, services, spawn, expired, renewed>>
    BY <1>9 DEF Fire
  <2>2. t[1] \in Instances
    BY DEF TypeOK
  <2> QED  BY <2>1, <2>2 DEF TypeOK
<1>10. ASSUME NEW d \in destroys, NEW to \in {"pod", "row"}, Advance(d, to)
       PROVE  \A e \in destroys' : \E f \in destroys : f.id = e.id
  BY <1>10 DEF Advance, TypeOK, Destroy
<1>11. ASSUME NEW d \in destroys, DeleteService(d) PROVE Served'
  <2>1. /\ services \ {d.id} \subseteq services' /\ services' \subseteq services
        /\ UNCHANGED <<rows, pods, spawn, timers, expired, renewed>>
        /\ \A e \in destroys' : \E f \in destroys : f.id = e.id
    BY <1>10, <1>11 DEF DeleteService
  <2> QED  BY <2>1 DEF TypeOK
<1>12. ASSUME NEW d \in destroys, DeletePod(d) PROVE Served'
  <2>1. /\ pods \ {d.id} \subseteq pods' /\ pods' \subseteq pods
        /\ UNCHANGED <<rows, services, spawn, timers, expired, renewed>>
        /\ \A e \in destroys' : \E f \in destroys : f.id = e.id
    BY <1>10, <1>12 DEF DeletePod
  <2> QED  BY <2>1 DEF TypeOK
<1>13. ASSUME NEW d \in destroys, DeleteRow(d) PROVE Served'
  <2>1. /\ DOMAIN rows' \subseteq DOMAIN rows
        /\ \A i \in DOMAIN rows' : rows'[i] = rows[i]
        /\ destroys' \subseteq destroys
        /\ UNCHANGED <<pods, services, spawn, timers, expired, renewed>>
    BY <1>13 DEF DeleteRow
  <2> QED  BY <2>1 DEF TypeOK
<1>14. CASE Restart
  BY <1>14 DEF TypeOK, Restart
<1>15. CASE ScheduleReaps
  <2>1. /\ \A t \in timers' : t \in timers \/ (t[1] \in DOMAIN rows /\ t[2] = rows[t[1]])
        /\ UNCHANGED <<rows, pods, services, spawn, expired, destroys, renewed>>
    BY <1>15 DEF ScheduleReaps
  <2> QED  BY <2>1 DEF TypeOK
<1>16. CASE ReapExpired
  BY <1>16 DEF TypeOK, ReapExpired
<1>17. ASSUME NEW i \in Instances, NEW duration \in Durations, Renew(i, duration) PROVE Served'
  BY <1>17 DEF TypeOK, Renew
<1>18. ASSUME NEW c \in Instanced, DeleteChallenge(c) PROVE Served'
  BY <1>18 DEF TypeOK, DeleteChallenge
<1>19. CASE Crash
  BY <1>19 DEF TypeOK, Crash
<1>20. CASE Tick
  <2>1. /\ DOMAIN rows' = DOMAIN rows
        /\ \A i \in DOMAIN rows : rows'[i] = Less(rows[i])
        /\ timers' = {<<t[1], Less(t[2])>> : t \in timers}
        /\ UNCHANGED <<pods, services, spawn, expired, destroys, renewed>>
    BY <1>20 DEF Tick
  <2>2. \A t \in timers' : \E s \in timers : s[1] = t[1] /\ t[2] = Less(s[2])
    BY <2>1
  <2>3. \A m, n \in Nat : m <= n => Less(m) <= Less(n)
    BY DEF Less
  <2>4. ASSUME NEW i \in Instances PROVE Unborn(i)' /\ Created(i)'
    BY <2>1, <2>2, <2>4
  <2>5. ASSUME NEW i \in Instances, i \in DOMAIN rows, i \notin renewed PROVE ExpiresFirst(i)'
    <3>1. rows[i] \in Nat /\ rows'[i] = Less(rows[i])
      BY <2>1, <2>5 DEF TypeOK
    <3>2. rows'[i] > 0 => i \in pods' /\ i \in services'
      BY <2>1, <2>5, <3>1, LessNat
    <3>3. (spawn[i] = "schedule" => rows'[i] <= Lifespan)
          /\ (i \in expired => rows'[i] = 0)
          /\ (\A d \in destroys : d.id = i => rows'[i] = 0)
      BY <2>5, <3>1, LessNat
    <3>4. ASSUME NEW t \in timers', t[1] = i PROVE rows'[i] <= t[2]
      <4>1. PICK s \in timers : s[1] = i /\ t[2] = Less(s[2])
        BY <2>2, <3>4
      <4>2. s[2] \in Nat /\ rows[i] <= s[2]
        BY <2>5, <4>1 DEF TypeOK
      <4> QED  BY <2>3, <3>1, <4>1, <4>2
    <3> QED  BY <2>1, <3>2, <3>3, <3>4
  <2> QED  BY <2>1, <2>4, <2>5
<1>21. CASE UNCHANGED vars
  BY <1>21 DEF vars
<1> QED
  BY <1>1, <1>2, <1>3, <1>4, <1>5, <1>6, <1>7, <1>8, <1>9, <1>11, <1>12, <1>13,
     <1>14, <1>15, <1>16, <1>17, <1>18, <1>19, <1>20, <1>21 DEF Next, Progress

\* However calls fail and the server crashes, a live instance that was not
\* renewed has its pod and its service.
THEOREM AlwaysServedWhileLive == Spec => []ServedWhileLive
<1>1. Init => Served
  BY DEF Init, Served, Unborn, Created, ExpiresFirst
<1>2. TypeOK /\ Served /\ [Next]_vars => Served'
  BY ServedStep
<1>3. TypeOK /\ Served => ServedWhileLive
  BY DEF TypeOK, Served, ExpiresFirst, ServedWhileLive
<1> QED  BY <1>1, <1>2, <1>3, TypeCorrect, PTL DEF Spec
=============================================================================
