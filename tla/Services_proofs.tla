--------------------------- MODULE Services_proofs ---------------------------
(***************************************************************************)
(* Proofs about the rate limiter, the administration of challenges, the     *)
(* notifications and the files, for any number of requests, keys,           *)
(* challenges, accounts, announcements, clients, uploads and downloads, any *)
(* limits, windows and sizes, and whatever fails. They share nothing but    *)
(* the team of an account: each has its own part.                           *)
(***************************************************************************)
EXTENDS RateLimiter, Services, FiniteSetTheorems, TLAPS

\* The rate limiter: a key is admitted at most as often as its limit and once more
\* for every handler.

Routed == {r \in Seq(Keys) : r # <<>>}

\* The rest of a request's keys, when there is one.
LEMMA RestOfKeys ==
  ASSUME NEW keys \in Routed, Len(keys) # 1
  PROVE  Tail(keys) \in Routed
<1>1. keys \in Seq(Keys) /\ keys # <<>>
  BY DEF Routed
<1>2. Len(keys) \in Nat /\ Len(keys) # 0
  BY <1>1
<1>3. Tail(keys) \in Seq(Keys) /\ Len(Tail(keys)) = Len(keys) - 1
  BY <1>1
<1>4. Tail(keys) # <<>>
  <2>1. Len(Tail(keys)) # 0
    BY <1>2, <1>3
  <2>2. Len(<<>>) = 0
    OBVIOUS
  <2> QED  BY <2>1, <2>2
<1> QED  BY <1>3, <1>4 DEF Routed

\* The admissions of the log, field by field.
LEMMA LogTyped ==
  ASSUME TypeOK
  PROVE  \A i \in DOMAIN log :
           log[i].key \in Keys /\ log[i].ts \in Nat /\ log[i].real \in Nat /\ log[i].by \in Handlers
<1>1. \A i \in DOMAIN log : log[i] \in Admission
  BY DEF TypeOK
<1> QED  BY <1>1 DEF Admission

\* What an admission does to the variables, with its key by name.
LEMMA Admitted ==
  ASSUME TypeOK, NEW h \in Handlers, Admit(h)
  PROVE  \E k \in Keys :
           LET new  == [key |-> k, ts |-> req[h].at, real |-> clock, by |-> h]
               kept == Fresh(k, req[h].at)
           IN  /\ req[h] \in Request /\ k = Head(req[h].keys)
               /\ new \in Admission
               /\ kept \subseteq entries[k] /\ Cardinality(kept) < Limit[k]
               /\ log' = Append(log, new) /\ log' \in Seq(Admission)
               /\ Len(log') = Len(log) + 1 /\ DOMAIN log' = DOMAIN log \cup {Len(log) + 1}
               /\ \A i \in DOMAIN log : log'[i] = log[i]
               /\ log'[Len(log) + 1] = new
               /\ entries' = [entries EXCEPT ![k] = kept \cup {Len(log) + 1}]
               /\ \/ req' = [req EXCEPT ![h] = NoRequest]
                  \/ \E r \in Routed : req' = [req EXCEPT ![h] = [keys |-> r, at |-> clock]]
               /\ clock' = clock
<1> DEFINE k == Head(req[h].keys)
           new == [key |-> k, ts |-> req[h].at, real |-> clock, by |-> h]
<1>1. req[h] \in Request
  BY DEF TypeOK, Admit
<1>2. k \in Keys /\ req[h].at \in Nat
  BY <1>1 DEF Request
<1>3. new \in Admission
  BY <1>2 DEF TypeOK, Admission
<1>4. log' = Append(log, new) /\ Cardinality(Fresh(k, req[h].at)) < Limit[k]
      /\ entries' = [entries EXCEPT ![k] = Fresh(k, req[h].at) \cup {Len(log) + 1}]
      /\ clock' = clock
  BY DEF Admit
<1>5. /\ log' \in Seq(Admission)
      /\ Len(log') = Len(log) + 1 /\ DOMAIN log' = DOMAIN log \cup {Len(log) + 1}
      /\ \A i \in DOMAIN log : log'[i] = log[i]
      /\ log'[Len(log) + 1] = new
  BY <1>3, <1>4 DEF TypeOK
<1>6. \/ req' = [req EXCEPT ![h] = NoRequest]
      \/ \E r \in Routed : req' = [req EXCEPT ![h] = [keys |-> r, at |-> clock]]
  <2>1. CASE Len(req[h].keys) = 1
    BY <2>1 DEF Admit
  <2>2. CASE Len(req[h].keys) # 1
    <3>1. Tail(req[h].keys) \in Routed
      BY <1>1, <2>2, RestOfKeys DEF Request, Routed
    <3> QED  BY <2>2, <3>1 DEF Admit
  <2> QED  BY <2>1, <2>2
<1>7. Fresh(k, req[h].at) \subseteq entries[k]
  BY DEF Fresh
<1> QED  BY <1>1, <1>2, <1>3, <1>4, <1>5, <1>6, <1>7

\* A step keeps every variable well typed.
LEMMA TypeStep ==
  ASSUME TypeOK, [Next]_vars
  PROVE  TypeOK'
<1>1. ASSUME NEW h \in Handlers, NEW route \in Routes, Arrive(h, route) PROVE TypeOK'
  <2>1. [keys |-> route, at |-> clock] \in Request
    BY RateLimiterAssumption DEF TypeOK, Request
  <2> QED  BY <1>1, <2>1 DEF TypeOK, Arrive
<1>2. ASSUME NEW h \in Handlers, Admit(h) PROVE TypeOK'
  <2>1. PICK k \in Keys :
          /\ Fresh(k, req[h].at) \subseteq entries[k]
          /\ log' \in Seq(Admission) /\ DOMAIN log' = DOMAIN log \cup {Len(log) + 1}
          /\ entries' = [entries EXCEPT ![k] = Fresh(k, req[h].at) \cup {Len(log) + 1}]
          /\ \/ req' = [req EXCEPT ![h] = NoRequest]
             \/ \E r \in Routed : req' = [req EXCEPT ![h] = [keys |-> r, at |-> clock]]
          /\ clock' = clock
    BY <1>2, Admitted
  <2>2. entries' \in [Keys -> SUBSET (DOMAIN log')]
    BY <2>1 DEF TypeOK
  <2>3. req' \in [Handlers -> Request \cup {NoRequest}]
    <3>1. \A r \in Routed : [keys |-> r, at |-> clock] \in Request
      BY DEF TypeOK, Request, Routed
    <3> QED  BY <2>1, <3>1 DEF TypeOK
  <2> QED  BY <2>1, <2>2, <2>3 DEF TypeOK
<1>3. ASSUME NEW h \in Handlers, Reject(h) PROVE TypeOK'
  BY <1>3 DEF TypeOK, Reject, Fresh
<1>4. ASSUME NEW h \in Handlers, Abandon(h) PROVE TypeOK'
  BY <1>4 DEF TypeOK, Abandon
<1>5. CASE Tick
  BY <1>5 DEF TypeOK, Tick
<1>6. CASE UNCHANGED vars
  BY <1>6 DEF TypeOK, vars
<1> QED  BY <1>1, <1>2, <1>3, <1>4, <1>5, <1>6 DEF Next

\* In every reachable state each variable has its type.
THEOREM LimiterTypeCorrect == Spec => []TypeOK
<1>1. Init => TypeOK
  BY RateLimiterAssumption DEF Init, TypeOK
<1> QED  BY <1>1, TypeStep, PTL DEF Spec
-----------------------------------------------------------------------------
(* The inductive invariant.                                                 *)

\* No time lies ahead of the clock, and a handler's requests follow each other.
Ordered ==
  /\ \A i \in DOMAIN log : log[i].ts <= log[i].real /\ log[i].real <= clock
  /\ \A h \in Handlers : req[h] # NoRequest => req[h].at <= clock
  /\ \A i, j \in DOMAIN log : i < j /\ log[i].by = log[j].by => log[i].real <= log[j].ts
  /\ \A i \in DOMAIN log :
       req[log[i].by] # NoRequest => log[i].real <= req[log[i].by].at

\* The map still holds every admission that is younger than the window.
Held == \A i \in DOMAIN log : clock < log[i].ts + Window => i \in entries[log[i].key]

\* The admissions of a window whose recorded time is within it as well.
Prompt(k, x) ==
  {i \in DOMAIN log : log[i].key = k /\ x <= log[i].ts /\ log[i].real < x + Window}

\* The admissions since x that waited for the lock since before x.
LateAdmissions(k, x) == {i \in DOMAIN log : log[i].key = k /\ log[i].ts < x /\ x <= log[i].real}

Exact == \A k \in Keys, x \in Nat : Cardinality(Prompt(k, x)) <= Limit[k]

Limited == Ordered /\ Held /\ Exact

\* The indices of the log are finite, and so are its parts.
LEMMA FiniteLog ==
  ASSUME TypeOK, NEW P \in SUBSET (DOMAIN log)
  PROVE  IsFiniteSet(P) /\ Cardinality(P) \in Nat
<1>1. IsFiniteSet(1..Len(log))
  BY FS_Interval DEF TypeOK
<1>2. DOMAIN log = 1..Len(log)
  BY DEF TypeOK
<1> QED  BY <1>1, <1>2, FS_Subset, FS_CardinalityType

\* Ordered is kept by every step.
LEMMA OrderedStep ==
  ASSUME TypeOK, Ordered, [Next]_vars
  PROVE  Ordered'
<1>1. ASSUME NEW h \in Handlers, NEW route \in Routes, Arrive(h, route) PROVE Ordered'
  <2>1. /\ UNCHANGED <<clock, log>>
        /\ req' = [req EXCEPT ![h] = [keys |-> route, at |-> clock]]
    BY <1>1 DEF Arrive
  <2>2. req'[h].at = clock /\ \A g \in Handlers : g # h => req'[g] = req[g]
    BY <2>1 DEF TypeOK
  <2>3. \A i \in DOMAIN log : log[i].by \in Handlers /\ log[i].real \in Nat
    BY LogTyped
  <2>4. \A i \in DOMAIN log : req'[log[i].by] # NoRequest => log[i].real <= req'[log[i].by].at
    BY <2>2, <2>3 DEF Ordered
  <2>5. \A g \in Handlers : req'[g] # NoRequest => req'[g].at <= clock
    BY <2>2 DEF Ordered, TypeOK
  <2> QED  BY <2>1, <2>4, <2>5 DEF Ordered
<1>2. ASSUME NEW h \in Handlers, Admit(h) PROVE Ordered'
  <2> DEFINE n == Len(log) + 1
  <2>1. PICK k \in Keys :
          /\ req[h] \in Request
          /\ DOMAIN log' = DOMAIN log \cup {n}
          /\ \A i \in DOMAIN log : log'[i] = log[i]
          /\ log'[n] = [key |-> k, ts |-> req[h].at, real |-> clock, by |-> h]
          /\ \/ req' = [req EXCEPT ![h] = NoRequest]
             \/ \E r \in Routed : req' = [req EXCEPT ![h] = [keys |-> r, at |-> clock]]
          /\ clock' = clock
    BY <1>2, Admitted
  <2>2. req[h] # NoRequest
    BY <1>2 DEF Admit
  <2>3. \A i \in DOMAIN log : i \in Nat /\ i < n /\ log[i] \in Admission
    BY DEF TypeOK
  <2>4. req'[h] = NoRequest \/ req'[h].at = clock
    BY <2>1 DEF TypeOK
  <2>5. \A g \in Handlers : g # h => req'[g] = req[g]
    BY <2>1 DEF TypeOK
  <2>6. \A i \in DOMAIN log' : log'[i].ts <= log'[i].real /\ log'[i].real <= clock'
    BY <2>1, <2>2 DEF Ordered, TypeOK
  <2>7. \A g \in Handlers : req'[g] # NoRequest => req'[g].at <= clock'
    BY <2>1, <2>4, <2>5 DEF Ordered, TypeOK
  <2>8. ASSUME NEW i \in DOMAIN log', NEW j \in DOMAIN log', i < j, log'[i].by = log'[j].by
        PROVE  log'[i].real <= log'[j].ts
    <3>1. i \in DOMAIN log
      BY <2>1, <2>3, <2>8 DEF TypeOK
    <3>2. CASE j \in DOMAIN log
      BY <2>1, <2>8, <3>1, <3>2 DEF Ordered
    <3>3. CASE j = n
      <4>1. log[i].by = h /\ log'[j].ts = req[h].at
        BY <2>1, <2>8, <3>1, <3>3
      <4> QED  BY <2>1, <2>2, <3>1, <4>1 DEF Ordered
    <3> QED  BY <2>1, <3>2, <3>3
  <2>9. ASSUME NEW i \in DOMAIN log', req'[log'[i].by] # NoRequest
        PROVE  log'[i].real <= req'[log'[i].by].at
    <3>1. log'[i].by \in Handlers
      BY <2>1, <2>3 DEF Admission
    <3>2. CASE log'[i].by = h
      BY <2>4, <2>6, <2>9, <2>1, <3>2
    <3>3. CASE log'[i].by # h
      <4>1. i \in DOMAIN log /\ log'[i] = log[i]
        BY <2>1, <3>3
      <4>2. req'[log[i].by] = req[log[i].by]
        BY <2>5, <3>1, <3>3, <4>1
      <4> QED  BY <2>9, <4>1, <4>2 DEF Ordered
    <3> QED  BY <3>2, <3>3
  <2> QED  BY <2>6, <2>7, <2>8, <2>9 DEF Ordered
<1>3. ASSUME NEW h \in Handlers, Reject(h) \/ Abandon(h) PROVE Ordered'
  <2>1. UNCHANGED <<clock, log>> /\ req' = [req EXCEPT ![h] = NoRequest]
    BY <1>3 DEF Reject, Abandon
  <2>2. \A i \in DOMAIN log : log[i].by \in Handlers
    BY LogTyped
  <2>3. \A g \in Handlers : req'[g] # NoRequest => req'[g] = req[g] /\ req[g] # NoRequest
    BY <2>1 DEF TypeOK
  <2> QED  BY <2>1, <2>2, <2>3 DEF Ordered
<1>4. CASE Tick
  <2>1. clock' = clock + 1 /\ UNCHANGED <<log, req>>
    BY <1>4 DEF Tick
  <2>2. \A i \in DOMAIN log : log[i].real \in Nat
    BY LogTyped
  <2>3. \A h \in Handlers : req[h] # NoRequest => req[h].at \in Nat
    BY DEF TypeOK, Request
  <2>4. \A i \in DOMAIN log : log[i].ts <= log[i].real /\ log[i].real <= clock'
    BY <2>1, <2>2 DEF Ordered, TypeOK
  <2>5. \A h \in Handlers : req[h] # NoRequest => req[h].at <= clock'
    BY <2>1, <2>3 DEF Ordered, TypeOK
  <2> QED  BY <2>1, <2>4, <2>5 DEF Ordered
<1>5. CASE UNCHANGED vars
  BY <1>5 DEF Ordered, vars
<1> QED  BY <1>1, <1>2, <1>3, <1>4, <1>5 DEF Next

\* Held and Exact are kept by every step: what a check forgets is older than
\* every window that is still open.
LEMMA LimitedStep ==
  ASSUME TypeOK, Limited, [Next]_vars
  PROVE  Limited'
<1>1. Ordered'
  BY OrderedStep DEF Limited
<1>2. clock \in Nat /\ Window \in Nat
  BY RateLimiterAssumption DEF TypeOK
<1>3. ASSUME NEW h \in Handlers, Admit(h) PROVE Held' /\ Exact'
  <2> DEFINE n == Len(log) + 1
             at == req[h].at
  <2>1. PICK k \in Keys :
          LET kept == Fresh(k, at)
          IN  /\ req[h] \in Request
              /\ kept \subseteq entries[k] /\ Cardinality(kept) < Limit[k]
              /\ Len(log') = Len(log) + 1 /\ DOMAIN log' = DOMAIN log \cup {n}
              /\ \A i \in DOMAIN log : log'[i] = log[i]
              /\ log'[n] = [key |-> k, ts |-> at, real |-> clock, by |-> h]
              /\ entries' = [entries EXCEPT ![k] = kept \cup {n}]
              /\ clock' = clock
    BY <1>3, Admitted
  <2>2. at \in Nat /\ at <= clock
    BY <1>3, <2>1 DEF Limited, Ordered, Admit, Request
  <2>3. \A i \in DOMAIN log : log[i].key = k /\ clock < log[i].ts + Window => i \in Fresh(k, at)
    BY <1>2, <2>2, LogTyped DEF Limited, Held, Fresh
  <2>4. Held'
    <3>1. entries'[k] = Fresh(k, at) \cup {n} /\ \A c \in Keys : c # k => entries'[c] = entries[c]
      BY <2>1 DEF TypeOK
    <3>2. ASSUME NEW i \in DOMAIN log', clock' < log'[i].ts + Window PROVE i \in entries'[log'[i].key]
      <4>1. CASE i = n
        BY <2>1, <3>1, <4>1
      <4>2. CASE i \in DOMAIN log
        BY <2>1, <2>3, <3>1, <3>2, <4>2, LogTyped DEF Limited, Held
      <4> QED  BY <2>1, <4>1, <4>2
    <3> QED  BY <3>2 DEF Held
  <2>5. ASSUME NEW c \in Keys, NEW x \in Nat PROVE Cardinality(Prompt(c, x)') <= Limit[c]
    <3>1. Prompt(c, x) \subseteq DOMAIN log /\ Limit[c] \in Nat
      BY RateLimiterAssumption DEF Prompt
    <3>2. Cardinality(Prompt(c, x)) <= Limit[c]
      BY DEF Limited, Exact
    <3>3. Prompt(c, x)' \subseteq Prompt(c, x) \cup {n}
      BY <2>1 DEF Prompt
    <3>4. Prompt(c, x) \subseteq Prompt(c, x)'
      BY <2>1 DEF Prompt
    <3>5. CASE n \notin Prompt(c, x)'
      <4>1. Prompt(c, x)' = Prompt(c, x)
        BY <3>3, <3>4, <3>5
      <4> QED  BY <3>2, <4>1
    <3>6. CASE n \in Prompt(c, x)'
      <4>1. c = k /\ x <= at /\ clock < x + Window
        BY <2>1, <3>6 DEF Prompt
      <4>2. Prompt(c, x) \subseteq Fresh(k, at)
        <5>1. ASSUME NEW i \in Prompt(c, x) PROVE i \in Fresh(k, at)
          <6>1. i \in DOMAIN log /\ log[i].key = k /\ x <= log[i].ts /\ log[i].ts \in Nat
            BY <4>1, <5>1, LogTyped DEF Prompt
          <6>2. clock < log[i].ts + Window
            BY <1>2, <4>1, <6>1
          <6> QED  BY <2>3, <6>1, <6>2
        <5> QED  BY <5>1
      <4>3. Fresh(k, at) \subseteq DOMAIN log
        BY DEF Fresh, TypeOK
      <4>4. Cardinality(Prompt(c, x)) <= Cardinality(Fresh(k, at))
        BY <4>2, <4>3, FiniteLog, FS_Subset
      <4>5. Prompt(c, x)' = Prompt(c, x) \cup {n}
        BY <3>3, <3>4, <3>6
      <4>6. n \notin DOMAIN log
        BY DEF TypeOK
      <4>7. Cardinality(Prompt(c, x)') = Cardinality(Prompt(c, x)) + 1
        BY <3>1, <4>5, <4>6, FiniteLog, FS_AddElement
      <4>8. Cardinality(Prompt(c, x)) \in Nat /\ Cardinality(Fresh(k, at)) \in Nat
        BY <3>1, <4>3, FiniteLog
      <4> QED  BY <2>1, <3>1, <4>1, <4>4, <4>7, <4>8
    <3> QED  BY <3>5, <3>6
  <2> QED  BY <2>4, <2>5 DEF Exact
<1>4. ASSUME NEW h \in Handlers, Reject(h) PROVE Held' /\ Exact'
  <2> DEFINE k == Head(req[h].keys)
             at == req[h].at
  <2>1. /\ UNCHANGED <<clock, log>>
        /\ entries' = [entries EXCEPT ![k] = Fresh(k, at)]
    BY <1>4 DEF Reject
  <2>2. at \in Nat /\ at <= clock
    BY <1>4 DEF TypeOK, Limited, Ordered, Reject, Request
  <2>3. \A i \in DOMAIN log : log[i].key = k /\ clock < log[i].ts + Window => i \in Fresh(k, at)
    BY <1>2, <2>2, LogTyped DEF Limited, Held, Fresh
  <2>4. Held'
    BY <2>1, <2>3, LogTyped DEF Limited, Held, TypeOK
  <2>5. \A c \in Keys, x \in Nat : Prompt(c, x)' = Prompt(c, x)
    BY <2>1 DEF Prompt
  <2> QED  BY <2>4, <2>5 DEF Limited, Exact
<1>5. ASSUME /\ UNCHANGED <<log, entries>> /\ clock' \in Nat /\ clock <= clock'
      PROVE  Held' /\ Exact'
  <2>1. Held'
    BY <1>2, <1>5, LogTyped DEF Limited, Held
  <2>2. \A c \in Keys, x \in Nat : Prompt(c, x)' = Prompt(c, x)
    BY <1>5 DEF Prompt
  <2> QED  BY <2>1, <2>2 DEF Limited, Exact
<1>6. ASSUME NEW h \in Handlers, NEW route \in Routes, Arrive(h, route) PROVE Held' /\ Exact'
  BY <1>2, <1>5, <1>6 DEF Arrive
<1>7. ASSUME NEW h \in Handlers, Abandon(h) PROVE Held' /\ Exact'
  BY <1>2, <1>5, <1>7 DEF Abandon
<1>8. CASE Tick
  BY <1>1, <1>2, <1>5, <1>8 DEF Tick, Limited
<1>9. CASE UNCHANGED vars
  BY <1>1, <1>2, <1>5, <1>9 DEF vars, Limited
<1> QED  BY <1>1, <1>3, <1>4, <1>6, <1>7, <1>8, <1>9 DEF Next, Limited

\* At most one late admission per handler: its next request is no older than
\* its last admission.
LEMMA FewLate ==
  ASSUME TypeOK, Ordered, NEW k \in Keys, NEW x \in Nat
  PROVE  Cardinality(LateAdmissions(k, x)) <= Cardinality(Handlers)
<1> DEFINE by == [i \in LateAdmissions(k, x) |-> log[i].by]
<1>1. by \in [LateAdmissions(k, x) -> Handlers]
  BY LogTyped DEF LateAdmissions
<1>2. ASSUME NEW i \in LateAdmissions(k, x), NEW j \in LateAdmissions(k, x), by[i] = by[j] PROVE i = j
  <2>1. i \in DOMAIN log /\ j \in DOMAIN log /\ log[i].by = log[j].by
    BY <1>2 DEF LateAdmissions
  <2>2. /\ x <= log[i].real /\ x <= log[j].real /\ log[i].ts < x /\ log[j].ts < x
        /\ \A m \in {i, j} : log[m].real \in Nat /\ log[m].ts \in Nat /\ m \in Nat
    BY <2>1, LogTyped DEF LateAdmissions, TypeOK
  <2>3. ~(i < j) /\ ~(j < i)
    BY <2>1, <2>2 DEF Ordered
  <2> QED  BY <2>2, <2>3
<1>3. by \in Injection(LateAdmissions(k, x), Handlers)
  BY <1>1, <1>2 DEF Injection, IsInjective
<1> QED  BY <1>3, FS_Injection, RateLimiterAssumption

\* For any number of handlers, limits and window: a window admits a key at most
\* as often as its limit, and once more for every handler.
THEOREM WindowAlwaysBounded == Spec => []WindowBounded
<1>1. Init => Limited
  <2> SUFFICES ASSUME Init PROVE Limited
    OBVIOUS
  <2>1. DOMAIN log = {} /\ \A h \in Handlers : req[h] = NoRequest
    BY DEF Init
  <2>2. \A k \in Keys, x \in Nat : Prompt(k, x) = {} /\ Limit[k] \in Nat
    BY <2>1, RateLimiterAssumption DEF Prompt
  <2>3. Exact
    BY <2>2, FS_EmptySet DEF Exact
  <2> QED  BY <2>1, <2>3 DEF Limited, Ordered, Held
<1>2. TypeOK /\ Limited /\ [Next]_vars => Limited'
  BY LimitedStep
<1>3. TypeOK /\ Limited => WindowBounded
  <2> SUFFICES ASSUME TypeOK, Limited, NEW k \in Keys, NEW x \in 0..clock
               PROVE  Cardinality(AdmittedIn(k, x)) <= Limit[k] + Cardinality(Handlers)
    BY DEF WindowBounded
  <2>1. x \in Nat /\ Limit[k] \in Nat /\ Cardinality(Handlers) \in Nat
    BY RateLimiterAssumption, FS_CardinalityType DEF TypeOK
  <2>2. AdmittedIn(k, x) \subseteq Prompt(k, x) \cup LateAdmissions(k, x)
    BY <2>1, LogTyped DEF AdmittedIn, Prompt, LateAdmissions
  <2>3. Prompt(k, x) \subseteq DOMAIN log /\ LateAdmissions(k, x) \subseteq DOMAIN log
    BY DEF Prompt, LateAdmissions
  <2>4. Prompt(k, x) \cup LateAdmissions(k, x) \subseteq DOMAIN log
        /\ Prompt(k, x) \cap LateAdmissions(k, x) \subseteq DOMAIN log
    BY <2>3
  <2>5. Cardinality(Prompt(k, x) \cup LateAdmissions(k, x))
          <= Cardinality(Prompt(k, x)) + Cardinality(LateAdmissions(k, x))
    <3>1. IsFiniteSet(Prompt(k, x)) /\ IsFiniteSet(LateAdmissions(k, x))
      BY <2>3, FiniteLog
    <3>2. Cardinality(Prompt(k, x) \cup LateAdmissions(k, x))
            = Cardinality(Prompt(k, x)) + Cardinality(LateAdmissions(k, x))
              - Cardinality(Prompt(k, x) \cap LateAdmissions(k, x))
      BY <3>1, FS_Union
    <3>3. /\ Cardinality(Prompt(k, x)) \in Nat /\ Cardinality(LateAdmissions(k, x)) \in Nat
          /\ Cardinality(Prompt(k, x) \cap LateAdmissions(k, x)) \in Nat
      BY <2>3, <2>4, FiniteLog
    <3> QED  BY <3>2, <3>3
  <2>6. Cardinality(AdmittedIn(k, x)) <= Cardinality(Prompt(k, x) \cup LateAdmissions(k, x))
    BY <2>2, <2>4, FiniteLog, FS_Subset
  <2>7. Cardinality(Prompt(k, x)) <= Limit[k] /\ Cardinality(LateAdmissions(k, x)) <= Cardinality(Handlers)
    BY <2>1, FewLate DEF Limited, Exact
  <2>8. /\ Cardinality(Prompt(k, x)) \in Nat /\ Cardinality(LateAdmissions(k, x)) \in Nat
        /\ Cardinality(Prompt(k, x) \cup LateAdmissions(k, x)) \in Nat
    BY <2>3, <2>4, FiniteLog
  <2>9. AdmittedIn(k, x) \subseteq DOMAIN log
    BY DEF AdmittedIn
  <2> QED  BY <2>1, <2>5, <2>6, <2>7, <2>8, <2>9, FiniteLog
<1> QED  BY <1>1, <1>2, <1>3, LimiterTypeCorrect, PTL DEF Spec
-----------------------------------------------------------------------------
\* Challenges: no hint's text and no hidden challenge reaches a player it is not
\* for, a list does not contradict itself, and a delete leaves few solves behind.

\* A new call is typed, and so is what is hidden.
LEMMA NewTyped ==
  ASSUME AdminTypeOK, NEW kind \in {"list", "get", "delete", "purge", "submit"}, NEW a \in Accounts,
         NEW i \in Ids, NEW team \in Teams \cup {NoTeam}
  PROVE  NewCall(kind, a, i, team) \in Call
BY DEF AdminTypeOK, NewCall, Call, Empty, Table, HiddenIn, Present

USE AdminAssumption

\* Where a call is in its handler follows from its kind; a player is no admin to
\* any call.
CallsInPlace ==
  \A h \in Calls :
    /\ pc[h] = "purge" => call[h].kind = "purge"
    /\ pc[h] = "delete" => call[h].kind \in {"delete", "purge"}
    /\ pc[h] = "save" => call[h].kind = "submit"
    /\ pc[h] # "idle" /\ call[h].admin => call[h].account \in Admins


\* What a step does to a call that is under way, and what a call is at its start.
GoesOn(h) ==
  call[h] # NoCall /\ call'[h] # NoCall =>
    /\ call'[h].kind = call[h].kind /\ call'[h].account = call[h].account
    /\ call'[h].id = call[h].id /\ call'[h].team = call[h].team
    /\ call'[h].purges = call[h].purges /\ call'[h].gap = call[h].gap
    /\ call[h].was \subseteq call'[h].was
    /\ call'[h].hid \subseteq call[h].hid
    /\ UNCHANGED challenges \/ call'[h].hid \subseteq HiddenIn(challenges')
    /\ call'[h].unlocked \in {call[h].unlocked, {}, UnlockedBy(call[h])}
    /\ \/ call'[h].challenges = call[h].challenges
       \/ \A i \in Ids : call'[h].challenges[i] \in {challenges[i], NoChallenge}

Begins(h) ==
  call[h] = NoCall /\ call'[h] # NoCall =>
    /\ UNCHANGED <<challenges, purges>>
    /\ call'[h].team \in call'[h].was \cup {NoTeam}
    /\ call'[h].hid = HiddenIn(challenges)
    /\ call'[h].unlocked = {} /\ call'[h].challenges = Empty
    /\ call'[h].kind = "submit" => /\ call'[h].purges = purges[call'[h].id]
                                   /\ call'[h].gap = Clearing(call'[h].id)

Moves == \A h \in Calls : GoesOn(h) /\ Begins(h)

\* A step that touches no call.
LEMMA CallsKept ==
  ASSUME UNCHANGED <<call, challenges>>
  PROVE  Moves
BY DEF Moves, GoesOn, Begins

\* A step of one handler, which goes on with r.
LEMMA HandlerStep ==
  ASSUME AdminTypeOK, CallsInPlace, NEW h \in Calls, NEW r \in Call \cup {NoCall},
         NEW to \in {"idle", "challenges", "submissions", "unlocks", "account", "served",
                     "purge", "delete", "save"},
         to = "idle" <=> r = NoCall,
         to = "purge" => r.kind = "purge",
         to = "delete" => r.kind \in {"delete", "purge"},
         to \in {"purge", "delete"} => r.account \in Admins,
         to = "save" => r.kind = "submit",
         r # NoCall /\ r.admin => r.account \in Admins,
         call' = [call EXCEPT ![h] = r], pc' = [pc EXCEPT ![h] = to],
         UNCHANGED <<challenges, unlocks, team_of>>,
         submissions' \subseteq Row, purges' \in [Ids -> Nat], writes' \in 0..MaxWrites,
         GoesOn(h), Begins(h)
  PROVE  AdminTypeOK' /\ CallsInPlace' /\ Moves
<1>1. /\ call'[h] = r /\ pc'[h] = to
      /\ \A x \in Calls \ {h} : call'[x] = call[x] /\ pc'[x] = pc[x]
      /\ call' \in [Calls -> Call \cup {NoCall}]
  BY DEF AdminTypeOK
<1>2. AdminTypeOK'
  BY <1>1 DEF AdminTypeOK
<1>3. CallsInPlace'
  BY <1>1 DEF CallsInPlace, AdminTypeOK
<1>4. Moves
  BY <1>1 DEF Moves, GoesOn, Begins
<1> QED  BY <1>2, <1>3, <1>4

LEMMA ViewStep ==
  ASSUME AdminTypeOK, CallsInPlace, NEW h \in Calls, NEW kind \in {"list", "get"},
         NEW a \in Accounts, NEW i \in Ids, View(h, kind, a, i)
  PROVE  AdminTypeOK' /\ CallsInPlace' /\ Moves
<1>1. PICK team \in OrDefault(team_of[a], NoTeam) :
        call' = [call EXCEPT ![h] = NewCall(kind, a, i, team)]
  BY DEF View
<1> DEFINE r == NewCall(kind, a, i, team)
<1>2. team \in {team_of[a], NoTeam} /\ team \in Teams \cup {NoTeam}
  BY <1>1 DEF OrDefault, AdminTypeOK
<1>3. r \in Call
  BY <1>2, NewTyped
<1>4. pc[h] = "idle" /\ pc' = [pc EXCEPT ![h] = "challenges"]
  BY DEF View, Goto
<1>5. call[h] = NoCall /\ call'[h] = r
  BY <1>1, <1>4 DEF AdminTypeOK
<1>6. /\ r.team = team /\ r.was = {team_of[a]} /\ r.hid = HiddenIn(challenges)
      /\ r.unlocked = {} /\ r.challenges = Empty /\ r.kind = kind
  BY DEF NewCall
<1>7. ~r.admin /\ r # NoCall
  BY <1>3 DEF NewCall
<1> HIDE DEF r
<1>8. GoesOn(h) /\ Begins(h)
  BY <1>2, <1>5, <1>6 DEF GoesOn, Begins, View
<1> QED  BY <1>1, <1>3, <1>4, <1>7, <1>8, HandlerStep DEF View, AdminTypeOK, r

\* What a read leaves of a call.
SameRequest(r, s) ==
  /\ s.kind = r.kind /\ s.account = r.account /\ s.id = r.id /\ s.team = r.team
  /\ s.purges = r.purges /\ s.gap = r.gap /\ s.was = r.was /\ s.hid = r.hid

\* A read: the call goes on with some of its other fields replaced.
LEMMA ReadStep ==
  ASSUME AdminTypeOK, CallsInPlace, NEW h \in Calls, NEW r \in Call,
         NEW to \in {"submissions", "unlocks", "account", "served"},
         pc[h] \in {"challenges", "submissions", "unlocks", "account"},
         call' = [call EXCEPT ![h] = r], pc' = [pc EXCEPT ![h] = to],
         SameRequest(call[h], r),
         r.unlocked \in {call[h].unlocked, {}, UnlockedBy(call[h])},
         \/ r.challenges = call[h].challenges
         \/ \A i \in Ids : r.challenges[i] \in {challenges[i], NoChallenge},
         r.admin => call[h].admin \/ r.account \in Admins,
         UNCHANGED <<challenges, submissions, unlocks, team_of, answer, purges, writes>>
  PROVE  AdminTypeOK' /\ CallsInPlace' /\ Moves
<1>1. call'[h] = r /\ call[h] # NoCall
  BY DEF AdminTypeOK
<1>2. GoesOn(h) /\ Begins(h)
  BY <1>1 DEF GoesOn, Begins, SameRequest
<1>3. r # NoCall /\ (r.admin => r.account \in Admins)
  BY <1>1 DEF CallsInPlace, SameRequest
<1> QED  BY <1>2, <1>3, HandlerStep DEF AdminTypeOK

LEMMA ReadChallengesStep ==
  ASSUME AdminTypeOK, CallsInPlace, NEW h \in Calls, ReadChallenges(h)
  PROVE  AdminTypeOK' /\ CallsInPlace' /\ Moves
<1> DEFINE asked == IF call[h].kind = "list" THEN Ids ELSE {call[h].id}
           read == [i \in Ids |-> IF i \in asked THEN challenges[i] ELSE NoChallenge]
           r == [call[h] EXCEPT !.challenges = read]
<1>1. call[h] \in Call /\ pc[h] = "challenges" /\ pc' = [pc EXCEPT ![h] = "submissions"]
  BY DEF ReadChallenges, Goto, AdminTypeOK
<1>2. read \in Table /\ \A i \in Ids : read[i] \in {challenges[i], NoChallenge}
  BY DEF AdminTypeOK, Table
<1>3. call' = [call EXCEPT ![h] = r]
  BY DEF ReadChallenges
<1>4. UNCHANGED <<challenges, submissions, unlocks, team_of, answer, purges, writes>>
  BY DEF ReadChallenges
<1> HIDE DEF read
<1>5. /\ r \in Call /\ SameRequest(call[h], r) /\ r.unlocked = call[h].unlocked
      /\ r.challenges = read /\ r.admin = call[h].admin
  BY <1>1, <1>2 DEF Call, SameRequest
<1> HIDE DEF r
<1> QED  BY <1>1, <1>2, <1>3, <1>4, <1>5, ReadStep

LEMMA ReadSubmissionsStep ==
  ASSUME AdminTypeOK, CallsInPlace, NEW h \in Calls, ReadSubmissions(h)
  PROVE  AdminTypeOK' /\ CallsInPlace' /\ Moves
<1>1. call[h] \in Call /\ pc[h] = "submissions" /\ pc' = [pc EXCEPT ![h] = "unlocks"]
  BY DEF ReadSubmissions, Goto, AdminTypeOK
<1>2. PICK read \in OrDefault(Rows, {}) : call' = [call EXCEPT ![h].rows = read]
  BY DEF ReadSubmissions
<1>3. read \in SUBSET [challenge : Ids, account : Accounts, team : Teams \cup {NoTeam}]
  BY <1>2 DEF OrDefault, Rows, Row, AdminTypeOK
<1>4. UNCHANGED <<challenges, submissions, unlocks, team_of, answer, purges, writes>>
  BY DEF ReadSubmissions
<1> DEFINE r == [call[h] EXCEPT !.rows = read]
<1>5. /\ r \in Call /\ SameRequest(call[h], r) /\ r.unlocked = call[h].unlocked
      /\ r.challenges = call[h].challenges /\ r.admin = call[h].admin
  BY <1>1, <1>3 DEF Call, SameRequest
<1>6. call' = [call EXCEPT ![h] = r]
  BY <1>2
<1> HIDE DEF r
<1> QED  BY <1>1, <1>4, <1>5, <1>6, ReadStep

LEMMA ReadUnlocksStep ==
  ASSUME AdminTypeOK, CallsInPlace, NEW h \in Calls, ReadUnlocks(h)
  PROVE  AdminTypeOK' /\ CallsInPlace' /\ Moves
<1>1. call[h] \in Call /\ pc[h] = "unlocks" /\ pc' = [pc EXCEPT ![h] = "account"]
  BY DEF ReadUnlocks, Goto, AdminTypeOK
<1>2. PICK read \in OrDefault(UnlockedBy(call[h]), {}) : call' = [call EXCEPT ![h].unlocked = read]
  BY DEF ReadUnlocks
<1>3. UnlockedBy(call[h]) \subseteq Ids
  BY DEF UnlockedBy, AdminTypeOK
<1>4. read \in {{}, UnlockedBy(call[h])} /\ read \in SUBSET Ids
  BY <1>2, <1>3 DEF OrDefault
<1>5. UNCHANGED <<challenges, submissions, unlocks, team_of, answer, purges, writes>>
  BY DEF ReadUnlocks
<1> DEFINE r == [call[h] EXCEPT !.unlocked = read]
<1>6. /\ r \in Call /\ SameRequest(call[h], r) /\ r.unlocked = read
      /\ r.challenges = call[h].challenges /\ r.admin = call[h].admin
  BY <1>1, <1>4 DEF Call, SameRequest
<1>7. call' = [call EXCEPT ![h] = r]
  BY <1>2
<1> HIDE DEF r
<1> QED  BY <1>1, <1>4, <1>5, <1>6, <1>7, ReadStep

LEMMA ReadAccountStep ==
  ASSUME AdminTypeOK, CallsInPlace, NEW h \in Calls, ReadAccount(h)
  PROVE  AdminTypeOK' /\ CallsInPlace' /\ Moves
<1>1. call[h] \in Call /\ pc[h] = "account" /\ pc' = [pc EXCEPT ![h] = "served"]
  BY DEF ReadAccount, Goto, AdminTypeOK
<1> DEFINE own == <<team_of[call[h].account], call[h].account \in Admins>>
<1>2. PICK found \in OrDefault(own, <<NoTeam, FALSE>>) :
        call' = [call EXCEPT ![h].again = found[1], ![h].admin = found[2]]
  BY DEF ReadAccount
<1>3. found = own \/ found = <<NoTeam, FALSE>>
  BY <1>2 DEF OrDefault
<1>4. call[h].account \in Accounts
  BY <1>1 DEF Call
<1> DEFINE team == team_of[call[h].account]
           role == call[h].account \in Admins
<1>5. team \in Teams \cup {NoTeam}
  BY <1>4 DEF AdminTypeOK
<1> HIDE DEF team, role
<1>6. /\ found[1] \in {team, NoTeam} /\ found[2] \in BOOLEAN
      /\ found[2] => role
  <2>1. CASE found = <<team, role>>
    BY <2>1, role \in BOOLEAN DEF role
  <2>2. CASE found = <<NoTeam, FALSE>>
    BY <2>2
  <2> QED  BY <1>3, <2>1, <2>2 DEF team, role
<1>7. UNCHANGED <<challenges, submissions, unlocks, team_of, answer, purges, writes>>
  BY DEF ReadAccount
<1> DEFINE r == [call[h] EXCEPT !.again = found[1], !.admin = found[2]]
<1>8. /\ r \in Call /\ SameRequest(call[h], r) /\ r.unlocked = call[h].unlocked
      /\ r.challenges = call[h].challenges /\ r.admin = found[2]
  BY <1>1, <1>5, <1>6 DEF Call, SameRequest
<1>9. call' = [call EXCEPT ![h] = r]
  BY <1>2
<1>10. r.admin => r.account \in Admins
  BY <1>6, <1>8 DEF SameRequest, role
<1> HIDE DEF r
<1> QED  BY <1>1, <1>7, <1>8, <1>9, <1>10, ReadStep

LEMMA LeaveStep ==
  ASSUME AdminTypeOK, CallsInPlace, NEW h \in Calls, Leave(h)
  PROVE  AdminTypeOK' /\ CallsInPlace' /\ Moves
<1>1. /\ call' = [call EXCEPT ![h] = NoCall] /\ pc' = [pc EXCEPT ![h] = "idle"]
      /\ UNCHANGED <<challenges, submissions, unlocks, team_of, purges, writes>>
  BY DEF Leave, Finish
<1>2. call'[h] = NoCall
  BY <1>1 DEF AdminTypeOK
<1>3. GoesOn(h) /\ Begins(h)
  BY <1>2 DEF GoesOn, Begins
<1> QED  BY <1>1, <1>3, HandlerStep DEF AdminTypeOK

LEMMA DeleteStep ==
  ASSUME AdminTypeOK, CallsInPlace, NEW h \in Calls, NEW a \in Accounts, NEW i \in Ids,
         NEW purging \in BOOLEAN, Delete(h, a, i, purging)
  PROVE  AdminTypeOK' /\ CallsInPlace' /\ Moves
<1> DEFINE kind == IF purging THEN "purge" ELSE "delete"
           r == NewCall(kind, a, i, NoTeam)
           to == IF purging THEN "purge" ELSE "delete"
<1>1. /\ call' = [call EXCEPT ![h] = r]
      /\ pc[h] = "idle" /\ pc' = [pc EXCEPT ![h] = to]
      /\ a \in Admins
      /\ UNCHANGED <<challenges, submissions, unlocks, team_of, purges>>
      /\ writes' \in 0..MaxWrites
  BY DEF Delete, Goto, IsAdmin, Write, AdminTypeOK
<1>2. r \in Call
  BY NewTyped
<1>3. call[h] = NoCall /\ call'[h] = r
  BY <1>1 DEF AdminTypeOK
<1>4. GoesOn(h) /\ Begins(h)
  BY <1>1, <1>3 DEF GoesOn, Begins, NewCall
<1>5. r # NoCall /\ ~r.admin /\ r.kind = kind /\ r.account = a
  BY <1>2 DEF NewCall
<1>6. to = kind /\ to \in {"purge", "delete"}
  OBVIOUS
<1> HIDE DEF r, to, kind
<1> QED  BY <1>1, <1>2, <1>4, <1>5, <1>6, HandlerStep DEF AdminTypeOK

LEMMA SubmitStep ==
  ASSUME AdminTypeOK, CallsInPlace, NEW h \in Calls, NEW a \in Accounts, NEW i \in Ids,
         Submit(h, a, i)
  PROVE  AdminTypeOK' /\ CallsInPlace' /\ Moves
<1> DEFINE new == NewCall("submit", a, i, team_of[a])
           between == Clearing(i)
           r == [new EXCEPT !.purges = purges[i], !.gap = between]
<1>1. /\ call' = [call EXCEPT ![h] = r]
      /\ pc[h] = "idle" /\ pc' = [pc EXCEPT ![h] = "save"]
      /\ UNCHANGED <<challenges, submissions, unlocks, team_of, purges, writes>>
  BY DEF Submit, Goto
<1>2. new \in Call /\ purges[i] \in Nat /\ between \in BOOLEAN
  BY NewTyped DEF AdminTypeOK, Clearing
<1>3. call[h] = NoCall /\ call'[h] = r
  BY <1>1 DEF AdminTypeOK
<1>4. /\ new.team = team_of[a] /\ new.was = {team_of[a]} /\ new.hid = HiddenIn(challenges)
      /\ new.unlocked = {} /\ new.challenges = Empty /\ new.kind = "submit" /\ new.id = i
      /\ ~new.admin
  BY DEF NewCall
<1> HIDE DEF new, between
<1>5. /\ r \in Call /\ r.team = new.team /\ r.was = new.was /\ r.hid = new.hid
      /\ r.unlocked = {} /\ r.challenges = Empty /\ r.kind = "submit" /\ r.id = i
      /\ r.admin = new.admin /\ r.purges = purges[i] /\ r.gap = between
  BY <1>2, <1>4 DEF Call
<1> HIDE DEF r
<1>6. GoesOn(h) /\ Begins(h)
  BY <1>1, <1>3, <1>4, <1>5 DEF GoesOn, Begins, between
<1> QED  BY <1>1, <1>4, <1>5, <1>6, HandlerStep DEF AdminTypeOK

LEMMA DeleteSolvesStep ==
  ASSUME AdminTypeOK, CallsInPlace, NEW h \in Calls, DeleteSolves(h)
  PROVE  AdminTypeOK' /\ CallsInPlace' /\ Moves
<1>1. call[h] \in Call /\ pc[h] = "purge" /\ pc' = [pc EXCEPT ![h] = "delete"]
  BY DEF DeleteSolves, Goto, AdminTypeOK
<1>2. call[h].id \in Ids
  BY <1>1 DEF Call
<1>5. submissions' \subseteq Row
  BY <1>2 DEF DeleteSolves, Kept, AdminTypeOK
<1>3. UNCHANGED <<call, challenges, unlocks, team_of, purges, writes>>
  BY DEF DeleteSolves
<1>4. AdminTypeOK' /\ CallsInPlace'
  BY <1>1, <1>3, <1>5 DEF AdminTypeOK, CallsInPlace
<1> QED  BY <1>3, <1>4, CallsKept

\* There is a key that no row has, as there are more keys than rows.
LEMMA KeyIsFresh ==
  ASSUME IsFiniteSet(submissions)
  PROVE  /\ FreshKey \in 0..Cardinality(submissions)
         /\ \A s \in submissions : s.key # FreshKey
<1> DEFINE Used == {s.key : s \in submissions}
           key == [s \in submissions |-> s.key]
           Numbers == 0..Cardinality(submissions)
<1>1. Cardinality(submissions) \in Nat
  BY FS_CardinalityType
<1>2. key \in Surjection(submissions, Used)
  BY DEF Surjection
<1>3. IsFiniteSet(Used) /\ Cardinality(Used) <= Cardinality(submissions)
  BY <1>2, FS_Surjection
<1>4. Cardinality(Used) \in Nat
  BY <1>3, FS_CardinalityType
<1>5. IsFiniteSet(Numbers) /\ Cardinality(Numbers) = Cardinality(submissions) + 1
  BY <1>1, FS_Interval
<1> HIDE DEF Numbers
<1>6. ~(Numbers \subseteq Used)
  <2> SUFFICES ASSUME Numbers \subseteq Used  PROVE FALSE
    OBVIOUS
  <2>1. Cardinality(Numbers) <= Cardinality(Used)
    BY <1>3, FS_Subset
  <2> QED  BY <2>1, <1>1, <1>3, <1>4, <1>5
<1>7. \E k \in Numbers : \A s \in submissions : s.key # k
  BY <1>6
<1> QED  BY <1>7 DEF FreshKey, Numbers

LEMMA SaveStep ==
  ASSUME AdminTypeOK, CallsInPlace, NEW h \in Calls, IsFiniteSet(submissions), Save(h)
  PROVE  AdminTypeOK' /\ CallsInPlace' /\ Moves
<1>1. /\ call[h] \in Call /\ pc' = [pc EXCEPT ![h] = "idle"]
      /\ call' = [call EXCEPT ![h] = NoCall]
      /\ UNCHANGED <<challenges, unlocks, team_of, purges, writes>>
  BY DEF Save, Finish, AdminTypeOK
<1> DEFINE row == [key |-> FreshKey, challenge |-> call[h].id, account |-> call[h].account,
                   team |-> call[h].team, purges |-> call[h].purges, gap |-> call[h].gap]
<1>2. FreshKey \in Nat
  BY KeyIsFresh, FS_CardinalityType
<1>3. row \in Row
  BY <1>1, <1>2 DEF Call, Row
<1>4. submissions' = submissions \cup {row}
  BY DEF Save
<1> HIDE DEF row
<1>5. submissions' \subseteq Row
  BY <1>3, <1>4 DEF AdminTypeOK
<1>6. call'[h] = NoCall
  BY <1>1 DEF AdminTypeOK
<1>7. GoesOn(h) /\ Begins(h)
  BY <1>6 DEF GoesOn, Begins
<1> QED  BY <1>1, <1>5, <1>7, HandlerStep DEF AdminTypeOK

\* A change of the challenges: every call under way is told what is still hidden.
LEMMA WatchStep ==
  ASSUME AdminTypeOK, CallsInPlace, challenges' \in Table, Watch(HiddenIn(challenges')),
         pc' \in [Calls -> {"idle", "challenges", "submissions", "unlocks", "account", "served",
                           "purge", "delete", "save"}],
         \A h \in Calls : pc'[h] = pc[h] \/ (pc[h] = "delete" /\ pc'[h] = "served"),
         UNCHANGED <<submissions, unlocks, team_of>>, purges' \in [Ids -> Nat],
         writes' \in 0..MaxWrites
  PROVE  AdminTypeOK' /\ CallsInPlace' /\ Moves
<1> DEFINE hidden == HiddenIn(challenges')
<1>1. ASSUME NEW h \in Calls, call[h] = NoCall  PROVE  call'[h] = NoCall
  BY <1>1 DEF Watch
<1>2. ASSUME NEW h \in Calls, call[h] # NoCall
      PROVE  /\ call'[h] \in Call /\ call'[h].hid = call[h].hid \cap hidden
             /\ call'[h].kind = call[h].kind /\ call'[h].account = call[h].account
             /\ call'[h].id = call[h].id /\ call'[h].team = call[h].team
             /\ call'[h].purges = call[h].purges /\ call'[h].gap = call[h].gap
             /\ call'[h].was = call[h].was
             /\ call'[h].unlocked = call[h].unlocked
             /\ call'[h].challenges = call[h].challenges /\ call'[h].admin = call[h].admin
  <2>1. call[h] \in Call
    BY <1>2 DEF AdminTypeOK
  <2>2. call'[h] = [call[h] EXCEPT !.hid = @ \cap hidden]
    BY <1>2 DEF Watch
  <2> HIDE DEF hidden
  <2> QED  BY <2>1, <2>2 DEF Call
<1>3. DOMAIN call' = Calls /\ call' = [h \in Calls |-> call'[h]]
  BY DEF Watch
<1>4. call' \in [Calls -> Call \cup {NoCall}]
  BY <1>1, <1>2, <1>3
<1>5. \A h \in Calls : pc'[h] = "idle" <=> call'[h] = NoCall
  BY <1>1, <1>2 DEF AdminTypeOK
<1>6. AdminTypeOK'
  BY <1>2, <1>4, <1>5 DEF AdminTypeOK
<1>7. CallsInPlace'
  BY <1>2, <1>5 DEF CallsInPlace, AdminTypeOK
<1>8. Moves
  BY <1>1, <1>2 DEF Moves, GoesOn, Begins
<1> QED  BY <1>6, <1>7, <1>8

LEMMA CreateStep ==
  ASSUME AdminTypeOK, CallsInPlace, NEW i \in Ids, NEW form \in Forms,
         Create(i, form) \/ Patch(i, form)
  PROVE  AdminTypeOK' /\ CallsInPlace' /\ Moves
<1>1. form \in Challenge
  OBVIOUS
<1>2. challenges' \in Table
  <2>1. CASE Create(i, form)
    BY <1>1, <2>1 DEF Create, Table, AdminTypeOK
  <2>2. CASE Patch(i, form)
    <3>1. ASSUME challenges[i] # NoChallenge
          PROVE  Updated(challenges[i], form) \in Challenge
      BY <1>1, <3>1 DEF Updated, Challenge, Table, AdminTypeOK
    <3>2. challenges' = [challenges EXCEPT ![i] =
                           IF challenges[i] = NoChallenge THEN challenges[i]
                           ELSE Updated(challenges[i], form)]
      BY <2>2 DEF Patch
    <3> QED  BY <3>1, <3>2 DEF Table, AdminTypeOK
  <2> QED  BY <2>1, <2>2
<1>3. /\ Watch(HiddenIn(challenges'))
      /\ UNCHANGED <<submissions, unlocks, team_of, pc>> /\ purges' \in [Ids -> Nat]
      /\ writes' \in 0..MaxWrites
  BY DEF Create, Patch, Write, AdminTypeOK
<1>4. pc' \in [Calls -> {"idle", "challenges", "submissions", "unlocks", "account", "served",
                          "purge", "delete", "save"}]
  BY <1>3 DEF AdminTypeOK
<1>5. \A h \in Calls : pc'[h] = pc[h]
  BY <1>3
<1> QED  BY <1>2, <1>3, <1>4, <1>5, WatchStep

LEMMA DeleteChallengeStep ==
  ASSUME AdminTypeOK, CallsInPlace, NEW h \in Calls, DeleteChallenge(h)
  PROVE  AdminTypeOK' /\ CallsInPlace' /\ Moves
<1>1. /\ pc[h] = "delete" /\ pc' = [pc EXCEPT ![h] = "served"]
      /\ Watch(HiddenIn(challenges'))
      /\ UNCHANGED <<submissions, unlocks, team_of, writes>>
  BY DEF DeleteChallenge, Goto
<1>2. challenges' \in Table
  BY DEF DeleteChallenge, Table, AdminTypeOK
<1>3. pc' \in [Calls -> {"idle", "challenges", "submissions", "unlocks", "account", "served",
                          "purge", "delete", "save"}]
  BY <1>1 DEF AdminTypeOK
<1>4. \A x \in Calls : pc'[x] = pc[x] \/ (pc[x] = "delete" /\ pc'[x] = "served")
  BY <1>1 DEF AdminTypeOK
<1>5. writes' \in 0..MaxWrites /\ purges' \in [Ids -> Nat]
  BY <1>1 DEF DeleteChallenge, Call, AdminTypeOK
<1> QED  BY <1>1, <1>2, <1>3, <1>4, <1>5, WatchStep

LEMMA UnlockStep ==
  ASSUME AdminTypeOK, CallsInPlace, NEW a \in Accounts, NEW i \in Ids, UnlockHint(a, i)
  PROVE  AdminTypeOK' /\ CallsInPlace' /\ Moves
<1>1. AdminTypeOK'
  BY DEF UnlockHint, Write, AdminTypeOK
<1>2. CallsInPlace'
  BY DEF UnlockHint, CallsInPlace
<1>3. Moves
  BY CallsKept DEF UnlockHint
<1> QED  BY <1>1, <1>2, <1>3

LEMMA SetTeamStep ==
  ASSUME AdminTypeOK, CallsInPlace, NEW a \in Accounts, NEW t \in Teams \cup {NoTeam},
         SetTeam(a, t)
  PROVE  AdminTypeOK' /\ CallsInPlace' /\ Moves
<1>1. ASSUME NEW h \in Calls, call[h] = NoCall  PROVE  call'[h] = NoCall
  BY <1>1 DEF SetTeam
<1>2. ASSUME NEW h \in Calls, call[h] # NoCall
      PROVE  /\ call'[h] \in Call /\ call[h].was \subseteq call'[h].was
             /\ call'[h].kind = call[h].kind /\ call'[h].account = call[h].account
             /\ call'[h].id = call[h].id /\ call'[h].team = call[h].team
             /\ call'[h].purges = call[h].purges /\ call'[h].gap = call[h].gap
             /\ call'[h].hid = call[h].hid
             /\ call'[h].unlocked = call[h].unlocked
             /\ call'[h].challenges = call[h].challenges /\ call'[h].admin = call[h].admin
  <2>1. call[h] \in Call
    BY <1>2 DEF AdminTypeOK
  <2>2. call'[h] \in {call[h], [call[h] EXCEPT !.was = @ \cup {t}]}
    BY <1>2 DEF SetTeam
  <2> QED  BY <2>1, <2>2 DEF Call
<1>3. DOMAIN call' = Calls /\ call' = [h \in Calls |-> call'[h]]
  BY DEF SetTeam
<1>4. call' \in [Calls -> Call \cup {NoCall}]
  BY <1>1, <1>2, <1>3
<1>5. /\ team_of' \in [Accounts -> Teams \cup {NoTeam}] /\ writes' \in 0..MaxWrites
      /\ UNCHANGED <<challenges, submissions, unlocks, pc, answer, purges>>
  BY DEF SetTeam, Write, AdminTypeOK
<1>6. AdminTypeOK'
  BY <1>1, <1>2, <1>4, <1>5 DEF AdminTypeOK
<1>7. CallsInPlace'
  BY <1>1, <1>2, <1>5 DEF CallsInPlace, AdminTypeOK
<1>8. Moves
  BY <1>1, <1>2, <1>5 DEF Moves, GoesOn, Begins
<1> QED  BY <1>6, <1>7, <1>8

LEMMA Stutter ==
  ASSUME AdminTypeOK, CallsInPlace, UNCHANGED admin_vars
  PROVE  AdminTypeOK' /\ CallsInPlace' /\ Moves
<1>1. AdminTypeOK'
  BY DEF admin_vars, AdminTypeOK
<1>2. CallsInPlace'
  BY DEF admin_vars, CallsInPlace
<1> QED  BY <1>1, <1>2, CallsKept DEF admin_vars

\* Any step at all; FreshKey needs the table to be finite.
LEMMA AnyStep ==
  ASSUME AdminTypeOK, CallsInPlace, IsFiniteSet(submissions), [AdminNext]_admin_vars
  PROVE  AdminTypeOK' /\ CallsInPlace' /\ Moves
<1>1. ASSUME NEW h \in Calls, NEW a \in Accounts, NEW i \in Ids,
             \/ View(h, "get", a, i) \/ Submit(h, a, i)
             \/ \E purging \in BOOLEAN : Delete(h, a, i, purging)
      PROVE  AdminTypeOK' /\ CallsInPlace' /\ Moves
  BY <1>1, ViewStep, SubmitStep, DeleteStep
<1>2. ASSUME NEW h \in Calls, NEW a \in Accounts, View(h, "list", a, CHOOSE i \in Ids : TRUE)
      PROVE  AdminTypeOK' /\ CallsInPlace' /\ Moves
  <2>1. (CHOOSE i \in Ids : TRUE) \in Ids
    OBVIOUS
  <2> QED  BY <1>2, <2>1, ViewStep
<1>3. ASSUME NEW h \in Calls,
             \/ ReadChallenges(h) \/ ReadSubmissions(h) \/ ReadUnlocks(h) \/ ReadAccount(h)
             \/ DeleteSolves(h) \/ DeleteChallenge(h) \/ Save(h) \/ Leave(h)
      PROVE  AdminTypeOK' /\ CallsInPlace' /\ Moves
  BY <1>3, ReadChallengesStep, ReadSubmissionsStep, ReadUnlocksStep, ReadAccountStep,
     DeleteSolvesStep, DeleteChallengeStep, SaveStep, LeaveStep
<1>4. ASSUME NEW a \in Accounts,
             \/ \E i \in Ids : UnlockHint(a, i)
             \/ \E t \in Teams \cup {NoTeam} : SetTeam(a, t)
      PROVE  AdminTypeOK' /\ CallsInPlace' /\ Moves
  BY <1>4, UnlockStep, SetTeamStep
<1> QED  BY <1>1, <1>2, <1>3, <1>4, CreateStep, Stutter DEF AdminNext
-----------------------------------------------------------------------------
\* A delete has outrun what found its challenge before it: r is a row or a call.
Outrun(r, i) == ~r.gap /\ (r.purges < purges[i] \/ Clearing(i))

\* Besides the types: the solves of a challenge that a delete outran, and the
\* submissions under way that may still add to them, are fewer than the calls; a
\* delete leaves none of the former, and its own call is none of the latter.
Left(i) == {s \in submissions : s.challenge = i /\ Outrun(s, i)}

Late(i) == {h \in Calls : /\ call[h] # NoCall /\ call[h].kind = "submit"
                         /\ call[h].id = i /\ Outrun(call[h], i)}

FewLeft ==
  /\ IsFiniteSet(submissions)
  /\ \A i \in Ids : Cardinality(Left(i)) + Cardinality(Late(i)) < Cardinality(Calls)

LEMMA Sizes ==
  ASSUME IsFiniteSet(submissions), NEW i
  PROVE  /\ IsFiniteSet(Left(i)) /\ Cardinality(Left(i)) \in Nat
         /\ IsFiniteSet(Late(i)) /\ Cardinality(Late(i)) \in Nat
         /\ Cardinality(Calls) \in Nat
<1>1. Left(i) \subseteq submissions /\ Late(i) \subseteq Calls
  BY DEF Left, Late
<1> QED  BY <1>1, FS_Subset, FS_CardinalityType

\* A purge that comes to its end: what it outran was outrun before.
Ends ==
  /\ \A i \in Ids : Clearing(i)' => Clearing(i)
  /\ \A i \in Ids : purges'[i] = purges[i] \/ (purges'[i] = purges[i] + 1 /\ Clearing(i))

\* A step that leaves the table alone and outruns nothing new adds to neither: a
\* call that begins has not been outrun.
LEMMA FewStay ==
  ASSUME AdminTypeOK, Moves, AdminTypeOK', FewLeft, UNCHANGED submissions, Ends
  PROVE  FewLeft'
<1> SUFFICES ASSUME NEW i \in Ids
             PROVE  Cardinality(Left(i)') + Cardinality(Late(i)') < Cardinality(Calls)
  BY DEF FewLeft
<1>1. purges[i] \in Nat /\ purges'[i] \in Nat
  BY DEF AdminTypeOK
<1>2. ASSUME NEW gap, NEW n \in Nat,
             ~gap /\ (n < purges'[i] \/ Clearing(i)')
      PROVE  n < purges[i] \/ Clearing(i)
  BY <1>1, <1>2 DEF Ends
<1>3. Left(i)' \subseteq Left(i)
  <2> SUFFICES ASSUME NEW s \in Left(i)'  PROVE  s \in Left(i)
    OBVIOUS
  <2>1. /\ s \in submissions /\ s.challenge = i
        /\ ~s.gap /\ (s.purges < purges'[i] \/ Clearing(i)')
    BY DEF Left, Outrun
  <2>2. s.purges \in Nat
    BY <2>1 DEF AdminTypeOK, Row
  <2> QED  BY <1>2, <2>1, <2>2 DEF Left, Outrun
<1>4. Late(i)' \subseteq Late(i)
  <2> SUFFICES ASSUME NEW h \in Late(i)'  PROVE  h \in Late(i)
    OBVIOUS
  <2>1. /\ h \in Calls /\ call'[h] # NoCall /\ call'[h].kind = "submit" /\ call'[h].id = i
        /\ ~call'[h].gap /\ (call'[h].purges < purges'[i] \/ Clearing(i)')
    BY DEF Late, Outrun
  <2>2. call'[h] \in Call
    BY <2>1 DEF AdminTypeOK
  <2>3. call'[h].purges \in Nat
    BY <2>2 DEF Call
  <2>4. call'[h].purges < purges[i] \/ Clearing(i)
    BY <1>2, <2>1, <2>3
  <2>5. call[h] # NoCall
    BY <1>1, <2>1, <2>4 DEF Moves, Begins
  <2>6. call[h].kind = "submit" /\ call[h].id = i /\ Outrun(call[h], i)
    BY <2>1, <2>4, <2>5 DEF Moves, GoesOn, Outrun
  <2> QED  BY <2>1, <2>5, <2>6 DEF Late
<1>5. /\ Cardinality(Late(i)') <= Cardinality(Late(i))
      /\ Cardinality(Left(i)') <= Cardinality(Left(i))
      /\ Cardinality(Late(i)') \in Nat /\ Cardinality(Left(i)') \in Nat
  BY <1>3, <1>4, FS_Subset, FS_CardinalityType, Sizes DEF FewLeft
<1>6. /\ Cardinality(Late(i)) \in Nat /\ Cardinality(Left(i)) \in Nat
      /\ Cardinality(Calls) \in Nat
      /\ Cardinality(Left(i)) + Cardinality(Late(i)) < Cardinality(Calls)
  BY Sizes DEF FewLeft
<1> QED  BY <1>5, <1>6

LEMMA FewInit ==
  ASSUME AdminInit
  PROVE  FewLeft
<1>1. submissions = {} /\ IsFiniteSet(submissions)
  BY FS_EmptySet DEF AdminInit
<1>2. \A i \in Ids : Left(i) = {} /\ Late(i) = {}
  BY <1>1, Zenon DEF AdminInit, Left, Late
<1>3. Cardinality(Calls) \in Nat /\ Cardinality(Calls) # 0
  BY FS_CardinalityType, FS_EmptySet
<1>4. Cardinality({}) = 0 /\ Cardinality({}) + Cardinality({}) < Cardinality(Calls)
  BY <1>3, FS_EmptySet
<1> QED
  BY <1>1, <1>2, <1>4, Zenon DEF FewLeft

LEMMA FewAfterSave ==
  ASSUME AdminTypeOK, CallsInPlace, FewLeft, NEW h \in Calls, Save(h)
  PROVE  FewLeft'
<1> DEFINE row == [key |-> FreshKey, challenge |-> call[h].id, account |-> call[h].account,
                   team |-> call[h].team, purges |-> call[h].purges, gap |-> call[h].gap]
<1>1. /\ submissions' = submissions \cup {row} /\ call' = [call EXCEPT ![h] = NoCall]
      /\ UNCHANGED purges /\ pc[h] = "save" /\ pc' = [pc EXCEPT ![h] = "idle"]
  BY DEF Save, Finish
<1>2. call[h] # NoCall /\ call[h].kind = "submit"
  BY <1>1 DEF CallsInPlace, AdminTypeOK
<1>3. row.challenge = call[h].id /\ row.purges = call[h].purges /\ row.gap = call[h].gap
  OBVIOUS
<1> HIDE DEF row
<1>6. \A x \in Calls \ {h} : call'[x] = call[x] /\ pc'[x] = pc[x]
  BY <1>1 DEF AdminTypeOK
<1>7. call'[h] = NoCall /\ pc'[h] = "idle"
  BY <1>1 DEF AdminTypeOK
<1>8. \A i : Clearing(i)' <=> Clearing(i)
  BY <1>1, <1>6, <1>7 DEF Clearing
<1>4. IsFiniteSet(submissions')
  BY <1>1, FS_AddElement DEF FewLeft
<1>5. ASSUME NEW i \in Ids
      PROVE  Cardinality(Left(i)') + Cardinality(Late(i)') < Cardinality(Calls)
  <2>1. /\ Cardinality(Left(i)) \in Nat /\ Cardinality(Late(i)) \in Nat
        /\ IsFiniteSet(Left(i)) /\ IsFiniteSet(Late(i)) /\ Cardinality(Calls) \in Nat
        /\ Cardinality(Left(i)) + Cardinality(Late(i)) < Cardinality(Calls)
    BY Sizes DEF FewLeft
  <2>2. Late(i)' = Late(i) \ {h}
    BY <1>6, <1>7, <1>8, <1>1 DEF Late, Outrun
  <2>5. Left(i)' = {s \in submissions \cup {row} : s.challenge = i /\ Outrun(s, i)}
    BY <1>1, <1>8 DEF Left, Outrun
  <2>3. CASE h \in Late(i)
    <3>1. Left(i)' \subseteq Left(i) \cup {row}
      BY <2>5 DEF Left
    <3>2. /\ IsFiniteSet(Left(i) \cup {row})
          /\ Cardinality(Left(i) \cup {row}) <= Cardinality(Left(i)) + 1
      <4>1. /\ IsFiniteSet(Left(i) \cup {row})
            /\ \/ Cardinality(Left(i) \cup {row}) = Cardinality(Left(i))
               \/ Cardinality(Left(i) \cup {row}) = Cardinality(Left(i)) + 1
        BY <2>1, FS_AddElement, Zenon
      <4> QED  BY <2>1, <4>1
    <3>3. /\ Cardinality(Left(i)') <= Cardinality(Left(i) \cup {row})
          /\ Cardinality(Left(i)') \in Nat /\ Cardinality(Left(i) \cup {row}) \in Nat
      BY <3>1, <3>2, FS_Subset, FS_CardinalityType
    <3>4. Cardinality(Late(i)') = Cardinality(Late(i)) - 1
      BY <2>1, <2>2, <2>3, FS_RemoveElement
    <3> QED  BY <2>1, <3>2, <3>3, <3>4
  <2>4. CASE h \notin Late(i)
    <3>1. Late(i)' = Late(i)
      BY <2>2, <2>4
    <3>2. ~(row.challenge = i /\ Outrun(row, i))
      BY <1>2, <1>3, <2>4 DEF Late, Outrun
    <3>3. Left(i)' = Left(i)
      BY <2>5, <3>2 DEF Left
    <3> QED  BY <2>1, <3>1, <3>3
  <2> QED  BY <2>3, <2>4
<1> QED  BY <1>4, <1>5 DEF FewLeft

LEMMA FewAfterPurge ==
  ASSUME AdminTypeOK, CallsInPlace, FewLeft, NEW h \in Calls, DeleteSolves(h)
  PROVE  FewLeft'
<1> DEFINE k == call[h].id
<1>1. /\ submissions' = {s \in submissions : s.challenge # k}
      /\ UNCHANGED <<call, purges>> /\ pc[h] = "purge" /\ call[h].kind = "purge"
      /\ pc' = [pc EXCEPT ![h] = "delete"]
  BY DEF DeleteSolves, Kept, Goto, CallsInPlace
<1>2. IsFiniteSet(submissions')
  BY <1>1, FS_Subset DEF FewLeft
<1>3. ASSUME NEW i \in Ids, i # k
      PROVE  Left(i)' = Left(i) /\ Late(i)' = Late(i)
  <2>1. Clearing(i)' <=> Clearing(i)
    BY <1>1, <1>3 DEF Clearing, AdminTypeOK
  <2>2. Late(i)' = Late(i)
    BY <1>1, <2>1 DEF Late, Outrun
  <2>3. Left(i)' = {s \in submissions' : s.challenge = i /\ Outrun(s, i)}
    BY <1>1, <2>1 DEF Left, Outrun
  <2>4. Left(i)' = Left(i)
    BY <1>1, <1>3, <2>3 DEF Left
  <2> QED  BY <2>2, <2>4
<1>4. ASSUME NEW i \in Ids, i = k
      PROVE  Cardinality(Left(i)') + Cardinality(Late(i)') < Cardinality(Calls)
  <2>1. Left(i)' = {}
    BY <1>1, <1>4 DEF Left
  <2>2. Late(i)' \subseteq Calls \ {h}
    BY <1>1, <1>4 DEF Late
  <2>3. /\ IsFiniteSet(Calls \ {h}) /\ Cardinality(Calls) \in Nat
        /\ Cardinality(Calls \ {h}) = Cardinality(Calls) - 1
    BY FS_RemoveElement, FS_CardinalityType
  <2>4. /\ Cardinality(Late(i)') <= Cardinality(Calls \ {h})
        /\ Cardinality(Late(i)') \in Nat
    BY <2>2, <2>3, FS_Subset, FS_CardinalityType
  <2> QED  BY <2>1, <2>3, <2>4, FS_EmptySet
<1>5. \A i \in Ids : Cardinality(Left(i)') + Cardinality(Late(i)') < Cardinality(Calls)
  <2> TAKE i \in Ids
  <2>1. CASE i = k
    BY <1>4, <2>1
  <2>2. CASE i # k
    <3>1. Left(i)' = Left(i) /\ Late(i)' = Late(i)
      BY <1>3, <2>2
    <3>2. Cardinality(Left(i)) + Cardinality(Late(i)) < Cardinality(Calls)
      BY DEF FewLeft
    <3> QED  BY <3>1, <3>2
  <2> QED  BY <2>1, <2>2
<1> QED  BY <1>2, <1>5 DEF FewLeft

\* Who stands between the two statements of a delete now stood there before, for
\* all steps but DeleteSolves.
NoneClears ==
  \A h \in Calls : pc'[h] = "delete" /\ call'[h].kind = "purge" => pc[h] = "delete"

LEMMA EndsByCalls ==
  ASSUME AdminTypeOK, Moves, AdminTypeOK', NoneClears,
         \A i \in Ids : purges'[i] = purges[i] \/ (purges'[i] = purges[i] + 1 /\ Clearing(i))
  PROVE  Ends
<1> SUFFICES ASSUME NEW i \in Ids, Clearing(i)'  PROVE  Clearing(i)
  BY DEF Ends
<1>1. PICK h \in Calls : pc'[h] = "delete" /\ call'[h].kind = "purge" /\ call'[h].id = i
  BY DEF Clearing
<1>2. pc[h] = "delete" /\ call[h] # NoCall /\ call'[h] # NoCall
  BY <1>1 DEF NoneClears, AdminTypeOK
<1>3. call[h].kind = "purge" /\ call[h].id = i
  BY <1>1, <1>2 DEF Moves, GoesOn
<1> QED  BY <1>2, <1>3 DEF Clearing

LEMMA FewStep ==
  ASSUME AdminTypeOK, CallsInPlace, FewLeft, [AdminNext]_admin_vars
  PROVE  FewLeft'
<1>1. AdminTypeOK' /\ Moves
  BY AnyStep DEF FewLeft
<1>2. CASE \E h \in Calls : Save(h)
  BY <1>2, FewAfterSave
<1>3. CASE \E h \in Calls : DeleteSolves(h)
  BY <1>3, FewAfterPurge
<1>4. ASSUME NEW h \in Calls, DeleteChallenge(h)
      PROVE  FewLeft'
  <2>1. /\ UNCHANGED submissions /\ pc[h] = "delete" /\ pc' = [pc EXCEPT ![h] = "served"]
        /\ purges' = IF call[h].kind = "purge" THEN [purges EXCEPT ![call[h].id] = @ + 1]
                     ELSE purges
    BY <1>4 DEF DeleteChallenge, Goto
  <2>2. NoneClears
    BY <2>1 DEF NoneClears, AdminTypeOK
  <2>3. ASSUME NEW i \in Ids
        PROVE  purges'[i] = purges[i] \/ (purges'[i] = purges[i] + 1 /\ Clearing(i))
    <3>1. DOMAIN purges = Ids
      BY DEF AdminTypeOK
    <3>2. CASE call[h].kind = "purge" /\ call[h].id = i
      BY <2>1, <3>1, <3>2 DEF Clearing
    <3>3. CASE ~(call[h].kind = "purge" /\ call[h].id = i)
      BY <2>1, <3>1, <3>3
    <3> QED  BY <3>2, <3>3
  <2> QED  BY <1>1, <2>1, <2>2, <2>3, EndsByCalls, FewStay
<1>5. CASE /\ ~\E h \in Calls : Save(h)
           /\ ~\E h \in Calls : DeleteSolves(h)
           /\ ~\E h \in Calls : DeleteChallenge(h)
  <2>1. UNCHANGED <<submissions, purges>> /\ NoneClears
    <3>1. ASSUME NEW h \in Calls, NEW a \in Accounts, NEW i \in Ids,
                 View(h, "get", a, i) \/ Submit(h, a, i)
          PROVE  UNCHANGED <<submissions, purges>> /\ NoneClears
      BY <3>1 DEF View, Submit, Goto, NoneClears, AdminTypeOK
    <3>2. ASSUME NEW h \in Calls, NEW a \in Accounts, NEW i \in Ids, NEW purging \in BOOLEAN,
                 Delete(h, a, i, purging)
          PROVE  UNCHANGED <<submissions, purges>> /\ NoneClears
      <4> DEFINE r == NewCall(IF purging THEN "purge" ELSE "delete", a, i, NoTeam)
      <4>1. /\ UNCHANGED <<submissions, purges>>
            /\ pc' = [pc EXCEPT ![h] = IF purging THEN "purge" ELSE "delete"]
            /\ call' = [call EXCEPT ![h] = r]
        BY <3>2 DEF Delete, Goto
      <4>2. r.kind = IF purging THEN "purge" ELSE "delete"
        BY DEF NewCall
      <4> HIDE DEF r
      <4>3. /\ pc'[h] = "delete" => call'[h].kind = "delete"
            /\ \A x \in Calls \ {h} : pc'[x] = pc[x]
        BY <4>1, <4>2 DEF AdminTypeOK
      <4> QED  BY <4>1, <4>3 DEF NoneClears
    <3>3. ASSUME NEW h \in Calls, NEW a \in Accounts, View(h, "list", a, CHOOSE i \in Ids : TRUE)
          PROVE  UNCHANGED <<submissions, purges>> /\ NoneClears
      BY <3>3 DEF View, Goto, NoneClears, AdminTypeOK
    <3>4. ASSUME NEW h \in Calls,
                 \/ ReadChallenges(h) \/ ReadSubmissions(h) \/ ReadUnlocks(h) \/ ReadAccount(h)
                 \/ Leave(h)
          PROVE  UNCHANGED <<submissions, purges>> /\ NoneClears
      <4>1. UNCHANGED <<submissions, purges>>
        BY <3>4 DEF ReadChallenges, ReadSubmissions, ReadUnlocks, ReadAccount, Leave
      <4>2. PICK to \in {"submissions", "unlocks", "account", "served", "idle"} :
              pc' = [pc EXCEPT ![h] = to]
        BY <3>4 DEF ReadChallenges, ReadSubmissions, ReadUnlocks, ReadAccount, Leave, Goto, Finish
      <4> QED  BY <4>1, <4>2 DEF NoneClears, AdminTypeOK
    <3>5. ASSUME NEW i \in Ids, NEW form \in Forms, Create(i, form) \/ Patch(i, form)
          PROVE  UNCHANGED <<submissions, purges>> /\ NoneClears
      BY <3>5 DEF Create, Patch, NoneClears
    <3>6. ASSUME NEW a \in Accounts, \/ \E i \in Ids : UnlockHint(a, i)
                                     \/ \E t \in Teams \cup {NoTeam} : SetTeam(a, t)
          PROVE  UNCHANGED <<submissions, purges>> /\ NoneClears
      BY <3>6 DEF UnlockHint, SetTeam, NoneClears
    <3>7. CASE UNCHANGED admin_vars
      BY <3>7 DEF admin_vars, NoneClears
    <3> HIDE DEF NoneClears
    <3> QED
      BY <1>5, <3>1, <3>2, <3>3, <3>4, <3>5, <3>6, <3>7 DEF AdminNext
  <2> QED  BY <1>1, <2>1, EndsByCalls, FewStay
<1> QED  BY <1>2, <1>3, <1>4, <1>5
-----------------------------------------------------------------------------
\* What a view has read: unlocks of its team, or of its account when it found
\* none, and the team is one the account was in; what was hidden all along was
\* hidden when the challenges were read.
ReadsRight ==
  \A h \in Calls : call[h] # NoCall =>
    /\ call[h].team \in call[h].was \cup {NoTeam}
    /\ call[h].unlocked \subseteq UnlockedBy(call[h])
    /\ call[h].hid \subseteq HiddenIn(challenges)
    /\ call[h].hid \cap Present(call[h].challenges) \subseteq HiddenIn(call[h].challenges)

LEMMA ReadsInit == AdminInit => ReadsRight
BY DEF AdminInit, ReadsRight

LEMMA ReadsStep ==
  ASSUME AdminTypeOK, CallsInPlace, IsFiniteSet(submissions), ReadsRight, [AdminNext]_admin_vars
  PROVE  ReadsRight'
<1>1. Moves /\ AdminTypeOK'
  BY AnyStep
<1>2. unlocks \subseteq unlocks'
  <2>1. ASSUME NEW h \in Calls, NEW a \in Accounts, NEW i \in Ids,
               \/ View(h, "get", a, i) \/ Submit(h, a, i)
               \/ \E s \in BOOLEAN : Delete(h, a, i, s)
        PROVE  unlocks' = unlocks
    BY <2>1 DEF View, Submit, Delete
  <2>2. ASSUME NEW h \in Calls, NEW a \in Accounts, View(h, "list", a, CHOOSE i \in Ids : TRUE)
        PROVE  unlocks' = unlocks
    BY <2>2 DEF View
  <2>3. ASSUME NEW h \in Calls,
               \/ ReadChallenges(h) \/ ReadSubmissions(h) \/ ReadUnlocks(h) \/ ReadAccount(h)
               \/ DeleteSolves(h) \/ DeleteChallenge(h) \/ Save(h) \/ Leave(h)
        PROVE  unlocks' = unlocks
    BY <2>3 DEF ReadChallenges, ReadSubmissions, ReadUnlocks, ReadAccount, DeleteSolves,
         DeleteChallenge, Save, Leave
  <2>4. ASSUME NEW i \in Ids, NEW form \in Forms, Create(i, form) \/ Patch(i, form)
        PROVE  unlocks' = unlocks
    BY <2>4 DEF Create, Patch
  <2>5. ASSUME NEW a \in Accounts, NEW i \in Ids, UnlockHint(a, i)
        PROVE  unlocks \subseteq unlocks'
    BY <2>5 DEF UnlockHint
  <2>6. ASSUME NEW a \in Accounts, NEW t \in Teams \cup {NoTeam}, SetTeam(a, t)
        PROVE  unlocks' = unlocks
    BY <2>6 DEF SetTeam
  <2>7. CASE UNCHANGED admin_vars
    BY <2>7 DEF admin_vars
  <2> QED
    BY <2>1, <2>2, <2>3, <2>4, <2>5, <2>6, <2>7 DEF AdminNext
<1> SUFFICES ASSUME NEW h \in Calls, call'[h] # NoCall
             PROVE  /\ call'[h].team \in call'[h].was \cup {NoTeam}
                    /\ call'[h].unlocked \subseteq UnlockedBy(call[h])'
                    /\ call'[h].hid \subseteq HiddenIn(challenges')
                    /\ call'[h].hid \cap Present(call'[h].challenges)
                          \subseteq HiddenIn(call'[h].challenges)
  BY DEF ReadsRight
<1>3. CASE call[h] = NoCall
  BY <1>1, <1>3 DEF Moves, Begins, Present, Empty
<1>4. CASE call[h] # NoCall
  <2>1. /\ GoesOn(h)
        /\ call[h].team \in call[h].was \cup {NoTeam}
        /\ call[h].unlocked \subseteq UnlockedBy(call[h])
        /\ call[h].hid \subseteq HiddenIn(challenges)
        /\ call[h].hid \cap Present(call[h].challenges) \subseteq HiddenIn(call[h].challenges)
    BY <1>1, <1>4 DEF Moves, ReadsRight
  <2>2. call'[h].team \in call'[h].was \cup {NoTeam}
    BY <1>4, <2>1 DEF GoesOn
  <2>3. UnlockedBy(call[h]) \subseteq UnlockedBy(call[h])'
    BY <1>2, <1>4, <2>1 DEF GoesOn, UnlockedBy, Unlocker
  <2>4. call'[h].unlocked \subseteq UnlockedBy(call[h])'
    BY <1>4, <2>1, <2>3 DEF GoesOn
  <2>5. call'[h].hid \subseteq HiddenIn(challenges')
    BY <1>4, <2>1 DEF GoesOn
  <2>6. call'[h].hid \cap Present(call'[h].challenges) \subseteq HiddenIn(call'[h].challenges)
    BY <1>4, <2>1 DEF GoesOn, HiddenIn, Present
  <2> QED  BY <2>2, <2>4, <2>5, <2>6
<1> QED  BY <1>3, <1>4
-----------------------------------------------------------------------------
\* The inductive invariant.
AdminInv == AdminTypeOK /\ CallsInPlace /\ FewLeft /\ ReadsRight

LEMMA InitInv == AdminInit => AdminInv
BY FewInit, ReadsInit DEF AdminInit, AdminInv, AdminTypeOK, CallsInPlace, Empty, Table

LEMMA StepInv == AdminInv /\ [AdminNext]_admin_vars => AdminInv'
<1> SUFFICES ASSUME AdminTypeOK, CallsInPlace, FewLeft, ReadsRight, [AdminNext]_admin_vars
             PROVE  AdminInv'
  BY DEF AdminInv
<1>1. IsFiniteSet(submissions)
  BY DEF FewLeft
<1> QED  BY <1>1, AnyStep, FewStep, ReadsStep DEF AdminInv

LEMMA AlwaysInv == AdminSpec => []AdminInv
BY InitInv, StepInv, PTL DEF AdminSpec

\* A player who is being sent a view has no admin's rights in it.
LEMMA PlayersHaveNoRights ==
  ASSUME AdminInv, NEW r \in PlayerViews
  PROVE  ~r.admin
BY DEF PlayerViews, AdminInv, CallsInPlace

\* Every reachable state of ChallengeAdmin is well typed.
THEOREM AdminTypeCorrect == AdminSpec => []AdminTypeOK
<1>1. AdminInv => AdminTypeOK
  BY DEF AdminInv
<1> QED  BY <1>1, AlwaysInv, PTL

\* api/challenges.rs:148-165: whatever reads fail, and whatever unlocks and changes
\* of team happen between the five reads of a view, no hint's text is sent to a
\* player but for an unlock of a team of theirs at that time, or of their own.
THEOREM HintsAlwaysEarned == AdminSpec => []HintsEarned
<1>1. AdminInv => HintsEarned
  <2> SUFFICES ASSUME AdminInv, NEW r \in PlayerViews, NEW i \in Ids,
                      i \in Shown(r), Entry(r, i).content
               PROVE  \E u \in unlocks :
                        /\ u.challenge = i
                        /\ \/ u.team \in r.was \ {NoTeam}
                           \/ u.team = NoTeam /\ u.account = r.account
    BY DEF HintsEarned
  <2>1. PICK h \in Calls : r = call[h] /\ pc[h] = "served"
    BY DEF PlayerViews
  <2>2. r # NoCall
    BY <2>1 DEF AdminInv, AdminTypeOK
  <2>3. r.team \in r.was \cup {NoTeam} /\ r.unlocked \subseteq UnlockedBy(r)
    BY <2>1, <2>2 DEF AdminInv, ReadsRight
  <2>4. i \in r.unlocked
    BY DEF Entry
  <2>5. PICK u \in unlocks : u.challenge = i /\ Unlocker(u, r.team, r.account)
    BY <2>3, <2>4 DEF UnlockedBy
  <2> QED  BY <2>3, <2>5 DEF Unlocker
<1> QED  BY <1>1, AlwaysInv, PTL

\* api/challenges.rs:245,343: the challenges are read four calls before the role
\* they are judged with, and that read may fail. A challenge that is hidden all
\* along is still in no player's view.
THEOREM HiddenAlwaysKept == AdminSpec => []HiddenKept
<1>1. AdminInv => HiddenKept
  <2> SUFFICES ASSUME AdminInv, NEW r \in PlayerViews, NEW i \in Shown(r), i \in r.hid
               PROVE  FALSE
    BY DEF HiddenKept
  <2>1. PICK h \in Calls : r = call[h] /\ pc[h] = "served"
    BY DEF PlayerViews
  <2>2. r # NoCall
    BY <2>1 DEF AdminInv, AdminTypeOK
  <2>3. i \in Present(r.challenges) /\ r.challenges[i].visibility # "Hidden"
    BY PlayersHaveNoRights DEF Shown
  <2>4. i \in HiddenIn(r.challenges)
    BY <2>1, <2>2, <2>3 DEF AdminInv, ReadsRight
  <2> QED  BY <2>3, <2>4 DEF HiddenIn
<1> QED  BY <1>1, AlwaysInv, PTL

\* api/challenges.rs:230-262: a list reads the account twice and the tables once.
\* Whatever changes in between, it shows every listed prerequisite of an open
\* challenge as solved, and a challenge locked but not Locked has a prerequisite
\* that is not listed or is shown unsolved.
THEOREM ListsAlwaysConsistent == AdminSpec => []ListConsistent
<1>1. AdminInv => ListConsistent
  <2> SUFFICES ASSUME AdminInv, NEW r \in PlayerViews, r.kind = "list", NEW i \in Shown(r)
               PROVE  LET listed == r.challenges[i].requires \cap Shown(r)
                      IN  /\ ~Entry(r, i).locked => \A q \in listed : Entry(r, q).solved
                          /\ Entry(r, i).locked =>
                               \/ r.challenges[i].visibility = "Locked"
                               \/ listed # r.challenges[i].requires
                               \/ \E q \in listed : ~Entry(r, q).solved
    BY DEF ListConsistent
  <2> DEFINE solved == SolvedIds(r, Team(r))
             needed == r.challenges[i].requires
  <2>1. \A q : Entry(r, q).solved = (q \in solved)
    BY Zenon DEF Entry
  <2>2. Entry(r, i).locked <=> r.challenges[i].visibility = "Locked" \/ ~(needed \subseteq solved)
    BY PlayersHaveNoRights, Zenon DEF Entry
  <2> QED  BY <2>1, <2>2
<1> QED  BY <1>1, AlwaysInv, PTL

\* repos/pg/challenges.rs:184-196: with no foreign key between them, submissions
\* that found their challenge before the first statement of a delete save their
\* rows after it: in any history at most one for each of the other calls, however
\* often the challenge is deleted and created again. Those that found it between
\* the two statements are not bounded.
THEOREM PurgedSolvesAlwaysFew == AdminSpec => []PurgedSolvesGone
<1>1. AdminInv => PurgedSolvesGone
  <2> SUFFICES ASSUME FewLeft, NEW i \in Ids
               PROVE  Cardinality({s \in submissions : /\ s.challenge = i /\ ~s.gap
                                                      /\ s.purges < purges[i]})
                        < Cardinality(Calls)
    BY DEF AdminInv, PurgedSolvesGone
  <2> DEFINE purged == {s \in submissions : s.challenge = i /\ ~s.gap /\ s.purges < purges[i]}
  <2>1. purged \subseteq Left(i)
    BY DEF Left, Outrun
  <2> HIDE DEF purged
  <2>2. Cardinality(Left(i)) + Cardinality(Late(i)) < Cardinality(Calls)
    BY DEF FewLeft
  <2>3. /\ IsFiniteSet(Left(i)) /\ Cardinality(Left(i)) \in Nat
        /\ Cardinality(Late(i)) \in Nat /\ Cardinality(Calls) \in Nat
    BY Sizes DEF FewLeft
  <2>4. Cardinality(purged) <= Cardinality(Left(i)) /\ Cardinality(purged) \in Nat
    BY <2>1, <2>3, FS_Subset, FS_CardinalityType
  <2>5. Cardinality(purged) < Cardinality(Calls)
    BY <2>2, <2>3, <2>4
  <2> QED  BY <2>5 DEF purged
<1> QED  BY <1>1, AlwaysInv, PTL
-----------------------------------------------------------------------------
\* Notifications: nothing is missed that a client is owed, and a filter reaches
\* only who earned it.

USE NotificationsAssumption, PlayersAssumption

\* A client that has opened its stream is filtered for somebody.
ViewersKnown ==
  \A c \in Clients : client[c].step # "open" => client[c].stream \in Viewer

Shape == NoticesTypeOK /\ ViewersKnown

\* The requests for which a client has a receiver of the channel.
Subscribed == {"list", "rows", "done"}

\* Every way a request of the admin or of a client moves on, and the rest.
HandlersMove ==
  \/ \E h \in Announcements :
       \/ \E target \in Targets : Announce(h, target)
       \/ ReadAccounts(h) \/ ReadSolves(h) \/ SaveRow(h) \/ Send(h) \/ GiveUp(h)
  \/ Broadcast

\* viewer_identity is of the account it is asked for, in one team or in none.
LEMMA IdentityTyped ==
  ASSUME NoticesTypeOK, NEW a \in Accounts \cup {NoAccount}, NEW v \in Identity(a)
  PROVE  v \in Viewer
<1>1. CASE a = NoAccount
  BY <1>1 DEF Identity, Viewer
<1>2. CASE a # NoAccount
  <2>1. PICK team \in OrDefault(team_of[a], NoTeam) : v = [account |-> a, team |-> team]
    BY <1>2 DEF Identity
  <2>2. team \in Teams \cup {NoTeam}
    BY <1>2, <2>1 DEF OrDefault, NoticesTypeOK
  <2> QED
    BY <2>1, <2>2 DEF Viewer
<1> QED
  BY <1>1, <1>2

\* The accounts a filter holds for are accounts, whatever the two reads returned.
LEMMA MatchedTyped ==
  ASSUME NoticesTypeOK, NEW h \in Announcements, request[h].step = "solves", NEW rows
  PROVE  Matched(request[h].teams, rows) \subseteq Accounts
<1>1. request[h].teams \in [Accounts -> Teams \cup {NoTeam}] \cup {<<>>}
  BY DEF NoticesTypeOK, Pending
<1>2. DOMAIN request[h].teams \subseteq Accounts
  BY <1>1
<1> QED
  BY <1>2 DEF Matched

\* What is about to be saved or sent is a notification.
LEMMA HeldTyped ==
  ASSUME NoticesTypeOK, NEW h \in Announcements, request[h].step \in {"save", "send"}
  PROVE  /\ request[h] = [step |-> request[h].step, notification |-> request[h].notification]
         /\ request[h].notification \in Notification
BY DEF NoticesTypeOK, Pending

\* Targets are posted resolved, or are the filter.
LEMMA Postable ==
  ASSUME NEW target \in Targets, target.kind # "Filter"
  PROVE  target \in Resolved
BY DEF Target

LEMMA NoticeTyped ==
  ASSUME NoticesTypeOK, NEW by \in Announcements \cup {"solve"}, NEW target \in Resolved
  PROVE  [by |-> by, target |-> target, at |-> now] \in Notification
BY DEF NoticesTypeOK, Notification
-----------------------------------------------------------------------------
\* services/notifications.rs:29-50: what is sent comes after all that was.
LEMMA AppendNotice ==
  ASSUME NEW seq \in Seq(Notification), NEW n \in Notification
  PROVE  /\ Append(seq, n) \in Seq(Notification)
         /\ Len(Append(seq, n)) = Len(seq) + 1
         /\ Len(seq) \in Nat
         /\ DOMAIN seq = 1..Len(seq)
         /\ DOMAIN Append(seq, n) = DOMAIN seq \cup {Len(seq) + 1}
         /\ \A p \in DOMAIN seq : Append(seq, n)[p] = seq[p] /\ seq[p] \in Notification
         /\ Append(seq, n)[Len(seq) + 1] = n
OBVIOUS

\* The steps of the admin's requests keep them well formed.
LEMMA RequestStep ==
  ASSUME NoticesTypeOK, NEW h \in Announcements,
         \/ \E target \in Targets : Announce(h, target)
         \/ ReadAccounts(h) \/ ReadSolves(h) \/ SaveRow(h) \/ Send(h) \/ GiveUp(h)
  PROVE  /\ request' \in [Announcements -> Pending]
         /\ \A i \in Announcements \ {h} : request'[i] = request[i]
         /\ UNCHANGED <<now, team_of, was, solves, client>>
<1> DEFINE Set(r) == request' = [request EXCEPT ![h] = r]
<1>0. request \in [Announcements -> Pending]
  BY DEF NoticesTypeOK
<1>1. ASSUME NEW r \in Pending, Set(r)
      PROVE  /\ request' \in [Announcements -> Pending]
             /\ \A i \in Announcements \ {h} : request'[i] = request[i]
  BY <1>0, <1>1
<1>2. ASSUME NEW n \in Notification
      PROVE  /\ [step |-> "save", notification |-> n] \in Pending
             /\ [step |-> "send", notification |-> n] \in Pending
  BY DEF Pending
<1>3. [step |-> "accounts"] \in Pending /\ [step |-> "done"] \in Pending
  BY DEF Pending
<1> HIDE DEF Set
<1>4. ASSUME NEW target \in Targets, Announce(h, target)
      PROVE  \E r \in Pending : Set(r)
  <2>1. CASE target.kind = "Filter"
    BY <1>3, <1>4, <2>1 DEF Announce, Set
  <2>2. CASE target.kind # "Filter"
    <3>1. [by |-> h, target |-> target, at |-> now] \in Notification
      BY <2>2, Postable, NoticeTyped
    <3> QED
      BY <1>2, <1>4, <2>2, <3>1 DEF Announce, Set
  <2> QED
    BY <2>1, <2>2
<1>5. ASSUME ReadAccounts(h)
      PROVE  \E r \in Pending : Set(r)
  <2>1. PICK teams \in OrDefault(team_of, <<>>) : Set([step |-> "solves", teams |-> teams])
    BY <1>5 DEF ReadAccounts, Set
  <2>2. teams \in [Accounts -> Teams \cup {NoTeam}] \cup {<<>>}
    BY <2>1 DEF OrDefault, NoticesTypeOK
  <2>3. [step |-> "solves", teams |-> teams] \in Pending
    BY <2>2 DEF Pending
  <2> QED
    BY <2>1, <2>3
<1>6. ASSUME ReadSolves(h)
      PROVE  \E r \in Pending : Set(r)
  <2>1. PICK rows \in OrDefault(solves, {}) :
          Set([step |-> "save", notification |->
                [by |-> h, at |-> now,
                 target |-> [kind |-> "Accounts", ids |-> Matched(request[h].teams, rows)]]])
    BY <1>6 DEF ReadSolves, Set
  <2>2. Matched(request[h].teams, rows) \subseteq Accounts
    BY <1>6, MatchedTyped DEF ReadSolves
  <2>3. [kind |-> "Accounts", ids |-> Matched(request[h].teams, rows)] \in Resolved
    BY <2>2 DEF Resolved
  <2>4. [by |-> h, at |-> now,
         target |-> [kind |-> "Accounts", ids |-> Matched(request[h].teams, rows)]]
          \in Notification
    BY <2>3, NoticeTyped
  <2> QED
    BY <1>2, <2>1, <2>4
<1>7. ASSUME SaveRow(h)
      PROVE  \E r \in Pending : Set(r)
  <2>1. /\ request[h] = [step |-> "save", notification |-> request[h].notification]
        /\ request[h].notification \in Notification
    BY <1>7, HeldTyped DEF SaveRow
  <2>2. [request[h] EXCEPT !.step = "send"] =
          [step |-> "send", notification |-> request[h].notification]
    BY <2>1
  <2>3. request' = [request EXCEPT ![h] = [request[h] EXCEPT !.step = "send"]]
    BY <1>7 DEF SaveRow
  <2>4. Set([step |-> "send", notification |-> request[h].notification])
    BY <2>2, <2>3 DEF Set
  <2> QED
    BY <1>2, <2>1, <2>4
<1>8. ASSUME Send(h) \/ GiveUp(h)
      PROVE  \E r \in Pending : Set(r)
  BY <1>3, <1>8 DEF Send, GiveUp, Set
<1>9. UNCHANGED <<now, team_of, was, solves, client>>
  BY DEF Announce, ReadAccounts, ReadSolves, SaveRow, Send, GiveUp
<1> QED
  BY <1>1, <1>4, <1>5, <1>6, <1>7, <1>8, <1>9

\* What a step adds to the table and to the channel is a notification; the
\* channel is only ever appended to.
LEMMA ChannelStep ==
  ASSUME NoticesTypeOK, HandlersMove
  PROVE  /\ table \subseteq table' /\ table' \subseteq Notification
         /\ \/ sent' = sent
            \/ \E n \in Notification : sent' = Append(sent, n)
         /\ UNCHANGED <<now, team_of, was, solves, client>>
<1>1. ASSUME NEW h \in Announcements,
             \/ \E target \in Targets : Announce(h, target)
             \/ ReadAccounts(h) \/ ReadSolves(h) \/ GiveUp(h)
      PROVE  UNCHANGED <<table, sent, now, team_of, was, solves, client>>
  BY <1>1 DEF Announce, ReadAccounts, ReadSolves, GiveUp
<1>2. ASSUME NEW h \in Announcements, SaveRow(h)
      PROVE  /\ table' = table \cup {request[h].notification}
             /\ request[h].notification \in Notification
             /\ UNCHANGED <<sent, now, team_of, was, solves, client>>
  BY <1>2, HeldTyped DEF SaveRow
<1>3. ASSUME NEW h \in Announcements, Send(h)
      PROVE  /\ sent' = Append(sent, request[h].notification)
             /\ request[h].notification \in Notification
             /\ UNCHANGED <<table, now, team_of, was, solves, client>>
  BY <1>3, HeldTyped DEF Send
<1>4. ASSUME Broadcast
      PROVE  /\ \E n \in Notification : sent' = Append(sent, n)
             /\ UNCHANGED <<table, now, team_of, was, solves, client>>
  <2>1. [kind |-> "Everyone"] \in Resolved
    BY DEF Resolved
  <2>2. [by |-> "solve", target |-> [kind |-> "Everyone"], at |-> now] \in Notification
    BY <2>1, NoticeTyped
  <2> QED
    BY <1>4, <2>2 DEF Broadcast
<1>5. table \subseteq Notification
  BY DEF NoticesTypeOK
<1> QED
  BY <1>1, <1>2, <1>3, <1>4, <1>5 DEF HandlersMove
-----------------------------------------------------------------------------
\* A receiver's place in the channel.
Placed(k, len) ==
  k.step \in Subscribed => k.start <= k.next /\ k.next <= len + 1

\* What a client may be: well formed, in place, and of a known viewer.
Fit(k, len) ==
  /\ k \in Client
  /\ Placed(k, len)
  /\ k.step # "open" => k.stream \in Viewer

LEMMA ShapeClients ==
  ASSUME Shape, NEW c \in Clients
  PROVE  Fit(client[c], Len(sent))
BY DEF Shape, NoticesTypeOK, ViewersKnown, Fit, Placed, Subscribed

\* A step of a client changes its own record only, and nothing but it.
ClientMoves(c) ==
  \/ \E a \in Accounts \cup {NoAccount} : Open(c, a)
  \/ Subscribe(c) \/ Receive(c) \/ List(c) \/ ReadRows(c)

\* The message a receiver is handed next: an older one is not kept any more.
Due(c) ==
  LET oldest == IF Len(sent) >= Buffer THEN Len(sent) + 1 - Buffer ELSE 1
  IN  IF client[c].next < oldest THEN oldest ELSE client[c].next

\* What it has passed on with it, and what it lists of some rows.
GotWith(c) ==
  client[c].got \cup {i \in {Due(c)} : Visible(sent[i].target, client[c].stream)}

ListedOf(c, rows) == {n \in rows : Visible(n.target, client[c].list)}

LEMMA ClientUpdates ==
  ASSUME NEW k \in Client, NEW p \in Nat, NEW got \in SUBSET Nat
  PROVE  /\ [k EXCEPT !.next = p, !.got = got] \in Client
         /\ [k EXCEPT !.step = "list", !.start = p, !.next = p] \in Client
BY DEF Client

\* The five records a step of a client can leave.
LEMMA ClientCases ==
  ASSUME Shape, NEW c \in Clients, ClientMoves(c)
  PROVE  /\ UNCHANGED <<now, team_of, was, solves, request, table, sent>>
         /\ \E k \in Client :
              /\ client' = [client EXCEPT ![c] = k]
              /\ \/ \E v \in Viewer :
                      /\ client[c].step = "open"
                      /\ k = [client[c] EXCEPT !.step = "subscribe", !.stream = v]
                 \/ /\ client[c].step = "subscribe"
                    /\ k = [client[c] EXCEPT !.step = "list", !.start = Len(sent) + 1,
                                             !.next = Len(sent) + 1]
                 \/ /\ client[c].step \in Subscribed
                    /\ Due(c) <= Len(sent)
                    /\ k = [client[c] EXCEPT !.next = Due(c) + 1, !.got = GotWith(c)]
                 \/ \E v \in Viewer :
                      /\ client[c].step = "list"
                      /\ k = [client[c] EXCEPT !.step = "rows", !.list = v]
                 \/ \E rows \in SUBSET table :
                      /\ client[c].step = "rows" /\ Recent(rows)
                      /\ k = [client[c] EXCEPT !.step = "done", !.listed = ListedOf(c, rows)]
<1> DEFINE K == client[c]
<1>0. /\ K \in Client /\ client \in [Clients -> Client]
      /\ Len(sent) \in Nat /\ table \subseteq Notification
  BY DEF Shape, NoticesTypeOK
<1>1. Due(c) \in Nat
  BY <1>0 DEF Due, Client
<1>2. ASSUME NEW a \in Accounts \cup {NoAccount}, Open(c, a)
      PROVE  \E v \in Viewer :
               /\ K.step = "open"
               /\ client' = [client EXCEPT ![c] =
                    [K EXCEPT !.step = "subscribe", !.stream = v]]
               /\ [K EXCEPT !.step = "subscribe", !.stream = v] \in Client
  <2>1. PICK v \in Identity(a) :
          client' = [client EXCEPT ![c] = [K EXCEPT !.step = "subscribe", !.stream = v]]
    BY <1>0, <1>2 DEF Open
  <2>2. v \in Viewer
    BY IdentityTyped DEF Shape
  <2>3. [K EXCEPT !.step = "subscribe", !.stream = v] \in Client
    BY <1>0, <2>2 DEF Client
  <2> QED
    BY <1>2, <2>1, <2>2, <2>3 DEF Open
<1>3. ASSUME Subscribe(c)
      PROVE  /\ K.step = "subscribe"
             /\ client' = [client EXCEPT ![c] =
                  [K EXCEPT !.step = "list", !.start = Len(sent) + 1, !.next = Len(sent) + 1]]
             /\ [K EXCEPT !.step = "list", !.start = Len(sent) + 1, !.next = Len(sent) + 1]
                  \in Client
  <2>1. [K EXCEPT !.step = "list", !.start = Len(sent) + 1, !.next = Len(sent) + 1]
          \in Client
    <3>1. Len(sent) + 1 \in Nat
      BY <1>0
    <3> QED
      BY <1>0, <3>1, ClientUpdates, Zenon
  <2> QED
    BY <1>0, <1>3, <2>1 DEF Subscribe
<1>4. ASSUME Receive(c)
      PROVE  /\ K.step \in Subscribed /\ Due(c) <= Len(sent)
             /\ client' = [client EXCEPT ![c] =
                  [K EXCEPT !.next = Due(c) + 1, !.got = GotWith(c)]]
             /\ [K EXCEPT !.next = Due(c) + 1, !.got = GotWith(c)] \in Client
  <2>1. GotWith(c) \subseteq Nat
    BY <1>0, <1>1 DEF Client, GotWith
  <2>2. [K EXCEPT !.next = Due(c) + 1, !.got = GotWith(c)] \in Client
    <3>1. Due(c) + 1 \in Nat
      BY <1>1
    <3> QED
      BY <1>0, <2>1, <3>1, ClientUpdates, Zenon
  <2>3. K.step \in Subscribed /\ Due(c) <= Len(sent)
    BY <1>4, Zenon DEF Receive, Due, Subscribed
  <2>4. client' = [client EXCEPT ![c].next = Due(c) + 1, ![c].got = @ \cup
               {i \in {Due(c)} : Visible(sent[i].target, K.stream)}]
    BY <1>4, Zenon DEF Receive, Due
  <2>5. client' = [client EXCEPT ![c] = [K EXCEPT !.next = Due(c) + 1, !.got = GotWith(c)]]
    BY <1>0, <2>4 DEF GotWith
  <2> QED
    BY <2>2, <2>3, <2>5
<1>5. ASSUME List(c)
      PROVE  \E v \in Viewer :
               /\ K.step = "list"
               /\ client' = [client EXCEPT ![c] = [K EXCEPT !.step = "rows", !.list = v]]
               /\ [K EXCEPT !.step = "rows", !.list = v] \in Client
  <2>1. K.stream.account \in Accounts \cup {NoAccount}
    BY <1>5, ShapeClients DEF List, Fit, Viewer
  <2>2. PICK v \in Identity(K.stream.account) :
          client' = [client EXCEPT ![c] = [K EXCEPT !.step = "rows", !.list = v]]
    BY <1>0, <1>5 DEF List
  <2>3. v \in Viewer
    BY <2>1, IdentityTyped DEF Shape
  <2>4. [K EXCEPT !.step = "rows", !.list = v] \in Client
    BY <1>0, <2>3 DEF Client
  <2> QED
    BY <1>5, <2>2, <2>3, <2>4 DEF List
<1>6. ASSUME ReadRows(c)
      PROVE  \E rows \in SUBSET table :
               /\ K.step = "rows" /\ Recent(rows)
               /\ client' = [client EXCEPT ![c] =
                    [K EXCEPT !.step = "done", !.listed = ListedOf(c, rows)]]
               /\ [K EXCEPT !.step = "done", !.listed = ListedOf(c, rows)] \in Client
  <2>1. PICK rows \in SUBSET table :
          /\ Recent(rows)
          /\ client' = [client EXCEPT ![c] =
               [K EXCEPT !.step = "done", !.listed = ListedOf(c, rows)]]
    BY <1>0, <1>6 DEF ReadRows, ListedOf
  <2>2. ListedOf(c, rows) \subseteq Notification
    BY <1>0 DEF ListedOf
  <2>3. [K EXCEPT !.step = "done", !.listed = ListedOf(c, rows)] \in Client
    BY <1>0, <2>2 DEF Client
  <2> QED
    BY <1>6, <2>1, <2>3 DEF ReadRows
<1>7. UNCHANGED <<now, team_of, was, solves, request, table, sent>>
  BY DEF ClientMoves, Open, Subscribe, Receive, List, ReadRows
<1> QED
  BY <1>2, <1>3, <1>4, <1>5, <1>6, <1>7 DEF ClientMoves

\* Wherever a step leaves a client, its record fits, and those of the others do.
LEMMA FitStep ==
  ASSUME Shape, NEW c \in Clients, ClientMoves(c)
  PROVE  /\ client' \in [Clients -> Client]
         /\ \A d \in Clients : Fit(client'[d], Len(sent))
<1> DEFINE K == client[c]
<1>0. Fit(K, Len(sent)) /\ client \in [Clients -> Client] /\ Len(sent) \in Nat
  BY ShapeClients DEF Shape, NoticesTypeOK
<1>1. PICK k \in Client :
        /\ client' = [client EXCEPT ![c] = k]
        /\ \/ \E v \in Viewer :
                K.step = "open" /\ k = [K EXCEPT !.step = "subscribe", !.stream = v]
           \/ /\ K.step = "subscribe"
              /\ k = [K EXCEPT !.step = "list", !.start = Len(sent) + 1,
                               !.next = Len(sent) + 1]
           \/ /\ K.step \in Subscribed /\ Due(c) <= Len(sent)
              /\ k = [K EXCEPT !.next = Due(c) + 1, !.got = GotWith(c)]
           \/ \E v \in Viewer : K.step = "list" /\ k = [K EXCEPT !.step = "rows", !.list = v]
           \/ \E rows \in SUBSET table :
                /\ K.step = "rows"
                /\ k = [K EXCEPT !.step = "done", !.listed = ListedOf(c, rows)]
  BY ClientCases
<1>2. Due(c) \in Nat /\ K.next <= Due(c)
  BY <1>0 DEF Due, Fit, Client
<1>3. Fit(k, Len(sent))
  <2>1. ASSUME NEW v \in Viewer, K.step = "open",
               k = [K EXCEPT !.step = "subscribe", !.stream = v]
        PROVE  Fit(k, Len(sent))
    <3>1. k.step = "subscribe" /\ k.stream = v
      BY <1>0, <2>1 DEF Fit, Client
    <3> QED
      BY <3>1 DEF Fit, Placed, Subscribed
  <2>2. ASSUME K.step = "subscribe",
               k = [K EXCEPT !.step = "list", !.start = Len(sent) + 1, !.next = Len(sent) + 1]
        PROVE  Fit(k, Len(sent))
    <3>1. k.stream = K.stream /\ k.start = Len(sent) + 1 /\ k.next = Len(sent) + 1
      BY <1>0, <2>2 DEF Fit, Client
    <3> QED
      BY <1>0, <2>2, <3>1 DEF Fit, Placed
  <2>3. ASSUME K.step \in Subscribed, Due(c) <= Len(sent),
               k = [K EXCEPT !.next = Due(c) + 1, !.got = GotWith(c)]
        PROVE  Fit(k, Len(sent))
    <3>1. k.step = K.step /\ k.stream = K.stream /\ k.start = K.start /\ k.next = Due(c) + 1
      BY <1>0, <2>3 DEF Fit, Client
    <3>2. K.start \in Nat /\ K.next \in Nat /\ K.start <= K.next
      BY <1>0, <2>3 DEF Fit, Placed, Client
    <3>3. k.start <= k.next /\ k.next <= Len(sent) + 1
      BY <1>0, <1>2, <2>3, <3>1, <3>2
    <3> QED
      BY <1>0, <2>3, <3>1, <3>3 DEF Fit, Placed, Subscribed
  <2>4. ASSUME K.step \in {"list", "rows"}, k.step \in Subscribed,
               k.stream = K.stream, k.start = K.start, k.next = K.next
        PROVE  Fit(k, Len(sent))
    BY <1>0, <2>4 DEF Fit, Placed, Subscribed
  <2>5. ASSUME NEW v \in Viewer, K.step = "list", k = [K EXCEPT !.step = "rows", !.list = v]
        PROVE  Fit(k, Len(sent))
    <3>1. /\ k.step = "rows" /\ k.stream = K.stream
          /\ k.start = K.start /\ k.next = K.next
      BY <1>0, <2>5 DEF Fit, Client
    <3> QED
      BY <2>4, <2>5, <3>1 DEF Subscribed
  <2>6. ASSUME NEW rows \in SUBSET table, K.step = "rows",
               k = [K EXCEPT !.step = "done", !.listed = ListedOf(c, rows)]
        PROVE  Fit(k, Len(sent))
    <3>1. /\ k.step = "done" /\ k.stream = K.stream
          /\ k.start = K.start /\ k.next = K.next
      BY <1>0, <2>6 DEF Fit, Client
    <3> QED
      BY <2>4, <2>6, <3>1 DEF Subscribed
  <2> QED
    BY <1>1, <2>1, <2>2, <2>3, <2>5, <2>6
<1>4. ASSUME NEW d \in Clients, d # c
      PROVE  Fit(client'[d], Len(sent))
  BY <1>0, <1>1, <1>4, ShapeClients
<1>5. client'[c] = k /\ client' \in [Clients -> Client]
  BY <1>0, <1>1
<1> QED
  BY <1>3, <1>4, <1>5

\* A record that fits keeps fitting when more is sent.
LEMMA FitLater ==
  ASSUME NEW k, NEW len \in Nat, NEW more \in Nat, len <= more, Fit(k, len)
  PROVE  Fit(k, more)
BY DEF Fit, Placed, Client, Subscribed

\* Shape, put together from its parts.
LEMMA ShapeOf ==
  ASSUME now \in 0..LastSecond, team_of \in [Accounts -> Teams \cup {NoTeam}],
         was \in [Accounts -> SUBSET (Teams \cup {NoTeam})],
         solves \subseteq [account : Accounts, team : Teams \cup {NoTeam}],
         request \in [Announcements -> Pending], table \subseteq Notification,
         sent \in Seq(Notification), client \in [Clients -> Client],
         \A d \in Clients : Fit(client[d], Len(sent))
  PROVE  Shape
BY DEF Shape, NoticesTypeOK, ViewersKnown, Fit, Placed, Subscribed

LEMMA ShapeInit == NoticesInit => Shape
<1> SUFFICES ASSUME NoticesInit
             PROVE  Shape
  OBVIOUS
<1>1. \A d \in Clients : client[d] \in Client /\ client[d].step = "open"
  BY DEF NoticesInit, Client
<1>2. [step |-> "new"] \in Pending
  BY DEF Pending
<1>3. was \in [Accounts -> SUBSET (Teams \cup {NoTeam})]
  BY DEF NoticesInit
<1>4. client \in [Clients -> Client] /\ request \in [Announcements -> Pending]
  BY <1>1, <1>2 DEF NoticesInit
<1>5. sent \in Seq(Notification) /\ 0 \in 0..LastSecond
  BY DEF NoticesInit
<1>6. \A d \in Clients : Fit(client[d], Len(sent))
  BY <1>1 DEF Fit, Placed, Subscribed
<1> QED
  BY <1>3, <1>4, <1>5, <1>6, ShapeOf DEF NoticesInit

LEMMA MovesTyped ==
  ASSUME NoticesTypeOK, HandlersMove
  PROVE  request' \in [Announcements -> Pending]
<1>1. CASE Broadcast
  BY <1>1 DEF Broadcast, NoticesTypeOK
<1> QED
  BY <1>1, RequestStep DEF HandlersMove

\* The steps of players and of the clock.
Others ==
  \/ \E a \in Accounts : Solve(a) \/ \E t \in Teams \cup {NoTeam} : ChangeTeam(a, t)
  \/ Pass \/ UNCHANGED notice_vars

\* What they do: teams change and are remembered, solves are added.
LEMMA OthersStep ==
  ASSUME NoticesTypeOK, Others
  PROVE  /\ now' \in 0..LastSecond
         /\ team_of' \in [Accounts -> Teams \cup {NoTeam}]
         /\ was' \in [Accounts -> SUBSET (Teams \cup {NoTeam})]
         /\ solves' \subseteq [account : Accounts, team : Teams \cup {NoTeam}]
         /\ solves \subseteq solves'
         /\ \A a \in Accounts : was[a] \subseteq was'[a]
         /\ \A a \in Accounts : team_of'[a] = team_of[a] \/ team_of'[a] \in was'[a]
         /\ UNCHANGED <<request, table, sent, client>>
<1> USE DEF NoticesTypeOK
<1>1. ASSUME NEW a \in Accounts, Solve(a)
      PROVE  /\ solves' = solves \cup {[account |-> a, team |-> team_of[a]]}
             /\ UNCHANGED <<now, team_of, was, request, table, sent, client>>
  BY <1>1 DEF Solve
<1>2. ASSUME NEW a \in Accounts, NEW t \in Teams \cup {NoTeam}, ChangeTeam(a, t)
      PROVE  /\ team_of' = [team_of EXCEPT ![a] = t]
             /\ was' = [was EXCEPT ![a] = was[a] \cup {t}]
             /\ UNCHANGED <<now, solves, request, table, sent, client>>
  BY <1>2 DEF ChangeTeam
<1>3. ASSUME Pass
      PROVE  /\ now' \in 0..LastSecond
             /\ UNCHANGED <<solves, team_of, was, request, table, sent, client>>
  BY <1>3 DEF Pass
<1>4. ASSUME UNCHANGED notice_vars
      PROVE  UNCHANGED <<now, solves, team_of, was, request, table, sent, client>>
  BY <1>4 DEF notice_vars
<1>5. CASE \E a \in Accounts : Solve(a)
  BY <1>1, <1>5
<1>6. CASE \E a \in Accounts : \E t \in Teams \cup {NoTeam} : ChangeTeam(a, t)
  BY <1>2, <1>6
<1> QED
  BY <1>3, <1>4, <1>5, <1>6 DEF Others

LEMMA NextCases ==
  ASSUME [NoticesNext]_notice_vars
  PROVE  HandlersMove \/ (\E c \in Clients : ClientMoves(c)) \/ Others
BY DEF NoticesNext, HandlersMove, ClientMoves, Others

LEMMA ShapeStep == Shape /\ [NoticesNext]_notice_vars => Shape'
<1> SUFFICES ASSUME Shape, [NoticesNext]_notice_vars
             PROVE  Shape'
  OBVIOUS
<1>0. /\ NoticesTypeOK
      /\ \A d \in Clients : Fit(client[d], Len(sent))
      /\ Len(sent) \in Nat
  BY ShapeClients DEF Shape, NoticesTypeOK
<1>1. CASE HandlersMove
  <2>1. /\ table' \subseteq Notification /\ sent' \in Seq(Notification)
        /\ Len(sent') \in Nat /\ Len(sent) <= Len(sent')
        /\ UNCHANGED <<now, team_of, was, solves, client>>
    <3>1. /\ table' \subseteq Notification
          /\ UNCHANGED <<now, team_of, was, solves, client>>
          /\ \/ sent' = sent
             \/ \E n \in Notification : sent' = Append(sent, n)
      BY <1>0, <1>1, ChannelStep
    <3>2. sent \in Seq(Notification)
      BY <1>0 DEF NoticesTypeOK
    <3>3. ASSUME NEW n \in Notification, sent' = Append(sent, n)
          PROVE  sent' \in Seq(Notification) /\ Len(sent') = Len(sent) + 1
      BY <3>2, <3>3, AppendNotice, Zenon
    <3> QED
      BY <1>0, <3>1, <3>2, <3>3
  <2>2. \A d \in Clients : Fit(client'[d], Len(sent'))
    <3>1. \A d \in Clients : Fit(client[d], Len(sent'))
      BY <1>0, <2>1, FitLater, Zenon
    <3> QED
      BY <2>1, <3>1
  <2>3. request' \in [Announcements -> Pending]
    BY <1>0, <1>1, MovesTyped
  <2> QED
    BY <1>0, <2>1, <2>2, <2>3 DEF Shape, NoticesTypeOK, ViewersKnown, Fit, Placed, Subscribed
<1>2. ASSUME NEW c \in Clients, ClientMoves(c)
      PROVE  Shape'
  <2>1. UNCHANGED <<now, team_of, was, solves, request, table, sent>>
    BY <1>2, ClientCases
  <2>2. client' \in [Clients -> Client] /\ \A d \in Clients : Fit(client'[d], Len(sent))
    BY <1>2, FitStep
  <2> QED
    <3>1. \A d \in Clients : Fit(client'[d], Len(sent'))
      BY <2>1, <2>2
    <3> QED
      BY <1>0, <2>1, <2>2, <3>1
      DEF Shape, NoticesTypeOK, ViewersKnown, Fit, Placed, Subscribed
<1>3. CASE Others
  <2>1. UNCHANGED <<request, table, sent, client>>
    BY <1>0, <1>3, OthersStep
  <2> QED
    BY <1>0, <1>3, <2>1, OthersStep DEF Shape, NoticesTypeOK, ViewersKnown
<1> QED
  BY <1>1, <1>2, <1>3, NextCases

\* api/notifications.rs:124-219: whatever fails and whoever moves, a stream is of
\* somebody, the place of its receiver is between where it subscribed and the end
\* of what was sent, and what is saved or sent was resolved.
THEOREM NoticesTypeCorrect == NoticesSpec => []NoticesTypeOK
<1>1. Shape => NoticesTypeOK
  BY DEF Shape
<1> QED
  BY <1>1, ShapeInit, ShapeStep, PTL DEF NoticesSpec
-----------------------------------------------------------------------------
\* services/notifications.rs:44-46: what is sent was saved before, unless it is
\* the notification of a solve.
SentSaved ==
  /\ IsFiniteSet(table)
  /\ \A h \in Announcements : request[h].step = "send" => request[h].notification \in table
  /\ \A p \in DOMAIN sent : sent[p].by # "solve" => sent[p] \in table

Young(n) == {m \in table \ {n} : m.at >= n.at}

\* What the receiver of a client has gone past: passed on, or pushed out.
Streamed(c) ==
  client[c].step \in Subscribed =>
    \A p \in DOMAIN sent :
      /\ client[c].start <= p /\ p < client[c].next
      /\ Visible(sent[p].target, client[c].stream)
      => p \in client[c].got \/ Len(sent) - p >= Buffer

\* What was sent before it subscribed: listed, or too old for the list.
Found(c) ==
  client[c].step = "done" =>
    \A p \in DOMAIN sent :
      /\ p < client[c].start
      /\ sent[p].by # "solve" /\ Visible(sent[p].target, client[c].list)
      => sent[p] \in client[c].listed \/ Cardinality(Young(sent[p])) >= Listed

Reached == \A c \in Clients : Streamed(c) /\ Found(c)

NoticesInv == Shape /\ SentSaved /\ Reached

\* Only a request that has just been saved is sent.
LEMMA OnlySavedIsSent ==
  ASSUME NoticesTypeOK, NEW h \in Announcements,
         \/ \E target \in Targets : Announce(h, target)
         \/ ReadAccounts(h) \/ ReadSolves(h) \/ Send(h) \/ GiveUp(h)
  PROVE  request'[h].step # "send"
<1>0. request \in [Announcements -> Pending]
  BY DEF NoticesTypeOK
<1>1. ASSUME NEW target \in Targets, Announce(h, target)
      PROVE  request'[h].step # "send"
  BY <1>0, <1>1 DEF Announce
<1>2. CASE ReadAccounts(h)
  BY <1>0, <1>2 DEF ReadAccounts
<1>3. CASE ReadSolves(h)
  BY <1>0, <1>3 DEF ReadSolves
<1>4. CASE Send(h)
  BY <1>0, <1>4 DEF Send
<1>5. CASE GiveUp(h)
  BY <1>0, <1>5 DEF GiveUp
<1> QED
  BY <1>1, <1>2, <1>3, <1>4, <1>5

LEMMA SavedStep ==
  ASSUME Shape, SentSaved, [NoticesNext]_notice_vars
  PROVE  SentSaved'
<1>0. NoticesTypeOK /\ sent \in Seq(Notification)
  BY DEF Shape, NoticesTypeOK
<1>1. ASSUME NEW h \in Announcements,
             \/ \E target \in Targets : Announce(h, target)
             \/ ReadAccounts(h) \/ ReadSolves(h) \/ GiveUp(h)
      PROVE  SentSaved'
  <2>1. UNCHANGED <<table, sent>>
    BY <1>1 DEF Announce, ReadAccounts, ReadSolves, GiveUp
  <2>2. \A i \in Announcements \ {h} : request'[i] = request[i]
    BY <1>0, <1>1, RequestStep
  <2>3. request'[h].step # "send"
    BY <1>0, <1>1, OnlySavedIsSent
  <2> QED
    BY <2>1, <2>2, <2>3 DEF SentSaved
<1>2. ASSUME NEW h \in Announcements, SaveRow(h)
      PROVE  SentSaved'
  <2>1. /\ table' = table \cup {request[h].notification} /\ sent' = sent
        /\ request' = [request EXCEPT ![h].step = "send"]
    BY <1>2 DEF SaveRow
  <2>2. request'[h].notification = request[h].notification
    BY <1>0, <1>2, <2>1, HeldTyped DEF SaveRow, NoticesTypeOK
  <2>3. \A i \in Announcements \ {h} : request'[i] = request[i]
    BY <1>0, <1>2, RequestStep
  <2>4. IsFiniteSet(table')
    BY <2>1, FS_AddElement DEF SentSaved
  <2> QED
    BY <2>1, <2>2, <2>3, <2>4 DEF SentSaved
<1>3. ASSUME NEW h \in Announcements, Send(h)
      PROVE  SentSaved'
  <2>1. /\ sent' = Append(sent, request[h].notification) /\ table' = table
        /\ request[h].notification \in table /\ request[h].notification \in Notification
    BY <1>0, <1>3, HeldTyped DEF Send, SentSaved
  <2>2. \A i \in Announcements \ {h} : request'[i] = request[i]
    BY <1>0, <1>3, RequestStep
  <2>3. request'[h].step # "send"
    BY <1>0, <1>3, OnlySavedIsSent
  <2>4. \A p \in DOMAIN sent' : (p \in DOMAIN sent /\ sent'[p] = sent[p]) \/ sent'[p] \in table
    BY <1>0, <2>1, AppendNotice
  <2> QED
    BY <2>1, <2>2, <2>3, <2>4 DEF SentSaved
<1>4. CASE Broadcast
  <2>1. PICK n \in Notification : n.by = "solve" /\ sent' = Append(sent, n)
    <3>1. [by |-> "solve", target |-> [kind |-> "Everyone"], at |-> now] \in Notification
      BY <1>0, NoticeTyped DEF Resolved
    <3> QED
      BY <1>4, <3>1 DEF Broadcast
  <2>2. UNCHANGED <<table, request>>
    BY <1>4 DEF Broadcast
  <2>3. \A p \in DOMAIN sent' :
          (p \in DOMAIN sent /\ sent'[p] = sent[p]) \/ sent'[p].by = "solve"
    BY <1>0, <2>1, AppendNotice
  <2> QED
    BY <2>2, <2>3 DEF SentSaved
<1>5. ASSUME NEW c \in Clients, ClientMoves(c)
      PROVE  SentSaved'
  BY <1>5, ClientCases DEF SentSaved
<1>6. CASE Others
  BY <1>0, <1>6, OthersStep DEF SentSaved
<1> QED
  BY <1>1, <1>2, <1>3, <1>4, <1>5, <1>6, NextCases DEF HandlersMove

\* A table that grows has no fewer rows as young as a given one.
LEMMA YoungGrows ==
  ASSUME IsFiniteSet(table'), table \subseteq table', NEW n
  PROVE  /\ Cardinality(Young(n)) \in Nat
         /\ Cardinality({m \in table' \ {n} : m.at >= n.at}) \in Nat
         /\ Cardinality(Young(n)) <= Cardinality({m \in table' \ {n} : m.at >= n.at})
<1> DEFINE later == {m \in table' \ {n} : m.at >= n.at}
<1>1. Young(n) \subseteq later /\ later \subseteq table'
  BY DEF Young
<1>2. IsFiniteSet(later)
  BY <1>1, FS_Subset
<1> HIDE DEF later
<1>3. IsFiniteSet(Young(n)) /\ Cardinality(Young(n)) <= Cardinality(later)
  BY <1>1, <1>2, FS_Subset
<1>4. Cardinality(Young(n)) \in Nat /\ Cardinality(later) \in Nat
  BY <1>2, <1>3, FS_CardinalityType
<1> QED
  BY <1>3, <1>4 DEF later

\* A message and its listing, as they are once more was sent and saved.
LEMMA ReachedLater ==
  ASSUME Shape, Reached, table \subseteq table', IsFiniteSet(table'), client' = client,
         \/ sent' = sent
         \/ \E n \in Notification : sent' = Append(sent, n)
  PROVE  Reached'
<1>0. /\ sent \in Seq(Notification) /\ Len(sent) \in Nat /\ DOMAIN sent = 1..Len(sent)
      /\ Buffer \in Nat /\ Listed \in Nat
  BY DEF Shape, NoticesTypeOK
<1>1. /\ Len(sent') \in Nat /\ Len(sent) <= Len(sent')
      /\ \A p \in DOMAIN sent : sent'[p] = sent[p]
      /\ \A p \in DOMAIN sent' : p \in DOMAIN sent \/ p = Len(sent) + 1
  <2>1. CASE sent' = sent
    BY <1>0, <2>1
  <2>2. ASSUME NEW n \in Notification, sent' = Append(sent, n)
        PROVE  /\ Len(sent') = Len(sent) + 1
               /\ \A p \in DOMAIN sent : sent'[p] = sent[p]
               /\ \A p \in DOMAIN sent' : p \in DOMAIN sent \/ p = Len(sent) + 1
    <3>1. /\ Len(Append(sent, n)) = Len(sent) + 1
          /\ DOMAIN Append(sent, n) = DOMAIN sent \cup {Len(sent) + 1}
          /\ \A p \in DOMAIN sent : Append(sent, n)[p] = sent[p]
      <4>1. sent \in Seq(Notification)
        BY <1>0
      <4> QED
        BY <4>1, AppendNotice
    <3>2. Len(sent') = Len(sent) + 1 /\ DOMAIN sent' = DOMAIN sent \cup {Len(sent) + 1}
      BY <2>2, <3>1
    <3>3. \A p \in DOMAIN sent : sent'[p] = sent[p]
      BY <2>2, <3>1
    <3>4. ASSUME NEW p \in DOMAIN sent'
          PROVE  p \in DOMAIN sent \/ p = Len(sent) + 1
      <4>1. p \in DOMAIN sent \cup {Len(sent) + 1}
        BY <3>2
      <4> QED
        BY <4>1
    <3> QED
      BY <3>2, <3>3, <3>4
  <2> QED
    BY <1>0, <2>1, <2>2
<1>2. ASSUME NEW c \in Clients, NEW p \in DOMAIN sent', client[c].step \in Subscribed,
             p < client[c].next
      PROVE  p \in DOMAIN sent
  <2>1. client[c].next \in Nat /\ client[c].next <= Len(sent) + 1
    BY <1>2, ShapeClients DEF Fit, Placed, Client
  <2> QED
    BY <1>0, <1>1, <1>2, <2>1
<1>3. ASSUME NEW c \in Clients
      PROVE  Streamed(c)'
  <2> SUFFICES ASSUME client[c].step \in Subscribed, NEW p \in DOMAIN sent',
                      client[c].start <= p, p < client[c].next,
                      Visible(sent'[p].target, client[c].stream)
               PROVE  p \in client[c].got \/ Len(sent') - p >= Buffer
    BY DEF Streamed, Visible
  <2>1. p \in DOMAIN sent /\ sent'[p] = sent[p]
    BY <1>1, <1>2
  <2>2. p \in client[c].got \/ Len(sent) - p >= Buffer
    BY <2>1 DEF Reached, Streamed
  <2> QED
    BY <1>0, <1>1, <2>1, <2>2
<1>4. ASSUME NEW c \in Clients
      PROVE  Found(c)'
  <2> SUFFICES ASSUME client[c].step = "done", NEW p \in DOMAIN sent',
                      p < client[c].start, sent'[p].by # "solve",
                      Visible(sent'[p].target, client[c].list)
               PROVE  \/ sent'[p] \in client[c].listed
                      \/ Cardinality({m \in table' \ {sent'[p]} : m.at >= sent'[p].at}) >= Listed
    BY DEF Found, Visible, Young
  <2>1. p < client[c].next
    <3>1. client[c].start <= client[c].next /\ client[c].start \in Nat /\ client[c].next \in Nat
      BY ShapeClients DEF Fit, Placed, Client, Subscribed
    <3>2. p \in Nat
      BY <1>0, <1>1
    <3> QED
      BY <3>1, <3>2
  <2>2. p \in DOMAIN sent /\ sent'[p] = sent[p]
    BY <1>1, <1>2, <2>1 DEF Subscribed
  <2>3. sent[p] \in client[c].listed \/ Cardinality(Young(sent[p])) >= Listed
    BY <2>2 DEF Reached, Found
  <2> DEFINE n == sent[p]
  <2>4. /\ Cardinality(Young(n)) \in Nat
        /\ Cardinality({m \in table' \ {n} : m.at >= n.at}) \in Nat
        /\ Cardinality(Young(n)) <= Cardinality({m \in table' \ {n} : m.at >= n.at})
    BY YoungGrows
  <2> QED
    BY <1>0, <2>2, <2>3, <2>4
<1> QED
  BY <1>3, <1>4 DEF Reached

\* Any row that Recent leaves out has a full list of rows as young.
LEMMA LeftOut ==
  ASSUME IsFiniteSet(table), NEW rows \in SUBSET table, Recent(rows), NEW n \in table \ rows
  PROVE  Cardinality(Young(n)) \in Nat /\ Cardinality(Young(n)) >= Listed
<1>1. rows \subseteq Young(n) /\ Young(n) \subseteq table
  BY DEF Recent, Young
<1>2. IsFiniteSet(Young(n)) /\ IsFiniteSet(rows)
  BY <1>1, FS_Subset
<1>3. Cardinality(rows) # Cardinality(table)
  <2>1. rows # table /\ Cardinality(rows) <= Cardinality(table)
        /\ (Cardinality(rows) = Cardinality(table) => rows = table)
    BY FS_Subset
  <2> QED
    BY <2>1
<1>4. Cardinality(rows) = Listed
  BY <1>3 DEF Recent
<1>5. Cardinality(rows) <= Cardinality(Young(n))
  BY <1>1, <1>2, FS_Subset
<1> QED
  BY <1>2, <1>4, <1>5, FS_CardinalityType

\* A client passes on what it is due, and nothing it skips was still kept; what
\* it lists leaves out only rows that are too old.
LEMMA ReachedByClient ==
  ASSUME Shape, SentSaved, Reached, NEW c \in Clients, ClientMoves(c)
  PROVE  Reached'
<1> DEFINE K == client[c]
<1>0. /\ Fit(K, Len(sent)) /\ K \in Client /\ client \in [Clients -> Client]
      /\ Len(sent) \in Nat /\ DOMAIN sent = 1..Len(sent)
      /\ Buffer \in Nat \ {0} /\ Listed \in Nat
      /\ Streamed(c) /\ Found(c)
  BY ShapeClients DEF Shape, NoticesTypeOK, Reached
<1>1. UNCHANGED <<table, sent>>
  BY ClientCases
<1>2. ASSUME NEW d \in Clients, d # c
      PROVE  Streamed(d)' /\ Found(d)'
  <2>1. client'[d] = client[d]
    BY <1>0, <1>2, ClientCases
  <2> QED
    BY <1>1, <2>1 DEF Reached, Streamed, Found, Young, Visible
<1>3. ASSUME NEW v \in Viewer, K.step = "open",
             client' = [client EXCEPT ![c] = [K EXCEPT !.step = "subscribe", !.stream = v]]
      PROVE  Streamed(c)' /\ Found(c)'
  <2>1. client'[c].step = "subscribe"
    BY <1>0, <1>3 DEF Client
  <2> QED
    BY <2>1 DEF Streamed, Found, Subscribed
<1>4. ASSUME K.step = "subscribe",
             client' = [client EXCEPT ![c] =
               [K EXCEPT !.step = "list", !.start = Len(sent) + 1, !.next = Len(sent) + 1]]
      PROVE  Streamed(c)' /\ Found(c)'
  <2>1. /\ client'[c].step = "list" /\ client'[c].start = Len(sent) + 1
        /\ client'[c].next = Len(sent) + 1
    BY <1>0, <1>4 DEF Client
  <2>2. \A p \in DOMAIN sent' : p < client'[c].start
    BY <1>0, <1>1, <2>1
  <2>3. \A p \in DOMAIN sent' : ~(client'[c].start <= p)
    BY <1>0, <1>1, <2>1
  <2> QED
    BY <2>1, <2>3 DEF Streamed, Found
<1>5. ASSUME K.step \in Subscribed, Due(c) <= Len(sent),
             client' = [client EXCEPT ![c] = [K EXCEPT !.next = Due(c) + 1, !.got = GotWith(c)]]
      PROVE  Streamed(c)' /\ Found(c)'
  <2> DEFINE k == client'[c]
  <2>1. /\ k.step = K.step /\ k.stream = K.stream /\ k.list = K.list /\ k.listed = K.listed
        /\ k.start = K.start /\ k.next = Due(c) + 1 /\ k.got = GotWith(c)
    BY <1>0, <1>5 DEF Client
  <2>2. Due(c) \in Nat /\ K.next \in Nat /\ K.start \in Nat
    BY <1>0 DEF Due, Client
  <2>3. ASSUME NEW p \in DOMAIN sent, K.start <= p, p < Due(c) + 1,
               Visible(sent[p].target, K.stream)
        PROVE  p \in GotWith(c) \/ Len(sent) - p >= Buffer
    <3>1. CASE p < K.next
      BY <1>0, <1>5, <2>3, <3>1 DEF Streamed, GotWith
    <3>2. CASE p = Due(c)
      BY <2>3, <3>2 DEF GotWith
    <3>3. CASE ~(p < K.next) /\ p # Due(c)
      <4>1. p \in Nat /\ p < Due(c)
        BY <1>0, <2>2, <2>3, <3>3
      <4>2. 1 <= p
        BY <1>0
      <4>3. Len(sent) >= Buffer /\ Due(c) = Len(sent) + 1 - Buffer
        BY <1>0, <2>2, <3>3, <4>1, <4>2 DEF Due
      <4> QED
        BY <1>0, <4>1, <4>3
    <3> QED
      BY <3>1, <3>2, <3>3
  <2>4. Streamed(c)'
    <3> SUFFICES ASSUME NEW p \in DOMAIN sent, K.start <= p, p < Due(c) + 1,
                        Visible(sent[p].target, K.stream)
                 PROVE  p \in GotWith(c) \/ Len(sent) - p >= Buffer
      BY <1>1, <2>1 DEF Streamed, Visible
    <3> QED
      BY <2>3
  <2>5. Found(c)'
    BY <1>0, <1>1, <2>1 DEF Found, Young, Visible
  <2> QED
    BY <2>4, <2>5
<1>6. ASSUME NEW v \in Viewer, K.step = "list",
             client' = [client EXCEPT ![c] = [K EXCEPT !.step = "rows", !.list = v]]
      PROVE  Streamed(c)' /\ Found(c)'
  <2>1. /\ client'[c].step = "rows" /\ client'[c].stream = K.stream
        /\ client'[c].start = K.start /\ client'[c].next = K.next /\ client'[c].got = K.got
    BY <1>0, <1>6 DEF Client
  <2> QED
    BY <1>0, <1>1, <1>6, <2>1 DEF Streamed, Found, Subscribed, Visible
<1>7. ASSUME NEW rows \in SUBSET table, K.step = "rows", Recent(rows),
             client' = [client EXCEPT ![c] =
               [K EXCEPT !.step = "done", !.listed = ListedOf(c, rows)]]
      PROVE  Streamed(c)' /\ Found(c)'
  <2>1. /\ client'[c].step = "done" /\ client'[c].stream = K.stream /\ client'[c].list = K.list
        /\ client'[c].start = K.start /\ client'[c].next = K.next /\ client'[c].got = K.got
        /\ client'[c].listed = ListedOf(c, rows)
    BY <1>0, <1>7 DEF Client
  <2>2. Streamed(c)'
    BY <1>0, <1>1, <1>7, <2>1 DEF Streamed, Subscribed, Visible
  <2>3. ASSUME NEW p \in DOMAIN sent, sent[p].by # "solve", Visible(sent[p].target, K.list)
        PROVE  sent[p] \in ListedOf(c, rows) \/ Cardinality(Young(sent[p])) >= Listed
    <3>1. sent[p] \in table /\ IsFiniteSet(table)
      BY <2>3 DEF SentSaved
    <3>2. CASE sent[p] \in rows
      BY <2>3, <3>2 DEF ListedOf
    <3>3. CASE sent[p] \notin rows
      BY <1>7, <3>1, <3>3, LeftOut
    <3> QED
      BY <3>2, <3>3
  <2>4. Found(c)'
    <3> SUFFICES ASSUME NEW p \in DOMAIN sent, sent[p].by # "solve",
                        Visible(sent[p].target, K.list)
                 PROVE  sent[p] \in ListedOf(c, rows) \/ Cardinality(Young(sent[p])) >= Listed
      BY <1>1, <2>1 DEF Found, Young, Visible
    <3> QED
      BY <2>3
  <2> QED
    BY <2>2, <2>4
<1>8. Streamed(c)' /\ Found(c)'
  BY <1>3, <1>4, <1>5, <1>6, <1>7, ClientCases
<1> QED
  BY <1>2, <1>8 DEF Reached

LEMMA NoticesInvInit == NoticesInit => NoticesInv
<1> SUFFICES ASSUME NoticesInit
             PROVE  NoticesInv
  OBVIOUS
<1>1. \A c \in Clients : client[c].step = "open"
  BY DEF NoticesInit
<1>2. \A h \in Announcements : request[h].step = "new"
  BY DEF NoticesInit
<1>3. table = {} /\ IsFiniteSet({}) /\ DOMAIN sent = {}
  BY FS_EmptySet DEF NoticesInit
<1>4. Reached
  BY <1>1 DEF Reached, Streamed, Found, Subscribed
<1>5. SentSaved
  BY <1>2, <1>3 DEF SentSaved
<1> QED
  BY <1>4, <1>5, ShapeInit DEF NoticesInv

LEMMA NoticesInvStep == NoticesInv /\ [NoticesNext]_notice_vars => NoticesInv'
<1> SUFFICES ASSUME NoticesInv, [NoticesNext]_notice_vars
             PROVE  NoticesInv'
  OBVIOUS
<1>1. Shape' /\ SentSaved'
  BY ShapeStep, SavedStep DEF NoticesInv
<1>2. IsFiniteSet(table')
  BY <1>1 DEF SentSaved
<1>3. CASE HandlersMove
  <2>1. /\ table \subseteq table' /\ client' = client
        /\ \/ sent' = sent
           \/ \E n \in Notification : sent' = Append(sent, n)
    BY <1>3, ChannelStep DEF NoticesInv, Shape
  <2> QED
    BY <1>1, <1>2, <2>1, ReachedLater DEF NoticesInv
<1>4. ASSUME NEW c \in Clients, ClientMoves(c)
      PROVE  NoticesInv'
  BY <1>1, <1>4, ReachedByClient DEF NoticesInv
<1>5. CASE Others
  <2>1. UNCHANGED <<table, sent, client>>
    BY <1>5, OthersStep DEF NoticesInv, Shape
  <2> QED
    BY <1>1, <1>2, <2>1, ReachedLater DEF NoticesInv
<1> QED
  BY <1>3, <1>4, <1>5, NextCases

LEMMA NothingMissedFromInv == NoticesInv => NothingMissed
<1> SUFFICES ASSUME NoticesInv, NEW c \in Clients, NEW p \in DOMAIN sent,
                    client[c].step = "done", sent[p].by # "solve",
                    Visible(sent[p].target, client[c].stream),
                    Visible(sent[p].target, client[c].list)
             PROVE  \/ p >= client[c].next
                    \/ p \in client[c].got
                    \/ sent[p] \in client[c].listed
                    \/ IF p >= client[c].start THEN Len(sent) - p >= Buffer
                       ELSE Cardinality(Young(sent[p])) >= Listed
  BY DEF NothingMissed, Young
<1>1. p \in Nat /\ client[c].start \in Nat /\ client[c].next \in Nat
  BY ShapeClients DEF NoticesInv, Shape, NoticesTypeOK, Fit, Client
<1>2. Streamed(c) /\ Found(c)
  BY DEF NoticesInv, Reached
<1>3. CASE p >= client[c].start
  BY <1>1, <1>2, <1>3 DEF Streamed, Subscribed
<1>4. CASE ~(p >= client[c].start)
  BY <1>1, <1>2, <1>4 DEF Found
<1> QED
  BY <1>3, <1>4

\* services/notifications.rs:45: the row is saved before the message is sent and
\* a client subscribes before it lists, so an announcement for the viewer of both
\* requests is never lost to a client, but to a buffer that was full or a list
\* that was.
THEOREM NothingEverMissed == NoticesSpec => []NothingMissed
<1> QED
  BY NoticesInvInit, NoticesInvStep, NothingMissedFromInv, PTL DEF NoticesSpec
-----------------------------------------------------------------------------
\* A solve, of the account or of a team it has been in.
EarnedBy(a) == \E s \in solves : s.account = a \/ s.team \in was[a] \ {NoTeam}

\* The target of a notification was posted, or every account of it earned it.
Earned(n) ==
  n.target.kind = "Accounts" /\ n.target \notin Targets =>
    \A a \in n.target.ids : EarnedBy(a)

\* The teams a filter was resolved by are ones the accounts have been in.
TeamsRead(h) ==
  request[h].step = "solves" =>
    \A a \in DOMAIN request[h].teams : request[h].teams[a] \in was[a]

Remembered == \A a \in Accounts : team_of[a] \in was[a]

AllEarned ==
  /\ \A n \in table : Earned(n)
  /\ \A h \in Announcements : request[h].step = "save" => Earned(request[h].notification)
  /\ \A h \in Announcements : TeamsRead(h)
  /\ Remembered

\* What is earned stays so, as solves and teams are only ever added.
LEMMA EarnedLater ==
  ASSUME NoticesTypeOK, solves \subseteq solves',
         \A a \in Accounts : was[a] \subseteq was'[a], NEW n \in Notification, Earned(n)
  PROVE  /\ n.target.kind = "Accounts" /\ n.target \notin Targets =>
              \A a \in n.target.ids :
                \E s \in solves' : s.account = a \/ s.team \in was'[a] \ {NoTeam}
<1> SUFFICES ASSUME n.target.kind = "Accounts", n.target \notin Targets,
                    NEW a \in n.target.ids
             PROVE  \E s \in solves' : s.account = a \/ s.team \in was'[a] \ {NoTeam}
  OBVIOUS
<1>1. a \in Accounts
  BY DEF Notification, Resolved
<1> QED
  BY <1>1 DEF Earned, EarnedBy

\* The requests of a step that reads nothing keep what they have earned.
LEMMA EarnedStays ==
  ASSUME NoticesTypeOK, AllEarned, solves \subseteq solves',
         \A a \in Accounts : was[a] \subseteq was'[a], UNCHANGED <<request, table>>,
         Remembered'
  PROVE  AllEarned'
<1>1. \A n \in table : Earned(n)'
  BY EarnedLater DEF AllEarned, Earned, EarnedBy, NoticesTypeOK
<1>2. ASSUME NEW h \in Announcements, request[h].step = "save"
      PROVE  Earned(request[h].notification)'
  <2>1. request[h].notification \in Notification /\ Earned(request[h].notification)
    BY <1>2, HeldTyped DEF AllEarned
  <2> QED
    BY <2>1, EarnedLater DEF Earned, EarnedBy
<1>3. ASSUME NEW h \in Announcements
      PROVE  TeamsRead(h)'
  <2> SUFFICES ASSUME request[h].step = "solves", NEW a \in DOMAIN request[h].teams
               PROVE  request[h].teams[a] \in was'[a]
    BY DEF TeamsRead
  <2>1. a \in Accounts
    BY DEF NoticesTypeOK, Pending
  <2> QED
    BY <2>1 DEF AllEarned, TeamsRead
<1> QED
  BY <1>1, <1>2, <1>3 DEF AllEarned

\* Those of a step of the admin do, if the one that moves does.
LEMMA EarnedByRequest ==
  ASSUME NoticesTypeOK, AllEarned, NEW h \in Announcements,
         UNCHANGED <<team_of, was, solves>>,
         \A i \in Announcements \ {h} : request'[i] = request[i],
         request'[h].step = "save" => Earned(request'[h].notification),
         request'[h].step = "solves" =>
           \A a \in DOMAIN request'[h].teams : request'[h].teams[a] \in was[a],
         \A n \in table' : Earned(n)
  PROVE  AllEarned'
<1>1. \A i \in Announcements :
        request'[i].step = "save" => Earned(request'[i].notification)
  BY DEF AllEarned
<1>2. \A i \in Announcements : request'[i].step = "solves" =>
        \A a \in DOMAIN request'[i].teams : request'[i].teams[a] \in was[a]
  BY DEF AllEarned, TeamsRead
<1> QED
  BY <1>1, <1>2 DEF AllEarned, Earned, EarnedBy, TeamsRead, Remembered

LEMMA EarnedStep ==
  ASSUME Shape, AllEarned, [NoticesNext]_notice_vars
  PROVE  AllEarned'
<1>0. NoticesTypeOK /\ request \in [Announcements -> Pending]
  BY DEF Shape, NoticesTypeOK
<1>1. ASSUME NEW h \in Announcements, NEW target \in Targets, Announce(h, target)
      PROVE  AllEarned'
  <2>1. request' = [request EXCEPT ![h] =
          IF target.kind = "Filter" THEN [step |-> "accounts"]
          ELSE [step |-> "save", notification |-> [by |-> h, target |-> target, at |-> now]]]
        /\ UNCHANGED <<table, team_of, was, solves>>
    BY <1>1 DEF Announce
  <2>2. request'[h].step \in {"accounts", "save"}
    BY <1>0, <2>1
  <2>3. request'[h].step = "save" => Earned(request'[h].notification)
    <3>1. request'[h].step = "save" => request'[h].notification.target \in Targets
      BY <1>0, <2>1
    <3> QED
      BY <3>1 DEF Earned
  <2>4. \A i \in Announcements \ {h} : request'[i] = request[i]
    BY <1>0, <2>1
  <2> QED
    BY <1>0, <2>1, <2>2, <2>3, <2>4, EarnedByRequest DEF AllEarned
<1>2. ASSUME NEW h \in Announcements, ReadAccounts(h)
      PROVE  AllEarned'
  <2>1. PICK teams \in OrDefault(team_of, <<>>) :
          request' = [request EXCEPT ![h] = [step |-> "solves", teams |-> teams]]
    BY <1>2 DEF ReadAccounts
  <2>2. UNCHANGED <<table, team_of, was, solves>>
    BY <1>2 DEF ReadAccounts
  <2>3. \A a \in DOMAIN teams : teams[a] \in was[a]
    BY <1>0, <2>1 DEF OrDefault, AllEarned, Remembered, NoticesTypeOK
  <2>4. request'[h] = [step |-> "solves", teams |-> teams]
        /\ \A i \in Announcements \ {h} : request'[i] = request[i]
    BY <1>0, <2>1
  <2> QED
    BY <1>0, <2>2, <2>3, <2>4, EarnedByRequest DEF AllEarned
<1>3. ASSUME NEW h \in Announcements, ReadSolves(h)
      PROVE  AllEarned'
  <2>1. PICK rows \in OrDefault(solves, {}) :
          request' = [request EXCEPT ![h] =
            [step |-> "save", notification |->
              [by |-> h, at |-> now,
               target |-> [kind |-> "Accounts", ids |-> Matched(request[h].teams, rows)]]]]
    BY <1>3 DEF ReadSolves
  <2>2. UNCHANGED <<table, team_of, was, solves>> /\ request[h].step = "solves"
    BY <1>3 DEF ReadSolves
  <2>3. ASSUME NEW a \in Matched(request[h].teams, rows)
        PROVE  EarnedBy(a)
    <3>1. a \in DOMAIN request[h].teams /\ request[h].teams[a] \in was[a]
      BY <2>2 DEF Matched, AllEarned, TeamsRead
    <3>2. rows \subseteq solves
      BY <2>1 DEF OrDefault
    <3> QED
      BY <3>1, <3>2 DEF Matched, EarnedBy
  <2>4. /\ request'[h].step = "save"
        /\ request'[h].notification.target.ids = Matched(request[h].teams, rows)
        /\ \A i \in Announcements \ {h} : request'[i] = request[i]
    BY <1>0, <2>1
  <2>5. Earned(request'[h].notification)
    BY <2>3, <2>4 DEF Earned
  <2> QED
    BY <1>0, <2>2, <2>4, <2>5, EarnedByRequest DEF AllEarned
<1>4. ASSUME NEW h \in Announcements, SaveRow(h)
      PROVE  AllEarned'
  <2>1. /\ table' = table \cup {request[h].notification} /\ request[h].step = "save"
        /\ UNCHANGED <<team_of, was, solves>>
    BY <1>4 DEF SaveRow
  <2>2. \A n \in table' : Earned(n)
    BY <2>1 DEF AllEarned
  <2>3. request'[h].step = "send"
    BY <1>0, <1>4, HeldTyped DEF SaveRow
  <2>4. \A i \in Announcements \ {h} : request'[i] = request[i]
    BY <1>0, <1>4, RequestStep
  <2> QED
    BY <1>0, <2>1, <2>2, <2>3, <2>4, EarnedByRequest
<1>5. ASSUME NEW h \in Announcements, Send(h) \/ GiveUp(h)
      PROVE  AllEarned'
  <2>1. request'[h].step = "done" /\ UNCHANGED <<table, team_of, was, solves>>
    BY <1>0, <1>5 DEF Send, GiveUp
  <2>2. \A i \in Announcements \ {h} : request'[i] = request[i]
    BY <1>0, <1>5, RequestStep
  <2> QED
    BY <1>0, <2>1, <2>2, EarnedByRequest DEF AllEarned
<1>6. CASE Broadcast
  <2>1. UNCHANGED <<table, request, team_of, was, solves>>
    BY <1>6 DEF Broadcast
  <2> QED
    BY <2>1 DEF AllEarned, Earned, EarnedBy, TeamsRead, Remembered
<1>7. ASSUME NEW c \in Clients, ClientMoves(c)
      PROVE  AllEarned'
  <2>1. UNCHANGED <<table, request, team_of, was, solves>>
    BY <1>7, ClientCases
  <2> QED
    BY <2>1 DEF AllEarned, Earned, EarnedBy, TeamsRead, Remembered
<1>8. CASE Others
  <2>1. Remembered'
    BY <1>0, <1>8, OthersStep DEF AllEarned, Remembered
  <2> QED
    BY <1>0, <1>8, <2>1, OthersStep, EarnedStays
<1> QED
  BY <1>1, <1>2, <1>3, <1>4, <1>5, <1>6, <1>7, <1>8, NextCases DEF HandlersMove

\* api/notifications.rs:84-118: a filter resolved from two reads reaches only
\* accounts that solved the challenge or were in a team that did, however they
\* change teams between the reads and whichever read fails.
THEOREM FilterAlwaysEarned == NoticesSpec => []FilterEarned
<1>1. NoticesInit => AllEarned
  BY DEF NoticesInit, AllEarned, TeamsRead, Remembered
<1>2. AllEarned => FilterEarned
  BY DEF AllEarned, Earned, EarnedBy, FilterEarned
<1> QED
  BY <1>1, <1>2, ShapeInit, ShapeStep, EarnedStep, PTL DEF NoticesSpec
-----------------------------------------------------------------------------
\* The files.

\* A row has its blob whole, and so has an upload that is past store; an upload
\* that was answered has its row. A blob that is whole stays so.
RowsWhole ==
  /\ \A i \in files : blobs[i] = "whole"
  /\ \A i \in Uploads : upload[i] \in {"save", "answer", "linked"} => blobs[i] = "whole"
  /\ \A i \in Uploads : upload[i] \in {"answer", "linked"} => i \in files

\* A download that is past its first read has found the row.
DownloadsFound ==
  \A d \in Downloads :
    /\ download[d].step # "part"
    /\ download[d].step = "blob" => download[d].id \in files
    /\ download[d].known => download[d].id \in files
    /\ download[d].known /\ download[d].step = "not_found" =>
         Backend = "rclone" /\ "io" \in StorageFaults

FilesInv == FilesTypeOK /\ RowsWhole /\ DownloadsFound

\* What a step of a download does to the locals of all.
LEMMA DownloadMoved ==
  ASSUME FilesTypeOK, NEW d \in Downloads, NEW from, NEW to, DownloadGoto(d, from, to)
  PROVE  /\ download[d].step = from
         /\ \A x \in Downloads : /\ download'[x].id = download[x].id
                                 /\ download'[x].known = download[x].known
                                 /\ download'[x].step = IF x = d THEN to ELSE download[x].step
BY DEF FilesTypeOK, DownloadGoto

\* And their type, if the step is one there is.
LEMMA DownloadMovedTyped ==
  ASSUME FilesTypeOK, NEW d \in Downloads, NEW from,
         NEW to \in {"new", "row", "blob", "not_found", "error", "part", "whole"},
         DownloadGoto(d, from, to)
  PROVE  FilesTypeOK'
BY DEF FilesTypeOK, DownloadGoto

LEMMA FilesInvInit == FilesInit => FilesInv
BY DEF FilesInit, FilesInv, FilesTypeOK, RowsWhole, DownloadsFound

\* A step of an upload changes no download and takes no row away.
LEMMA DownloadsKept ==
  ASSUME DownloadsFound, UNCHANGED download, files \subseteq files'
  PROVE  DownloadsFound'
BY DEF DownloadsFound

\* A step of a download changes no file.
LEMMA FilesKept ==
  ASSUME RowsWhole, UNCHANGED <<blobs, files, upload>>
  PROVE  RowsWhole'
BY DEF RowsWhole

LEMMA UploadStep ==
  ASSUME FilesInv, NEW i \in Uploads,
         Upload(i) \/ WriteBlob(i) \/ StoreBlob(i) \/ SaveFile(i) \/ Answer(i) \/ FailUpload(i)
  PROVE  FilesInv'
<1> USE DEF FilesInv
<1>1. CASE Upload(i)
  <2>1. FilesTypeOK' /\ RowsWhole'
    BY <1>1 DEF Upload, UploadGoto, FilesTypeOK, RowsWhole
  <2>2. DownloadsFound'
    BY <1>1, DownloadsKept DEF Upload
  <2> QED  BY <2>1, <2>2
<1>2. CASE WriteBlob(i)
  <2>1. FilesTypeOK' /\ RowsWhole'
    BY <1>2 DEF WriteBlob, FilesTypeOK, RowsWhole
  <2>2. DownloadsFound'
    BY <1>2, DownloadsKept DEF WriteBlob
  <2> QED  BY <2>1, <2>2
<1>3. CASE StoreBlob(i)
  <2>1. FilesTypeOK' /\ RowsWhole'
    BY <1>3 DEF StoreBlob, Stored, UploadGoto, FilesTypeOK, RowsWhole
  <2>2. DownloadsFound'
    BY <1>3, DownloadsKept DEF StoreBlob
  <2> QED  BY <2>1, <2>2
<1>4. CASE SaveFile(i)
  <2>1. FilesTypeOK' /\ RowsWhole'
    BY <1>4 DEF SaveFile, UploadGoto, FilesTypeOK, RowsWhole
  <2>2. DownloadsFound'
    BY <1>4, DownloadsKept DEF SaveFile
  <2> QED  BY <2>1, <2>2
<1>5. CASE Answer(i)
  <2>1. FilesTypeOK' /\ RowsWhole'
    BY <1>5 DEF Answer, UploadGoto, FilesTypeOK, RowsWhole
  <2>2. DownloadsFound'
    BY <1>5, DownloadsKept DEF Answer
  <2> QED  BY <2>1, <2>2
<1>6. CASE FailUpload(i)
  <2>1. FilesTypeOK' /\ RowsWhole'
    BY <1>6 DEF FailUpload, FilesTypeOK, RowsWhole
  <2>2. DownloadsFound'
    BY <1>6, DownloadsKept DEF FailUpload
  <2> QED  BY <2>1, <2>2
<1> QED  BY <1>1, <1>2, <1>3, <1>4, <1>5, <1>6

LEMMA DownloadStep ==
  ASSUME FilesInv, NEW d \in Downloads,
         \/ \E i \in Uploads : Download(d, i)
         \/ FindRow(d) \/ Retrieve(d) \/ FailDownload(d) \/ Serve(d)
  PROVE  FilesInv'
<1> USE DEF FilesInv
<1>1. CASE \E i \in Uploads : Download(d, i)
  <2> PICK i \in Uploads : Download(d, i)
    BY <1>1
  <2>1. FilesTypeOK'
    BY DEF Download, FilesTypeOK
  <2>2. RowsWhole'
    BY FilesKept DEF Download
  <2>3. DownloadsFound'
    BY DEF Download, FilesTypeOK, RowsWhole, DownloadsFound
  <2> QED  BY <2>1, <2>2, <2>3
<1>2. CASE FindRow(d)
  <2>1. FilesTypeOK'
    BY <1>2, DownloadMovedTyped DEF FindRow
  <2>2. RowsWhole'
    BY <1>2, FilesKept DEF FindRow, DownloadGoto
  <2>3. DownloadsFound'
    BY <1>2, DownloadMoved DEF FindRow, DownloadGoto, DownloadsFound
  <2> QED  BY <2>1, <2>2, <2>3
<1>3. CASE Retrieve(d)
  <2>1. blobs[download[d].id] = "whole" /\ DownloadGoto(d, "blob", "whole")
    BY <1>3 DEF Retrieve, RowsWhole, DownloadsFound
  <2>2. FilesTypeOK'
    BY <2>1, DownloadMovedTyped
  <2>3. RowsWhole'
    BY <2>1, FilesKept DEF DownloadGoto
  <2>4. DownloadsFound'
    BY <2>1, DownloadMoved DEF DownloadGoto, DownloadsFound
  <2> QED  BY <2>2, <2>3, <2>4
<1>4. CASE FailDownload(d)
  <2>1. PICK from \in {"row", "blob"}, to \in {"error", "not_found"} :
          /\ DownloadGoto(d, from, to)
          /\ to = "not_found" => Backend = "rclone" /\ "io" \in StorageFaults
    BY <1>4 DEF FailDownload
  <2>2. FilesTypeOK'
    BY <2>1, DownloadMovedTyped
  <2>3. RowsWhole'
    BY <2>1, FilesKept DEF DownloadGoto
  <2>4. DownloadsFound'
    BY <2>1, DownloadMoved DEF DownloadGoto, DownloadsFound
  <2> QED  BY <2>2, <2>3, <2>4
<1>5. CASE Serve(d)
  <2>1. FilesTypeOK'
    BY <1>5 DEF Serve, FilesTypeOK
  <2>2. RowsWhole'
    BY <1>5, FilesKept DEF Serve
  <2>3. DownloadsFound'
    BY <1>5 DEF Serve, FilesTypeOK, DownloadsFound
  <2> QED  BY <2>1, <2>2, <2>3
<1> QED  BY <1>1, <1>2, <1>3, <1>4, <1>5

LEMMA FilesInvStep == FilesInv /\ [FilesNext]_file_vars => FilesInv'
<1> SUFFICES ASSUME FilesInv, [FilesNext]_file_vars PROVE FilesInv'
  OBVIOUS
<1>1. CASE UNCHANGED file_vars
  BY <1>1 DEF file_vars, FilesInv, FilesTypeOK, RowsWhole, DownloadsFound
<1>2. CASE FilesNext
  BY <1>2, UploadStep, DownloadStep DEF FilesNext
<1> QED  BY <1>1, <1>2

LEMMA AlwaysFilesInv == FilesSpec => []FilesInv
BY FilesInvInit, FilesInvStep, PTL DEF FilesSpec

\* services/files.rs:37-75: the blob is written before the row, and an upload is
\* answered after both; every reachable state is well typed.
THEOREM FilesTypeCorrect == FilesSpec => []FilesTypeOK
<1>1. FilesInv => FilesTypeOK
  BY DEF FilesInv
<1> QED  BY <1>1, AlwaysFilesInv, PTL

\* services/files.rs:50-60: no download is sent a part of a file, and one that
\* comes after the link was given out finds the file, unless rclone fails.
THEOREM DownloadsAlwaysWhole == FilesSpec => []DownloadsWhole
<1>1. FilesInv => DownloadsWhole
  BY DEF FilesInv, DownloadsFound, DownloadsWhole
<1> QED  BY <1>1, AlwaysFilesInv, PTL
-----------------------------------------------------------------------------
\* The administration of challenges, the notifications and the files together
\* (api/challenges.rs, services/notifications.rs, services/files.rs): each keeps its
\* types for all constants, whichever accounts change team under two of them.
THEOREM ServicesTypeCorrect == ServicesSpec => []ServicesTypeOK
BY AdminTypeCorrect, NoticesTypeCorrect, FilesTypeCorrect, PTL DEF ServicesSpec, ServicesTypeOK
=============================================================================
