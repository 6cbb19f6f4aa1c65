----------------------------- MODULE RateLimiter -----------------------------
(***************************************************************************)
(* The in-memory rate limiter and the handlers in front of which it stands. *)
(* check_limit reads the clock and then awaits the lock, so a request can   *)
(* enter the map with a time that is long past. A submission is checked for *)
(* its IP and then for its account, a login or a registration for its IP.   *)
(***************************************************************************)
EXTENDS Naturals, Sequences, FiniteSets

CONSTANTS
  Handlers,  \* requests served at the same time
  Keys,      \* the limiter's keys: a prefix and an IP or an account
  Routes,    \* the keys a request is checked for, in order
  Limit,     \* requests a key is allowed within the window
  Window,    \* window_secs
  MaxTime,   \* bound: the clock stops here
  NoRequest  \* the request of an idle handler

ASSUME RateLimiterAssumption ==
  /\ IsFiniteSet(Handlers)
  /\ Limit \in [Keys -> Nat]
  /\ Window \in Nat /\ MaxTime \in Nat
  /\ Routes \subseteq {r \in Seq(Keys) : r # <<>>}

VARIABLES
  clock,    \* seconds
  log,      \* every admission so far
  entries,  \* the map: for each key, the admissions (by index in log) it still holds
  req       \* the request of each handler

vars == <<clock, log, entries, req>>

\* at: the clock read for the first of the keys still to be checked.
Request == [keys : {r \in Seq(Keys) : r # <<>>}, at : Nat]

\* ts: the time recorded in the map; real: the time of the admission itself.
Admission == [key : Keys, ts : Nat, real : Nat, by : Handlers]

TypeOK ==
  /\ clock \in Nat
  /\ log \in Seq(Admission)
  /\ entries \in [Keys -> SUBSET (DOMAIN log)]
  /\ req \in [Handlers -> Request \cup {NoRequest}]

Init ==
  /\ clock = 0
  /\ log = <<>>
  /\ entries = [k \in Keys |-> {}]
  /\ req = [h \in Handlers |-> NoRequest]

\* A request arrives; check_limit reads the clock and waits for the lock.
Arrive(h, route) ==
  /\ req[h] = NoRequest
  /\ req' = [req EXCEPT ![h] = [keys |-> route, at |-> clock]]
  /\ UNCHANGED <<clock, log, entries>>

M_Fresh(k, now) == {i \in entries[k] : now + 1 < log[i].ts + Window}

\* retain: the admissions that are not older than the window, or lie ahead.
Fresh(k, now) == {i \in entries[k] : now < log[i].ts + Window}

\* With the lock held: admit the request and go on to its next key, or to the
\* handler's own work when it was the last.
Admit(h) ==
  /\ req[h] # NoRequest
  /\ LET k    == Head(req[h].keys)
         kept == Fresh(k, req[h].at)
     IN  /\ Cardinality(kept) < Limit[k]
         /\ log' = Append(log, [key |-> k, ts |-> req[h].at, real |-> clock, by |-> h])
         /\ entries' = [entries EXCEPT ![k] = kept \cup {Len(log) + 1}]
  /\ req' = [req EXCEPT ![h] = IF Len(req[h].keys) = 1 THEN NoRequest
                               ELSE [keys |-> Tail(req[h].keys), at |-> clock]]
  /\ UNCHANGED clock

M_Reject(h) ==
  /\ req[h] # NoRequest
  /\ LET k    == Head(req[h].keys)
         kept == Fresh(k, req[h].at)
     IN  /\ Cardinality(kept) >= Limit[k]
         /\ entries' = [entries EXCEPT ![k] = kept \cup {Len(log) + 1}]
  /\ req' = [req EXCEPT ![h] = NoRequest]
  /\ UNCHANGED <<clock, log>>

\* With the lock held: turn the request away; its other keys keep what they have.
Reject(h) ==
  /\ req[h] # NoRequest
  /\ LET k    == Head(req[h].keys)
         kept == Fresh(k, req[h].at)
     IN  /\ Cardinality(kept) >= Limit[k]
         /\ entries' = [entries EXCEPT ![k] = kept]
  /\ req' = [req EXCEPT ![h] = NoRequest]
  /\ UNCHANGED <<clock, log>>

\* The client hangs up while the lock is awaited.
Abandon(h) ==
  /\ req[h] # NoRequest
  /\ req' = [req EXCEPT ![h] = NoRequest]
  /\ UNCHANGED <<clock, log, entries>>

Tick ==
  /\ clock < MaxTime
  /\ clock' = clock + 1
  /\ UNCHANGED <<log, entries, req>>

Next ==
  \/ \E h \in Handlers :
       (\E route \in Routes : Arrive(h, route)) \/ Admit(h) \/ Reject(h) \/ Abandon(h)
  \/ Tick

Spec == Init /\ [][Next]_vars
-----------------------------------------------------------------------------
\* The admissions of key k within the window that starts at x.
AdmittedIn(k, x) ==
  {i \in DOMAIN log : log[i].key = k /\ x <= log[i].real /\ log[i].real < x + Window}

\* api/extract.rs:162-175: a late request can push out an admission that a
\* slower one would still count. What the limiter guarantees is that a window
\* admits at most the limit and one request more for every handler that was
\* already waiting when the window began.
WindowBounded ==
  \A k \in Keys, x \in 0..clock :
    Cardinality(AdmittedIn(k, x)) <= Limit[k] + Cardinality(Handlers)

\* locales/en-US/openapi.ftl:29: "Rate limited to 10 / 60s per IP and per account".
WindowKept ==
  \A k \in Keys, x \in 0..clock : Cardinality(AdmittedIn(k, x)) <= Limit[k]
=============================================================================
