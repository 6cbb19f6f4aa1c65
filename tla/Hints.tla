-------------------------------- MODULE Hints --------------------------------
(***************************************************************************)
(* Unlocking hints. Each handler is one running POST                        *)
(* /challenges/{id}/hints/{index}/unlock. It reads the submissions table    *)
(* once, and the unlocks, the team and the unlocks again in later calls;    *)
(* meanwhile others unlock, flags are submitted and accounts change team.   *)
(* No row goes: the deletion of a challenge is in ChallengeAdmin.           *)
(***************************************************************************)
EXTENDS Scoring

CONSTANTS
  Handlers,        \* requests served at the same time
  Admins,          \* accounts with the Admin role
  Costs,           \* for each challenge and hint, what the hint may cost
  Faults,          \* "abandon": a handler may stop
  MaxSubmissions,  \* bound: rows of the submissions table
  MaxUnlocks,      \* bound: no request starts once this many hints are unlocked
  NoRequest        \* the request of an idle handler

\* A fixed cost is the only one; a script's depends on the solves and the clock.
ASSUME HintsAssumption ==
  /\ IsFiniteSet(Handlers) /\ Handlers # {}
  /\ Admins \subseteq Accounts
  /\ \A c \in Challenges : Costs[c] \in Seq(SUBSET Nat)
  /\ Faults \subseteq {"abandon"}
  /\ MaxSubmissions \in Nat /\ MaxUnlocks \in Nat

VARIABLES
  submissions,  \* the submissions table
  team_of,      \* the accounts' team_id column
  unlocks,      \* the hint_unlocks table
  pc,           \* next step of each handler
  req           \* the locals of each handler

vars == <<submissions, team_of, unlocks, pc, req>>

Steps == {"idle", "submissions", "existing", "team", "spent", "save"}

HintUnlock ==
  [challenge : Challenges, hint : Nat, team : Teams \cup {NoTeam}, account : Accounts,
   cost : Nat]

\* all_subs: how many rows the table had when it was read.
Request ==
  [challenge : Challenges, hint : Nat, team : Teams \cup {NoTeam}, account : Accounts,
   all_subs : Nat, cost : Nat, solve_points : Nat]

TypeOK ==
  /\ submissions \in Seq(Submission)
  /\ team_of \in [Accounts -> Teams \cup {NoTeam}]
  /\ unlocks \in Seq(HintUnlock)
  /\ pc \in [Handlers -> Steps]
  /\ req \in [Handlers -> Request \cup {NoRequest}]
  /\ \A h \in Handlers : pc[h] # "idle" => req[h] \in Request
                                           /\ req[h].all_subs <= Len(submissions)

Init ==
  /\ submissions = <<>>
  /\ team_of \in [Accounts -> Teams \cup {NoTeam}]
  /\ unlocks = <<>>
  /\ pc = [h \in Handlers |-> "idle"]
  /\ req = [h \in Handlers |-> NoRequest]

Members(t) == {a \in Accounts : team_of[a] = t}

\* The table as handler h read it: rows are only ever appended.
Snapshot(h) == SubSeq(submissions, 1, req[h].all_subs)
-----------------------------------------------------------------------------
Goto(h, from, to) ==
  /\ pc[h] = from
  /\ pc' = [pc EXCEPT ![h] = to]

M_Finish(h) == UNCHANGED pc /\ req' = [req EXCEPT ![h] = NoRequest]

Finish(h) ==
  /\ pc' = [pc EXCEPT ![h] = "idle"]
  /\ req' = [req EXCEPT ![h] = NoRequest]

\* A request arrives and reads its account; team_id is the one read here.
Receive(h, a, c, n) ==
  /\ Len(unlocks) < MaxUnlocks
  /\ Goto(h, "idle", "submissions")
  /\ req' = [req EXCEPT ![h] =
       [challenge |-> c, hint |-> n, team |-> team_of[a], account |-> a, all_subs |-> 0,
        cost |-> 0, solve_points |-> 0]]
  /\ UNCHANGED <<submissions, team_of, unlocks>>

\* The correct rows that count as the viewer's own: unlike for a submission, a
\* row made in a team does not count for an account without one.
SolvedBy(subs, r) ==
  {subs[i].challenge : i \in {j \in DOMAIN subs : subs[j].correct /\ Unlocker(subs[j], r.team, r.account)}}

M_Allowed(subs, r) == r.account \in Admins \/ Config[r.challenge].visible

Allowed(subs, r) ==
  \/ r.account \in Admins
  \/ /\ Config[r.challenge].visible
     /\ Config[r.challenge].requires \subseteq SolvedBy(subs, r)

\* The challenge and the whole table are read; everything judged from them is.
ReadSubmissions(h) ==
  /\ Goto(h, "submissions", "existing")
  /\ Allowed(submissions, req[h])
  /\ req[h].hint \in DOMAIN Costs[req[h].challenge]
  /\ req' = [req EXCEPT ![h].all_subs = Len(submissions)]
  /\ UNCHANGED <<submissions, team_of, unlocks>>

\* The rows that charge the viewer of r for its hint.
ChargesFor(r) ==
  {i \in DOMAIN unlocks : /\ unlocks[i].challenge = r.challenge
                          /\ unlocks[i].hint = r.hint
                          /\ Unlocker(unlocks[i], r.team, r.account)}

M_Charge(h) ==
  /\ pc[h] = "existing"
  /\ \E cost \in Costs[req[h].challenge][req[h].hint] :
       /\ req' = [req EXCEPT ![h].cost = cost]
       /\ pc' = [pc EXCEPT ![h] =
                   IF Deduction = "Gate" /\ req[h].team # NoTeam THEN "team" ELSE "save"]
  /\ UNCHANGED <<submissions, team_of, unlocks>>

\* Nothing unlocked yet: the cost is evaluated, and a team passes the gate.
Charge(h) ==
  /\ pc[h] = "existing"
  /\ ChargesFor(req[h]) = {}
  /\ \E cost \in Costs[req[h].challenge][req[h].hint] :
       /\ req' = [req EXCEPT ![h].cost = cost]
       /\ pc' = [pc EXCEPT ![h] =
                   IF Deduction = "Gate" /\ req[h].team # NoTeam THEN "team" ELSE "save"]
  /\ UNCHANGED <<submissions, team_of, unlocks>>

\* The team is read with its members and its score computed from the old table.
ReadTeam(h) ==
  /\ Goto(h, "team", "spent")
  /\ req' = [req EXCEPT ![h].solve_points =
                SolvePoints(Snapshot(h), req[h].team, Members(req[h].team))]
  /\ UNCHANGED <<submissions, team_of, unlocks>>

M_Affordable(r) == r.solve_points >= r.cost

\* solve_points - prior_spent < cost is what the gate refuses.
Affordable(r) == r.solve_points >= TotalCost(unlocks, r.team, r.account) + r.cost

PassGate(h) ==
  /\ Goto(h, "spent", "save")
  /\ Affordable(req[h])
  /\ UNCHANGED <<submissions, team_of, unlocks, req>>

Row(r) ==
  [challenge |-> r.challenge, hint |-> r.hint, team |-> r.team, account |-> r.account,
   cost |-> r.cost]

Save(h) ==
  /\ pc[h] = "save"
  /\ unlocks' = Append(unlocks, Row(req[h]))
  /\ Finish(h)
  /\ UNCHANGED <<submissions, team_of>>

\* The early returns: locked, no such hint, unlocked before, too dear.
Return(h) ==
  /\ \/ /\ pc[h] = "submissions"
        /\ \/ ~Allowed(submissions, req[h])
           \/ req[h].hint \notin DOMAIN Costs[req[h].challenge]
     \/ pc[h] = "existing" /\ ChargesFor(req[h]) # {}
     \/ pc[h] = "spent" /\ ~Affordable(req[h])
  /\ Finish(h)
  /\ UNCHANGED <<submissions, team_of, unlocks>>

\* A store error passed up by `?`, or the client hangs up.
Abandon(h) ==
  /\ "abandon" \in Faults
  /\ pc[h] # "idle"
  /\ Finish(h)
  /\ UNCHANGED <<submissions, team_of, unlocks>>
-----------------------------------------------------------------------------
\* A submission that got through, whatever its checks: any row it can store.
Submit(a, c, f) ==
  /\ Len(submissions) < MaxSubmissions
  /\ submissions' = Append(submissions,
       [challenge |-> c, team |-> team_of[a], account |-> a, flag |-> f,
        correct |-> FirstMatch(c, f, NoFlag) # 0, count |-> 0])
  /\ UNCHANGED <<team_of, unlocks, pc, req>>

SetTeam(a, t) ==
  /\ team_of' = [team_of EXCEPT ![a] = t]
  /\ UNCHANGED <<submissions, unlocks, pc, req>>

Next ==
  \/ \E h \in Handlers :
       \/ \E a \in Accounts, c \in Challenges : \E n \in 1..Len(Costs[c]) + 1 : Receive(h, a, c, n)
       \/ ReadSubmissions(h) \/ Charge(h) \/ ReadTeam(h) \/ PassGate(h) \/ Save(h)
       \/ Return(h) \/ Abandon(h)
  \/ \E a \in Accounts, c \in Challenges, f \in Flags : Submit(a, c, f)
  \/ \E a \in Accounts, t \in Teams \cup {NoTeam} : SetTeam(a, t)

Spec == Init /\ [][Next]_vars
-----------------------------------------------------------------------------
\* services/hint.rs:119-169 looks for an earlier unlock before the row is
\* written: a hint is charged to a team, or to an account without one, at most
\* once for every request that overlaps, and once if none does.
ChargesBounded ==
  \A i \in DOMAIN unlocks : Cardinality(ChargesFor(unlocks[i])) <= Cardinality(Handlers)

\* Scores that no later submission and no change of members can lower.
Steady ==
  \A c \in Challenges : Points[c].minimum = Points[c].initial /\ ~Config[c].consensus

\* No hint costs more than m.
Dearest(m) == \A c \in Challenges : \A n \in DOMAIN Costs[c] : \A k \in Costs[c][n] : k <= m

\* services/hint.rs:138-158: where scores never fall, the gate lets a team spend
\* more than it has only through requests that overlap: each but one of them adds
\* at most the dearest hint, and the stale score never lets a lone request through.
OverspendBounded ==
  Deduction = "Gate" /\ Steady =>
    \A t \in Teams, a \in Accounts :
      \A m \in UNION {UNION {Costs[c][n] : n \in DOMAIN Costs[c]} : c \in Challenges} :
        Dearest(m) =>
          TotalCost(unlocks, t, a) <= SolvePoints(submissions, t, Members(t))
                                        + (Cardinality(Handlers) - 1) * m

\* services/hint.rs:84-114: when a hint was unlocked by a player, the challenge
\* was visible and its prerequisites had been solved by the very team or lone
\* account that is charged, although accounts change team meanwhile.
UnlocksEarned ==
  \A i \in DOMAIN unlocks :
    LET u == unlocks[i]
    IN  u.account \notin Admins =>
          /\ Config[u.challenge].visible
          /\ Config[u.challenge].requires \subseteq SolvedBy(submissions, u)

\* locales/en-US/openapi.ftl:35 says that an unlock "Charges the evaluated cost
\* once (idempotent)".
ChargedOnce ==
  \A i \in DOMAIN unlocks : Cardinality(ChargesFor(unlocks[i])) <= 1

\* types/config.rs:12 says of Gate that it will "refuse to unlock a hint a team
\* can't afford".
NeverOverspent ==
  Deduction = "Gate" /\ Steady =>
    \A t \in Teams, a \in Accounts :
      TotalCost(unlocks, t, a) <= SolvePoints(submissions, t, Members(t))
=============================================================================
