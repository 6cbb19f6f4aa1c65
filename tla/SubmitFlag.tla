------------------------------ MODULE SubmitFlag ------------------------------
(***************************************************************************)
(* Concurrent flag submission. Each handler is one running POST             *)
(* /challenges/{id}/submit; pc[h] names the next awaited store call. No     *)
(* transaction or unique index ties the calls together, so between any two  *)
(* of them other handlers save, accounts change team and instance flags     *)
(* come and go. The rate limiter in front is a module of its own. No row    *)
(* goes: the deletion of a challenge with its solves is in ChallengeAdmin.  *)
(***************************************************************************)
EXTENDS Submissions

CONSTANTS
  Handlers,        \* requests served at the same time
  Admins,          \* accounts with the Admin role
  Broadcast,       \* which of "FirstBlood" and "Solve" the config broadcasts
  InstanceFlags,   \* the supply of freshly generated instance flags
  Faults,          \* "abandon": a handler may stop; "store": a read whose error is swallowed may fail
  MaxSubmissions,  \* bound: no request starts once the table has this many rows
  NoRequest        \* the request of an idle handler

ASSUME SubmitFlagAssumption ==
  /\ IsFiniteSet(Handlers) /\ Handlers # {}
  /\ Admins \subseteq Accounts
  /\ Broadcast \subseteq {"FirstBlood", "Solve"}
  /\ InstanceFlags \subseteq Flags
  /\ Faults \subseteq {"abandon", "store"}
  /\ MaxSubmissions \in Nat

VARIABLES
  submissions,  \* the submissions table
  team_of,      \* the accounts' team_id column
  instances,    \* live rows of challenge_instances (expires_at > now)
  spawned,      \* every instance row ever inserted
  pc,           \* next step of each handler
  req,          \* the locals of each handler
  announced     \* notifications broadcast so far

vars == <<submissions, team_of, instances, spawned, pc, req, announced>>

Steps == {"idle", "visibility", "attempts", "requirements", "match", "dedup",
          "count", "teams", "consensus", "save", "announce"}

Instance ==
  [challenge : Challenges, team : Teams \cup {NoTeam}, account : Accounts,
   flag : InstanceFlags]

\* active: the live flag read; part: the matching part; existing: accounts of
\* the correct rows read; solved_by: <<team, account>> pairs still to be
\* counted; count: full solves counted.
Request ==
  [account : Accounts, team : Teams \cup {NoTeam}, challenge : Challenges,
   flag : Flags, active : Flags \cup {NoFlag}, part : Nat, correct : BOOLEAN,
   existing : SUBSET Accounts, solved_by : SUBSET (Teams \X Accounts),
   count : Nat]

Announcement ==
  [kind : {"FirstBlood", "Solve"}, challenge : Challenges,
   solver : Teams \cup Accounts]

TypeOK ==
  /\ submissions \in Seq(Submission)
  /\ team_of \in [Accounts -> Teams \cup {NoTeam}]
  /\ instances \in SUBSET Instance
  /\ spawned \in SUBSET Instance
  /\ pc \in [Handlers -> Steps]
  /\ req \in [Handlers -> Request \cup {NoRequest}]
  /\ \A h \in Handlers : pc[h] # "idle" => req[h] \in Request
  /\ announced \in SUBSET Announcement

Init ==
  /\ submissions = <<>>
  /\ team_of \in [Accounts -> Teams \cup {NoTeam}]
  /\ instances = {}
  /\ spawned = {}
  /\ pc = [h \in Handlers |-> "idle"]
  /\ req = [h \in Handlers |-> NoRequest]
  /\ announced = {}

\* What the code promises of the table alone, when n requests may overlap.
Ledger == INSTANCE SubmissionLedger WITH Overlap <- Cardinality(Handlers)

Members(t) == {a \in Accounts : team_of[a] = t}
-----------------------------------------------------------------------------
\* How a handler moves: on to its next call, with new locals, or out.
Goto(h, from, to) ==
  /\ pc[h] = from
  /\ pc' = [pc EXCEPT ![h] = to]

Finish(h) ==
  /\ pc' = [pc EXCEPT ![h] = "idle"]
  /\ req' = [req EXCEPT ![h] = NoRequest]

\* A request arrives and reads its account; team_id is the one read here.
Receive(h, a, c, f) ==
  /\ Len(submissions) < MaxSubmissions
  /\ Goto(h, "idle", "visibility")
  /\ req' = [req EXCEPT ![h] =
       [account |-> a, team |-> team_of[a], challenge |-> c, flag |-> f,
        active |-> NoFlag, part |-> 0, correct |-> FALSE, existing |-> {},
        solved_by |-> {}, count |-> 0]]
  /\ UNCHANGED <<submissions, team_of, instances, spawned, announced>>

M_MaySee(r) == r.account \notin Admins \/ Config[r.challenge].visible

MaySee(r) == r.account \in Admins \/ Config[r.challenge].visible

\* The handler turns players away from a challenge that is not visible; if the
\* read fails it goes on.
CheckVisibility(h) ==
  /\ Goto(h, "visibility", "attempts")
  /\ MaySee(req[h]) \/ "store" \in Faults
  /\ UNCHANGED <<submissions, team_of, instances, spawned, req, announced>>

\* The rows the attempt cap counts for a request.
PriorOf(r) == Prior(submissions, r.challenge, r.team, r.account)

M_AttemptsLeft(r) ==
  LET c == Config[r.challenge]
  IN  c.limit # NoLimit => Attempts(c.mode, submissions, PriorOf(r)) <= c.limit

AttemptsLeft(r) ==
  LET c == Config[r.challenge]
  IN  c.limit # NoLimit => Attempts(c.mode, submissions, PriorOf(r)) < c.limit

CheckAttempts(h) ==
  /\ Goto(h, "attempts", "requirements")
  /\ AttemptsLeft(req[h])
  /\ UNCHANGED <<submissions, team_of, instances, spawned, req, announced>>

M_CheckRequirements(h) ==
  /\ Goto(h, "requirements", "match")
  /\ UNCHANGED <<submissions, team_of, instances, spawned, req, announced>>

CheckRequirements(h) ==
  /\ Goto(h, "requirements", "match")
  /\ RequirementsMet(submissions, req[h].challenge, req[h].team, req[h].account)
  /\ UNCHANGED <<submissions, team_of, instances, spawned, req, announced>>

M_ActiveFlags(r) ==
  LET live == {i \in instances : i.challenge = r.challenge}
  IN  IF live = {} THEN {NoFlag} ELSE {i.flag : i \in live}

\* The live flags find_active_flag may return: one of the team's instances, or
\* with no team one the account spawned.
ActiveFlags(r) ==
  LET live == {i \in instances : i.challenge = r.challenge /\ Owns(i, r.team, r.account)}
  IN  IF live = {} THEN {NoFlag} ELSE {i.flag : i \in live}

MatchFlag(h) ==
  /\ Goto(h, "match", "dedup")
  /\ \E active \in ActiveFlags(req[h]) :
       LET part == FirstMatch(req[h].challenge, req[h].flag, active)
       IN  req' = [req EXCEPT ![h].active = active, ![h].part = part,
                              ![h].correct = (part # 0)]
  /\ UNCHANGED <<submissions, team_of, instances, spawned, announced>>

CreditedOf(r) == CorrectIn(submissions, PriorOf(r))

\* A correct flag already credited: the same part of a Multi flag, the same
\* account under team consensus, any correct row otherwise.
AlreadySolved(r) ==
  LET c == Config[r.challenge]
  IN  /\ r.correct
      /\ \/ c.multi /\ \E i \in CreditedOf(r) :
              Accepts(c.parts[r.part], submissions[i].flag, r.active)
         \/ ~c.multi /\ c.consensus /\ r.account \in AccountsIn(submissions, CreditedOf(r))
         \/ ~c.multi /\ ~c.consensus /\ CreditedOf(r) # {}

M_CheckSolved(h) ==
  /\ Goto(h, "dedup", "count")
  /\ req' = [req EXCEPT ![h].existing = AccountsIn(submissions, CreditedOf(req[h]))]
  /\ UNCHANGED <<submissions, team_of, instances, spawned, announced>>

CheckSolved(h) ==
  /\ Goto(h, "dedup", "count")
  /\ ~AlreadySolved(req[h])
  /\ req' = [req EXCEPT ![h].existing = AccountsIn(submissions, CreditedOf(req[h]))]
  /\ UNCHANGED <<submissions, team_of, instances, spawned, announced>>
-----------------------------------------------------------------------------
M_CountTeams(h) ==
  /\ Goto(h, "count", "teams")
  /\ req[h].team # NoTeam
  /\ LET solves == Solves(submissions, req[h].challenge)
     IN  req' = [req EXCEPT ![h].solved_by =
           {<<submissions[i].team, submissions[i].account>> : i \in solves}]
  /\ UNCHANGED <<submissions, team_of, instances, spawned, announced>>

\* find_all for the solve count of a team: the teams to be looked up one by one.
CountTeams(h) ==
  /\ Goto(h, "count", "teams")
  /\ req[h].team # NoTeam
  /\ LET solves == Solves(submissions, req[h].challenge)
     IN  req' = [req EXCEPT ![h].solved_by =
           {<<submissions[i].team, submissions[i].account>> :
              i \in {j \in solves : submissions[j].team # NoTeam}}]
  /\ UNCHANGED <<submissions, team_of, instances, spawned, announced>>

M_CountAccounts(h) ==
  /\ Goto(h, "count", "save")
  /\ req[h].team = NoTeam
  /\ req' = [req EXCEPT ![h].count =
                Cardinality(Solves(submissions, req[h].challenge)) + 1]
  /\ UNCHANGED <<submissions, team_of, instances, spawned, announced>>

\* Without a team the distinct accounts are counted, and one more: the
\* submission always completes the solve.
CountAccounts(h) ==
  /\ Goto(h, "count", "save")
  /\ req[h].team = NoTeam
  /\ LET solves == Solves(submissions, req[h].challenge)
     IN  req' = [req EXCEPT ![h].count = Cardinality(AccountsIn(submissions, solves)) + 1]
  /\ UNCHANGED <<submissions, team_of, instances, spawned, announced>>

\* Has team t, whose accounts in solvers have a correct row, fully solved c?
FullySolved(c, t, solvers) ==
  IF Config[c].consensus
  THEN Members(t) # {} /\ Members(t) \subseteq solvers
  ELSE solvers # {}

\* One team_repo.find_by_id of the counting loop; a failed one is not counted.
CountTeam(h, t) ==
  /\ Goto(h, "teams", "teams")
  /\ t \in {p[1] : p \in req[h].solved_by}
  /\ LET solvers == {p[2] : p \in {q \in req[h].solved_by : q[1] = t}}
         solved  == FullySolved(req[h].challenge, t, solvers)
     IN  \E counted \in BOOLEAN :
           /\ counted = solved \/ (~counted /\ "store" \in Faults)
           /\ req' = [req EXCEPT ![h].solved_by = {p \in @ : p[1] # t},
                                 ![h].count = IF counted THEN @ + 1 ELSE @]
  /\ UNCHANGED <<submissions, team_of, instances, spawned, announced>>

CountedTeams(h) ==
  /\ Goto(h, "teams", "consensus")
  /\ req[h].solved_by = {}
  /\ UNCHANGED <<submissions, team_of, instances, spawned, req, announced>>

\* Would this submission complete the team's solve? (A team that cannot be read
\* is taken not to.)
Completes(r) ==
  IF Config[r.challenge].consensus
  THEN Members(r.team) \subseteq r.existing \cup {r.account}
  ELSE r.existing = {}

ReachConsensus(h) ==
  /\ Goto(h, "consensus", "save")
  /\ LET r    == req[h]
         lost == "store" \in Faults /\ Config[r.challenge].consensus
     IN  \E reached \in BOOLEAN :
           /\ reached = Completes(r) \/ (~reached /\ lost)
           /\ req' = [req EXCEPT ![h].count = IF reached THEN @ + 1 ELSE @]
  /\ UNCHANGED <<submissions, team_of, instances, spawned, announced>>

\* The row a request saves; points of a correct one come from count.max(1).
Row(r) ==
  [challenge |-> r.challenge, team |-> r.team, account |-> r.account,
   flag |-> r.flag, correct |-> r.correct,
   count |-> IF ~r.correct THEN 0 ELSE IF r.count = 0 THEN 1 ELSE r.count]

\* Every submission is saved; an incorrect one is then refused.
Save(h) ==
  /\ pc[h] = "save"
  /\ submissions' = Append(submissions, Row(req[h]))
  /\ IF req[h].correct
     THEN pc' = [pc EXCEPT ![h] = "announce"] /\ UNCHANGED req
     ELSE Finish(h)
  /\ UNCHANGED <<team_of, instances, spawned, announced>>

M_AnnounceTo(h, solvers) ==
  announced' = announced \cup
    {n \in {[kind |-> "FirstBlood", challenge |-> req[h].challenge,
             solver |-> Solver(Row(req[h]))]} :
       n.kind \in Broadcast /\ Cardinality(solvers) <= 1}

\* maybe_broadcast_solve, with the solvers it read; a failed read yields none.
AnnounceTo(h, solvers) ==
  LET kind == IF Cardinality(solvers) <= 1 THEN "FirstBlood" ELSE "Solve"
  IN  announced' = announced \cup
        {n \in {[kind |-> kind, challenge |-> req[h].challenge,
                 solver |-> Solver(Row(req[h]))]} : n.kind \in Broadcast}

Announce(h) ==
  /\ pc[h] = "announce"
  /\ \/ AnnounceTo(h, Solvers(submissions, req[h].challenge))
     \/ "store" \in Faults /\ AnnounceTo(h, {})
  /\ Finish(h)
  /\ UNCHANGED <<submissions, team_of, instances, spawned>>
-----------------------------------------------------------------------------
\* The early returns of the handler and the service.
Refused(h) ==
  \/ pc[h] = "visibility" /\ ~MaySee(req[h])
  \/ pc[h] = "attempts" /\ ~AttemptsLeft(req[h])
  \/ pc[h] = "requirements"
     /\ ~RequirementsMet(submissions, req[h].challenge, req[h].team, req[h].account)
  \/ pc[h] = "dedup" /\ AlreadySolved(req[h])

Refuse(h) ==
  /\ Refused(h)
  /\ Finish(h)
  /\ UNCHANGED <<submissions, team_of, instances, spawned, announced>>

\* A store error that is passed up by `?`, or the client hangs up and the
\* handler's future is dropped at an await.
Abandon(h) ==
  /\ "abandon" \in Faults
  /\ pc[h] # "idle"
  /\ Finish(h)
  /\ UNCHANGED <<submissions, team_of, instances, spawned, announced>>
-----------------------------------------------------------------------------
\* Anything that writes an account's team_id: joining a team, and the
\* clear-and-refill of a team's members when it is updated.
SetTeam(a, t) ==
  /\ team_of' = [team_of EXCEPT ![a] = t]
  /\ UNCHANGED <<submissions, instances, spawned, pc, req, announced>>

\* The instancer inserts a row with a fresh flag, which names it; expiry removes it.
SpawnInstance(a, c, f) ==
  /\ f \notin {i.flag : i \in spawned}
  /\ \E i \in DOMAIN Config[c].parts : Config[c].parts[i].live
  /\ LET new == [challenge |-> c, team |-> team_of[a], account |-> a, flag |-> f]
     IN  instances' = instances \cup {new} /\ spawned' = spawned \cup {new}
  /\ UNCHANGED <<submissions, team_of, pc, req, announced>>

ExpireInstance(f) ==
  /\ \E i \in instances : i.flag = f
  /\ instances' = {i \in instances : i.flag # f}
  /\ UNCHANGED <<submissions, team_of, spawned, pc, req, announced>>

Progress(h) ==
  \/ CheckVisibility(h)
  \/ CheckAttempts(h)
  \/ CheckRequirements(h)
  \/ MatchFlag(h)
  \/ CheckSolved(h)
  \/ CountTeams(h)
  \/ CountAccounts(h)
  \/ \E t \in Teams : CountTeam(h, t)
  \/ CountedTeams(h)
  \/ ReachConsensus(h)
  \/ Save(h)
  \/ Announce(h)
  \/ Refuse(h)

Environment ==
  \/ \E a \in Accounts, t \in Teams \cup {NoTeam} : SetTeam(a, t)
  \/ \E a \in Accounts, c \in Challenges, f \in InstanceFlags : SpawnInstance(a, c, f)
  \/ \E f \in InstanceFlags : ExpireInstance(f)

Next ==
  \/ \E h \in Handlers :
       \/ Progress(h)
       \/ Abandon(h)
       \/ \E a \in Accounts, c \in Challenges, f \in Flags : Receive(h, a, c, f)
  \/ Environment

Spec == Init /\ [][Next]_vars

\* tokio runs every handler whose store call has returned.
FairSpec == Spec /\ \A h \in Handlers : WF_vars(Progress(h))
-----------------------------------------------------------------------------
\* The handlers past the attempt check that may still save for the submitter.
AttemptingSteps ==
  {"requirements", "match", "dedup", "count", "teams", "consensus", "save"}

Attempting(c, t, a) ==
  {h \in Handlers : pc[h] \in AttemptingSteps /\ Mine(req[h], c, t, a)}

\* services/solve.rs:95 compares a count read long before the row is written.
\* What the code guarantees is that the attempts counted against a capped
\* challenge exceed its cap only by requests that overlap: with n handlers the
\* cap is overrun by at most n - 1, and with one not at all.
AttemptsBounded ==
  \A c \in Challenges, t \in Teams \cup {NoTeam}, a \in Accounts :
    Config[c].limit # NoLimit =>
      Attempts(Config[c].mode, submissions, RowsOf(submissions, c, t, a)) + 1
        <= Config[c].limit + Cardinality(Handlers)

\* services/solve.rs:138-178 looks for an earlier credit before the row is
\* written. A credit is duplicated only by overlapping requests: n handlers
\* store at most n rows for it, and one handler stores it once.
CreditsBounded ==
  \A c \in Challenges, t \in Teams \cup {NoTeam}, a \in Accounts :
    \A p \in {0} \cup DOMAIN Config[c].parts :
      Stable(c) => Cardinality(CreditRows(submissions, c, t, a, p)) <= Cardinality(Handlers)

\* services/solve.rs:101-120: when a row was saved, its submitter already had a
\* correct row for every challenge the row's challenge requires, although the
\* check ran several awaits earlier and accounts change team in between.
RequirementsRespected ==
  \A i \in DOMAIN submissions :
    LET s == submissions[i]
    IN  RequirementsMet(SubSeq(submissions, 1, i - 1), s.challenge, s.team, s.account)

\* api/solve.rs:63-77: nobody but an admin gets a row in for a challenge that
\* is not visible.
HiddenUntouched ==
  \A i \in DOMAIN submissions :
    \/ Config[submissions[i].challenge].visible
    \/ submissions[i].account \in Admins

\* repos/pg/challenges.rs:6-32: a correct row of a challenge with an instanced
\* flag carries a flag once generated for an instance of its own submitter:
\* another team's instance flag earns nothing.
InstanceFlagsNotShared ==
  \A i \in DOMAIN submissions :
    LET s == submissions[i]
    IN  s.correct /\ (\A k \in DOMAIN Config[s.challenge].parts :
                        Config[s.challenge].parts[k].live) =>
          \E n \in spawned : /\ n.challenge = s.challenge
                            /\ n.flag = s.flag
                            /\ Owns(n, s.team, s.account)

\* services/solve.rs:180-244: the solve count a correct row is priced at never
\* exceeds one more than the solvers the table held before the row, so a stale
\* or repeated read may pay a late solver too much but never too little.
NeverUnderpaid ==
  \A i \in DOMAIN submissions :
    LET s      == submissions[i]
        before == {j \in Solves(submissions, s.challenge) : j < i}
        units  == IF s.team = NoTeam THEN AccountsIn(submissions, before)
                  ELSE TeamsIn(submissions, before)
    IN  s.correct => s.count <= Cardinality(units) + 1

\* api/solve.rs:117-130: the table is read again after the save, so a
\* first-blood broadcast names the solver of the challenge's earliest correct
\* row, and no two solvers are both announced.
FirstBloodIsFirst ==
  \A n \in announced : n.kind = "FirstBlood" =>
    \E i \in Solves(submissions, n.challenge) :
      /\ Solver(submissions[i]) = n.solver
      /\ \A j \in Solves(submissions, n.challenge) : i <= j

\* services/solve.rs:54-289 read as a whole: every row is one the abstract ledger
\* would admit, with as much slack as there are overlapping requests.
ImplementsLedger == Ledger!Spec

\* PARITY.md:82 lists "Already-solved dedup": no credit is stored twice.
SolvedOnce ==
  \A c \in Challenges, t \in Teams \cup {NoTeam}, a \in Accounts :
    \A p \in {0} \cup DOMAIN Config[c].parts :
      Cardinality(CreditRows(submissions, c, t, a, p)) <= 1

\* locales/en-US/openapi.ftl:95 calls max_attempts a "per-challenge submission
\* cap": no submitter's attempts exceed it.
CapKept ==
  \A c \in Challenges, t \in Teams \cup {NoTeam}, a \in Accounts :
    Config[c].limit # NoLimit =>
      Attempts(Config[c].mode, submissions, RowsOf(submissions, c, t, a)) <= Config[c].limit

\* README.md:38 promises automatic first-blood broadcasts: once a challenge is
\* solved and no handler is running, somebody has been announced.
FirstBloodDrawn ==
  (\A h \in Handlers : pc[h] = "idle") =>
    \A c \in Challenges : Solves(submissions, c) # {} =>
      \E n \in announced : n.kind = "FirstBlood" /\ n.challenge = c

\* api/solve.rs:87: every solver of a challenge is announced in the end, as
\* first blood or as a solve, when both are broadcast and no handler is dropped.
SolvesAnnounced ==
  \A c \in Challenges, s \in Teams \cup Accounts :
    (s \in Solvers(submissions, c)) ~>
      (\E n \in announced : n.challenge = c /\ n.solver = s)
=============================================================================
