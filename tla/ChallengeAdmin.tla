--------------------------- MODULE ChallengeAdmin ---------------------------
(***************************************************************************)
(* Creating, patching and deleting challenges, and the two player views of  *)
(* them. A view reads the account, the challenges, the submissions, the     *)
(* unlocks and the account again in calls of their own; a delete may be two *)
(* statements; a submission reads its challenge long before its row, which  *)
(* no foreign key ties to the challenge, is inserted. Only correct rows are *)
(* kept. Admins are those whose role AdminUser finds in the database.       *)
(***************************************************************************)
EXTENDS Naturals, FiniteSets, Players

CONSTANTS
  Admins,          \* accounts with the Admin role
  Ids,             \* challenge ids
  Forms,           \* the challenges an admin may post
  Calls,           \* requests served at the same time
  MaxSubmissions,  \* bound: no submission starts once the table has this many rows
  MaxWrites,       \* bound: creates, patches, deletes, unlocks and changes of team
  NoCall, NoChallenge, NoAnswer

\* limit and visibility are what a patch does not write; requires stands for
\* every column that it does. reveals: the hints field of a LockedReveal.
Challenge ==
  [visibility : {"Visible", "Hidden", "Locked"}, reveals : BOOLEAN, limit : Nat,
   requires : SUBSET Ids]

\* The challenges table, or what was read of it, by id.
Table == [Ids -> Challenge \cup {NoChallenge}]
Present(table) == {i \in Ids : table[i] # NoChallenge}
Empty == [i \in Ids |-> NoChallenge]

\* History of the moment the submission found its challenge: how many deletes of
\* it, solves and all, had come to their end (purges), and whether one was between
\* its two statements (gap).
Row ==
  [key : Nat, challenge : Ids, account : Accounts, team : Teams \cup {NoTeam}, purges : Nat,
   gap : BOOLEAN]

\* "purge" is a delete with delete_solves. again and admin are what a view found
\* when it read the account once more. was and hid are history: the teams the
\* account has been in and the ids that have been hidden ever since the request
\* came in; purges and gap are those of the row a submission will save.
Call ==
  [kind : {"list", "get", "delete", "purge", "submit"}, account : Accounts, id : Ids,
   team : Teams \cup {NoTeam}, again : Teams \cup {NoTeam}, admin : BOOLEAN,
   challenges : Table,
   rows : SUBSET [challenge : Ids, account : Accounts, team : Teams \cup {NoTeam}],
   unlocked : SUBSET Ids, was : SUBSET (Teams \cup {NoTeam}), hid : SUBSET Ids, purges : Nat,
   gap : BOOLEAN]

ASSUME AdminAssumption ==
  /\ NoChallenge \notin Challenge /\ NoCall \notin Call
  /\ Admins \subseteq Accounts
  /\ Forms \subseteq Challenge
  /\ Ids # {} /\ Calls # {} /\ IsFiniteSet(Calls)
  /\ MaxWrites \in Nat

VARIABLES
  challenges,   \* the challenges table
  submissions,  \* the submissions table, a set of rows
  unlocks,      \* hint_unlocks; every challenge has one hint
  pc,           \* next step of each handler
  call,         \* the locals of each handler
  answer,       \* the challenge the last create or patch was answered with
  purges,       \* history: how often an id was deleted with its solves
  writes        \* bound: those of MaxWrites so far

admin_vars == <<challenges, submissions, unlocks, team_of, pc, call, answer, purges, writes>>

\* What a team, or an account without one, made; the account's rows count
\* whatever team it was in.
Owns(s, team, account) == IF team = NoTeam THEN s.account = account ELSE s.team = team

\* viewer_unlocks is stricter: an unlock made in a team is not the account's.
Unlocker(u, team, account) == u.team = team /\ (team = NoTeam => u.account = account)

HiddenIn(table) == {i \in Present(table) : table[i].visibility = "Hidden"}

NewCall(kind, a, i, team) ==
  [kind |-> kind, account |-> a, id |-> i, team |-> team, again |-> NoTeam, admin |-> FALSE,
   challenges |-> Empty, rows |-> {}, unlocked |-> {}, was |-> {team_of[a]},
   hid |-> HiddenIn(challenges),
   purges |-> 0, gap |-> FALSE]

AdminInit ==
  /\ challenges = Empty
  /\ submissions = {}
  /\ unlocks = {}
  /\ team_of \in [Accounts -> Teams \cup {NoTeam}]
  /\ pc = [h \in Calls |-> "idle"]
  /\ call = [h \in Calls |-> NoCall]
  /\ answer = NoAnswer
  /\ purges = [i \in Ids |-> 0]
  /\ writes = 0

Goto(h, from, to) ==
  /\ pc[h] = from
  /\ pc' = [pc EXCEPT ![h] = to]

Finish(h) ==
  /\ pc' = [pc EXCEPT ![h] = "idle"]
  /\ call' = [call EXCEPT ![h] = NoCall]

\* What is counted by MaxWrites.
Write ==
  /\ writes < MaxWrites
  /\ writes' = writes + 1

-----------------------------------------------------------------------------
\* list_challenges and get_challenge read the account; an error is no team.
View(h, kind, a, i) ==
  /\ Goto(h, "idle", "challenges")
  /\ \E team \in OrDefault(team_of[a], NoTeam) :
       call' = [call EXCEPT ![h] = NewCall(kind, a, i, team)]
  /\ UNCHANGED <<challenges, submissions, unlocks, team_of, answer, purges, writes>>

\* All challenges, or the one asked for.
ReadChallenges(h) ==
  /\ Goto(h, "challenges", "submissions")
  /\ LET asked == IF call[h].kind = "list" THEN Ids ELSE {call[h].id}
     IN  /\ call[h].kind = "get" => call[h].id \in Present(challenges)
         /\ call' = [call EXCEPT ![h].challenges =
                       [i \in Ids |-> IF i \in asked THEN challenges[i] ELSE NoChallenge]]
  /\ UNCHANGED <<challenges, submissions, unlocks, team_of, answer, purges, writes>>

Rows == {[challenge |-> s.challenge, account |-> s.account, team |-> s.team] : s \in submissions}

ReadSubmissions(h) ==
  /\ Goto(h, "submissions", "unlocks")
  /\ \E rows \in OrDefault(Rows, {}) : call' = [call EXCEPT ![h].rows = rows]
  /\ UNCHANGED <<challenges, submissions, unlocks, team_of, answer, purges, writes>>

M_UnlockedBy(r) == {u.challenge : u \in unlocks}

\* viewer_unlocks, by the team of the first read.
UnlockedBy(r) == {u.challenge : u \in {u \in unlocks : Unlocker(u, r.team, r.account)}}

ReadUnlocks(h) ==
  /\ Goto(h, "unlocks", "account")
  /\ \E ids \in OrDefault(UnlockedBy(call[h]), {}) : call' = [call EXCEPT ![h].unlocked = ids]
  /\ UNCHANGED <<challenges, submissions, unlocks, team_of, answer, purges, writes>>

\* The account again: its role, and for a list its team once more.
ReadAccount(h) ==
  /\ Goto(h, "account", "served")
  /\ \E found \in OrDefault(<<team_of[call[h].account], call[h].account \in Admins>>,
                            <<NoTeam, FALSE>>) :
       call' = [call EXCEPT ![h].again = found[1], ![h].admin = found[2]]
  /\ UNCHANGED <<challenges, submissions, unlocks, team_of, answer, purges, writes>>

M_Team(r) == IF r.kind = "list" /\ r.admin THEN r.again ELSE r.team

\* The team a view is judged for: a list's is the one read last.
Team(r) == IF r.kind = "list" THEN r.again ELSE r.team

\* viewer_solved_ids.
SolvedIds(r, team) == {s.challenge : s \in {s \in r.rows : Owns(s, team, r.account)}}

M_Shown(r) == Present(r.challenges)

\* Hidden challenges are for admins; a get answers that there is none.
Shown(r) == {i \in Present(r.challenges) : r.admin \/ r.challenges[i].visibility # "Hidden"}

M_Entry(r, i) ==
  LET c == r.challenges[i]
      unmet == ~(c.requires \subseteq SolvedIds(r, r.team))
      locked == ~r.admin /\ (c.visibility = "Locked" \/ unmet)
  IN  [solved |-> i \in SolvedIds(r, Team(r)),
       locked |-> locked,
       content |-> i \in r.unlocked /\ (locked => c.visibility = "Locked" /\ c.reveals)]

\* to_public_challenge: solved, locked, and whether the hint's text is shown.
Entry(r, i) ==
  LET c == r.challenges[i]
      unmet == ~(c.requires \subseteq SolvedIds(r, Team(r)))
      locked == ~r.admin /\ (c.visibility = "Locked" \/ unmet)
  IN  [solved |-> i \in SolvedIds(r, Team(r)),
       locked |-> locked,
       content |-> i \in r.unlocked /\ (locked => c.visibility = "Locked" /\ c.reveals)]

\* The answer is sent: or no such challenge, a store error passed up, a hang-up.
Leave(h) ==
  /\ pc[h] # "idle"
  /\ \/ pc[h] = "served"
     \/ pc[h] = "challenges" /\ call[h].kind = "get" /\ call[h].id \notin Present(challenges)
     \/ "store" \in Faults
  /\ Finish(h)
  /\ UNCHANGED <<challenges, submissions, unlocks, team_of, answer, purges, writes>>
-----------------------------------------------------------------------------
\* The ids that stay hidden, for the history of running views.
Watch(hidden) ==
  call' = [h \in Calls |-> IF call[h] = NoCall THEN NoCall
                         ELSE [call[h] EXCEPT !.hid = @ \cap hidden]]

\* create_challenge: one insert, refused for an id that exists.
Create(i, form) ==
  /\ Write
  /\ i \notin Present(challenges)
  /\ challenges' = [challenges EXCEPT ![i] = form]
  /\ answer' = [id |-> i, challenge |-> form]
  /\ Watch(HiddenIn(challenges'))
  /\ UNCHANGED <<submissions, unlocks, team_of, pc, purges>>

\* The columns of the UPDATE: all but visibility and max_attempts.
Updated(old, form) == [old EXCEPT !.requires = form.requires]

\* update_challenge: one update, answered with the challenge that was posted,
\* whether or not there is a row.
Patch(i, form) ==
  /\ Write
  /\ challenges' = [challenges EXCEPT ![i] = IF @ = NoChallenge THEN @ ELSE Updated(@, form)]
  /\ answer' = [id |-> i, challenge |-> form]
  /\ Watch(HiddenIn(challenges'))
  /\ UNCHANGED <<submissions, unlocks, team_of, pc, purges>>

M_IsAdmin(a) == TRUE

\* AdminUser; the role never changes.
IsAdmin(a) == a \in Admins

\* delete_challenge, with delete_solves or without.
Delete(h, a, i, solves) ==
  /\ Write
  /\ IsAdmin(a)
  /\ Goto(h, "idle", IF solves THEN "purge" ELSE "delete")
  /\ call' = [call EXCEPT ![h] = NewCall(IF solves THEN "purge" ELSE "delete", a, i, NoTeam)]
  /\ UNCHANGED <<challenges, submissions, unlocks, team_of, answer, purges>>

M_Kept(i) == submissions

\* What DELETE FROM submissions leaves.
Kept(i) == {s \in submissions : s.challenge # i}

DeleteSolves(h) ==
  /\ Goto(h, "purge", "delete")
  /\ submissions' = Kept(call[h].id)
  /\ UNCHANGED <<challenges, unlocks, team_of, call, answer, purges, writes>>

DeleteChallenge(h) ==
  /\ Goto(h, "delete", "served")
  /\ challenges' = [challenges EXCEPT ![call[h].id] = NoChallenge]
  /\ answer' = NoAnswer
  /\ purges' = IF call[h].kind = "purge" THEN [purges EXCEPT ![call[h].id] = @ + 1] ELSE purges
  /\ Watch(HiddenIn(challenges'))
  /\ UNCHANGED <<submissions, unlocks, team_of, writes>>

\* The solves of i are deleted, and i is not yet.
Clearing(i) == \E h \in Calls : pc[h] = "delete" /\ call[h].kind = "purge" /\ call[h].id = i
-----------------------------------------------------------------------------
\* A submission reads its account and finds its challenge, which a player must
\* see unless the read that asks for this fails; the other checks are SubmitFlag's.
Submit(h, a, i) ==
  /\ Cardinality(submissions) < MaxSubmissions
  /\ i \in Present(challenges)
  /\ a \in Admins \/ challenges[i].visibility = "Visible" \/ "store" \in Faults
  /\ Goto(h, "idle", "save")
  /\ call' = [call EXCEPT ![h] = [NewCall("submit", a, i, team_of[a]) EXCEPT
                                    !.purges = purges[i], !.gap = Clearing(i)]]
  /\ UNCHANGED <<challenges, submissions, unlocks, team_of, answer, purges, writes>>

\* Uuid::new_v4: no row has it.
FreshKey ==
  CHOOSE k \in 0..Cardinality(submissions) : \A s \in submissions : s.key # k

Save(h) ==
  /\ pc[h] = "save"
  /\ submissions' = submissions \cup
       {[key |-> FreshKey, challenge |-> call[h].id, account |-> call[h].account,
         team |-> call[h].team, purges |-> call[h].purges, gap |-> call[h].gap]}
  /\ Finish(h)
  /\ UNCHANGED <<challenges, unlocks, team_of, answer, purges, writes>>

\* Who may unlock a hint is a matter of Hints, who may change team of Membership.
UnlockHint(a, i) ==
  /\ Write
  /\ i \in Present(challenges)
  /\ unlocks' = unlocks \cup {[challenge |-> i, account |-> a, team |-> team_of[a]]}
  /\ UNCHANGED <<challenges, submissions, team_of, pc, call, answer, purges>>

SetTeam(a, t) ==
  /\ Write
  /\ team_of' = [team_of EXCEPT ![a] = t]
  /\ call' = [h \in Calls |->
               IF call[h] = NoCall \/ call[h].account # a THEN call[h]
               ELSE [call[h] EXCEPT !.was = @ \cup {t}]]
  /\ UNCHANGED <<challenges, submissions, unlocks, pc, answer, purges>>

AdminNext ==
  \/ \E h \in Calls :
       \/ \E a \in Accounts, i \in Ids :
            \/ View(h, "get", a, i)
            \/ Submit(h, a, i)
            \/ \E solves \in BOOLEAN : Delete(h, a, i, solves)
       \/ \E a \in Accounts : View(h, "list", a, CHOOSE i \in Ids : TRUE)
       \/ ReadChallenges(h) \/ ReadSubmissions(h) \/ ReadUnlocks(h) \/ ReadAccount(h)
       \/ DeleteSolves(h) \/ DeleteChallenge(h) \/ Save(h) \/ Leave(h)
  \/ \E i \in Ids, form \in Forms : Create(i, form) \/ Patch(i, form)
  \/ \E a \in Accounts :
       \/ \E i \in Ids : UnlockHint(a, i)
       \/ \E t \in Teams \cup {NoTeam} : SetTeam(a, t)

AdminSpec == AdminInit /\ [][AdminNext]_admin_vars
-----------------------------------------------------------------------------
AdminTypeOK ==
  /\ challenges \in Table
  /\ submissions \subseteq Row
  /\ unlocks \subseteq [challenge : Ids, account : Accounts, team : Teams \cup {NoTeam}]
  /\ team_of \in [Accounts -> Teams \cup {NoTeam}]
  /\ call \in [Calls -> Call \cup {NoCall}]
  /\ purges \in [Ids -> Nat]
  /\ pc \in [Calls -> {"idle", "challenges", "submissions", "unlocks", "account", "served",
                          "purge", "delete", "save"}]
  /\ \A h \in Calls :
       /\ pc[h] = "idle" <=> call[h] = NoCall
       /\ pc[h] \in {"purge", "delete"} => call[h].account \in Admins
  /\ writes \in 0..MaxWrites

\* The views that players are being sent.
PlayerViews ==
  {call[h] : h \in {h \in Calls : /\ pc[h] = "served"
                                 /\ call[h].kind \in {"list", "get"}
                                 /\ call[h].account \notin Admins}}

\* api/challenges.rs:230-262: of a list the team is read twice and everything
\* else once. Whatever changes in between, it shows every listed prerequisite of
\* an open challenge as solved, and a challenge locked but not Locked has a
\* prerequisite that is not listed or is shown unsolved. A solved challenge may
\* well be locked.
ListConsistent ==
  \A r \in PlayerViews : r.kind = "list" =>
    \A i \in Shown(r) :
      LET listed == r.challenges[i].requires \cap Shown(r)
      IN  /\ ~Entry(r, i).locked => \A q \in listed : Entry(r, q).solved
          /\ Entry(r, i).locked => \/ r.challenges[i].visibility = "Locked"
                                   \/ listed # r.challenges[i].requires
                                   \/ \E q \in listed : ~Entry(r, q).solved

\* api/challenges.rs:148-165: a hint's text reaches only players who were, at
\* some time of the request, in a team that had unlocked it, or had done so
\* alone; a failed read never shows more.
HintsEarned ==
  \A r \in PlayerViews, i \in Ids :
    i \in Shown(r) /\ Entry(r, i).content =>
      \E u \in unlocks : /\ u.challenge = i
                         /\ \/ u.team \in r.was \ {NoTeam}
                            \/ u.team = NoTeam /\ u.account = r.account

\* api/challenges.rs:245,343: the role is read several calls after the
\* challenge. A challenge hidden all along is in no player's view, even if a read
\* of the account fails.
HiddenKept == \A r \in PlayerViews : Shown(r) \cap r.hid = {}

\* locales/en-US/openapi.ftl:50 "Also delete solve records for this challenge": of
\* the submissions that found their challenge before a delete took its solves, at
\* most one for every other handler leaves a row, however often the id is deleted
\* and created again. Those that found it after (repos/pg/challenges.rs:186) and
\* before the challenge went too (191), where gap is TRUE, leave any number.
PurgedSolvesGone ==
  \A i \in Ids :
    Cardinality({s \in submissions : s.challenge = i /\ ~s.gap /\ s.purges < purges[i]})
      < Cardinality(Calls)

\* locales/en-US/openapi.ftl:62: a patch is answered with the "Updated challenge",
\* so a challenge is what the last answer for it said.
PatchesApplied ==
  answer # NoAnswer /\ answer.id \in Present(challenges) =>
    challenges[answer.id] = answer.challenge
=============================================================================
