----------------------------- MODULE Scoreboard -----------------------------
(***************************************************************************)
(* GET /scoreboard and its CTFtime export. A viewer's request reads the     *)
(* teams, the members of one team after the other, the submissions, the     *)
(* challenges and the unlocks in calls of their own, while rows land,       *)
(* accounts change team and the clock passes freeze_time. No row goes: the  *)
(* deletion of a challenge is in ChallengeAdmin. A row carries the          *)
(* time its request stamped it with, which may be Lateness before it lands. *)
(***************************************************************************)
EXTENDS Scoring, Integers, FiniteSetsExt, TLC

CONSTANTS
  Brackets,        \* the sets of teams a board may be filtered to
  Freeze,          \* freeze_time; one that is never reached is None
  ByAccuracy,      \* sort_by_accuracy
  HintCost,        \* what an unlock of the model costs
  Lateness,        \* bound: how long before its insert a row was stamped
  MaxTime,         \* bound: the clock
  MaxSubmissions,  \* bound: rows of the submissions table
  MaxUnlocks,      \* bound: rows of hint_unlocks
  Never            \* last_solve_time = None

ASSUME ScoreboardAssumption ==
  /\ Brackets \subseteq SUBSET Teams
  /\ Freeze \in Nat /\ HintCost \in Nat /\ Lateness \in Nat
  /\ MaxTime \in Nat /\ MaxSubmissions \in Nat /\ MaxUnlocks \in Nat
  /\ Never \notin Nat

VARIABLES
  now,          \* the clock
  submissions,  \* the submissions table
  unlocks,      \* the hint_unlocks table
  team_of,      \* the accounts' team_id column
  pc,           \* next step of the viewer's request
  view,         \* its locals
  moved         \* history: someone changed team meanwhile

tables == <<now, submissions, unlocks, team_of>>
board_vars == <<now, submissions, unlocks, team_of, pc, view, moved>>

Row == [challenge : Challenges, team : Teams \cup {NoTeam}, account : Accounts,
        flag : Flags, correct : BOOLEAN, time : Nat]
Unlock == [team : Teams, cost : Nat, time : Nat]

ScoreboardEntry ==
  [points : Int, last_solve_time : Nat \cup {Never}, accuracy : Nat \X Nat,
   solves : SUBSET Challenges]

\* What a request has read so far; subs is the length of the table it read, had
\* (history) the points each team had at that moment.
View == [shown : SUBSET Teams, members : UNION {[T -> SUBSET Accounts] : T \in SUBSET Teams},
         subs : Nat, had : [Teams -> Int], board : UNION {[T -> ScoreboardEntry] : T \in SUBSET Teams},
         stats : UNION {[T -> SUBSET (Challenges \X Nat)] : T \in SUBSET Teams}]

NoView == [shown |-> {}, members |-> <<>>, subs |-> 0,
           had |-> [t \in Teams |-> 0], board |-> <<>>, stats |-> <<>>]

Members(t) == {a \in Accounts : team_of[a] = t}
-----------------------------------------------------------------------------
M_Unfrozen(rows) == [k \in {k \in DOMAIN rows : rows[k].time <= Freeze} |-> rows[k]]

\* What a board looks at: the rows stamped before freeze_time, each at its index.
Unfrozen(rows) == [k \in {k \in DOMAIN rows : rows[k].time < Freeze} |-> rows[k]]

\* The challenges of which the team has scored a part, and the rows it did it with.
SolvedIds(subs, t, members) ==
  {c \in Challenges : \E i \in DOMAIN Config[c].parts : Scored(subs, t, members, c, i)}

ScoringRows(subs, t, members) ==
  UNION {RowsFor(subs, t, x[1], x[2]) : x \in
    {x \in UNION {{c} \X DOMAIN Config[c].parts : c \in Challenges} :
       Scored(subs, t, members, x[1], x[2])}}

LastSolveTime(subs, t, members) ==
  LET rows == ScoringRows(subs, t, members)
  IN  IF rows = {} THEN Never ELSE Max({subs[k].time : k \in rows})

\* apply_hint_deduction.
Deducted(points, spent) ==
  CASE Deduction = "None" -> points
    [] Deduction = "AllowNegative" -> points - spent
    [] OTHER -> Max({points - spent, 0})

\* Correct rows and rows of a team; with none it counts as fully accurate.
Accuracy(subs, t) ==
  LET mine == {k \in DOMAIN subs : subs[k].team = t}
  IN  IF mine = {} THEN <<1, 1>> ELSE <<Cardinality(CorrectIn(subs, mine)), Cardinality(mine)>>

\* The entry of team t, from tables as they were read.
Entry(subs, unl, t, members) ==
  LET s == Unfrozen(subs)
  IN  [points |-> Deducted(SolvePoints(s, t, members), TotalCost(Unfrozen(unl), t, NoTeam)),
       last_solve_time |-> LastSolveTime(s, t, members),
       accuracy |-> Accuracy(s, t),
       solves |-> SolvedIds(s, t, members)]

M_Ahead(e, f) ==
  \/ e.points > f.points
  \/ /\ e.points = f.points
     /\ IF ByAccuracy
        THEN e.accuracy[1] * f.accuracy[2] > f.accuracy[1] * e.accuracy[2]
        ELSE \/ e.last_solve_time = Never
             \/ f.last_solve_time = Never
             \/ e.last_solve_time < f.last_solve_time

\* The order of the board: what puts entry e before entry f.
Ahead(e, f) ==
  \/ e.points > f.points
  \/ /\ e.points = f.points
     /\ IF ByAccuracy
        THEN e.accuracy[1] * f.accuracy[2] > f.accuracy[1] * e.accuracy[2]
        ELSE /\ e.last_solve_time # Never
             /\ f.last_solve_time = Never \/ e.last_solve_time < f.last_solve_time

\* The entry of team t at this very moment.
Current(t) == Entry(submissions, unlocks, t, Members(t))
-----------------------------------------------------------------------------
BoardInit ==
  /\ now = 0
  /\ submissions = <<>>
  /\ unlocks = <<>>
  /\ team_of \in [Accounts -> Teams \cup {NoTeam}]
  /\ pc = "idle"
  /\ view = NoView
  /\ moved = FALSE

BoardGoto(from, to) == pc = from /\ pc' = to

\* A bracket or the whole board is asked for, and the teams are read.
ReadTeams(shown) ==
  /\ BoardGoto("idle", "members")
  /\ view' = [NoView EXCEPT !.shown = shown]
  /\ UNCHANGED <<tables, moved>>

\* map_team: the members of one team.
ReadMembers(t) ==
  /\ t \notin DOMAIN view.members
  /\ view' = [view EXCEPT !.members =
       [u \in DOMAIN view.members \cup {t} |-> IF u = t THEN Members(t) ELSE view.members[u]]]
  /\ BoardGoto("members", IF DOMAIN view'.members = Teams THEN "submissions" ELSE "members")
  /\ UNCHANGED <<tables, moved>>

M_ReadSubmissions ==
  /\ BoardGoto("submissions", "unlocks")
  /\ view' = [view EXCEPT !.subs = Len(submissions) + 1,
                         !.had = [t \in Teams |-> Current(t).points]]
  /\ UNCHANGED <<tables, moved>>

ReadSubmissions ==
  /\ BoardGoto("submissions", "unlocks")
  /\ view' = [view EXCEPT !.subs = Len(submissions),
                         !.had = [t \in Teams |-> Current(t).points]]
  /\ UNCHANGED <<tables, moved>>

M_ReadUnlocks ==
  /\ BoardGoto("unlocks", "served")
  /\ view' = [view EXCEPT !.board = [t \in view.shown |->
       Entry(submissions, unlocks, t, view.members[t])], !.members = <<>>, !.subs = 0]
  /\ UNCHANGED <<tables, moved>>

\* The unlocks, and the entries of the teams in the bracket from all that was read.
ReadUnlocks ==
  /\ BoardGoto("unlocks", "served")
  /\ view' = [view EXCEPT !.board = [t \in view.shown |->
       Entry(SubSeq(submissions, 1, view.subs), unlocks, t, view.members[t])],
                          !.members = <<>>, !.subs = 0]
  /\ UNCHANGED <<tables, moved>>

M_TaskStats(rows, t) ==
  {<<rows[k].challenge, rows[k].time>> :
     k \in {k \in DOMAIN rows : team_of[rows[k].account] = t /\ rows[k].correct}}

\* Tasks of team t, each with the time of one of its correct rows.
TaskStats(rows, t) ==
  {<<rows[k].challenge, rows[k].time>> :
     k \in {k \in DOMAIN rows : rows[k].team = t /\ rows[k].correct}}

\* The export takes the whole board and reads the submissions again, those
\* after the freeze included.
ReadStats ==
  /\ view.shown = Teams
  /\ BoardGoto("served", "exported")
  /\ view' = [view EXCEPT !.stats = [t \in view.shown |-> TaskStats(submissions, t)]]
  /\ UNCHANGED <<tables, moved>>

\* The answer is sent, or a failed read or a hang-up ends the request.
Finish ==
  /\ pc # "idle"
  /\ pc' = "idle"
  /\ view' = NoView
  /\ moved' = FALSE
  /\ UNCHANGED tables
-----------------------------------------------------------------------------
Stamps == {x \in 0..now : now <= x + Lateness}

\* A submission, or an unlock, is inserted.
Submit(a, c, f, at) ==
  /\ Len(submissions) < MaxSubmissions
  /\ submissions' = Append(submissions,
       [challenge |-> c, team |-> team_of[a], account |-> a, flag |-> f,
        correct |-> FirstMatch(c, f, NoFlag) # 0, time |-> at])
  /\ UNCHANGED <<now, unlocks, team_of, pc, view, moved>>

UnlockHint(t, at) ==
  /\ Len(unlocks) < MaxUnlocks
  /\ unlocks' = Append(unlocks, [team |-> t, cost |-> HintCost, time |-> at])
  /\ UNCHANGED <<now, submissions, team_of, pc, view, moved>>

\* An account joins a team; bound: once while a request runs.
SetTeam(a, t) ==
  /\ team_of[a] # t /\ ~moved
  /\ team_of' = [team_of EXCEPT ![a] = t]
  /\ moved' = (pc # "idle")
  /\ UNCHANGED <<now, submissions, unlocks, pc, view>>

BoardTick ==
  /\ now < MaxTime
  /\ now' = now + 1
  /\ UNCHANGED <<submissions, unlocks, team_of, pc, view, moved>>

BoardNext ==
  \/ \E shown \in Brackets \cup {Teams} : ReadTeams(shown)
  \/ \E t \in Teams : ReadMembers(t)
  \/ ReadSubmissions \/ ReadUnlocks \/ ReadStats \/ Finish
  \/ \E a \in Accounts, c \in Challenges, f \in Flags, at \in Stamps : Submit(a, c, f, at)
  \/ \E t \in Teams, at \in Stamps : UnlockHint(t, at)
  \/ \E a \in Accounts, t \in Teams : SetTeam(a, t)
  \/ BoardTick

BoardSpec == BoardInit /\ [][BoardNext]_board_vars
-----------------------------------------------------------------------------
BoardTypeOK ==
  /\ now \in 0..MaxTime
  /\ submissions \in Seq(Row)
  /\ unlocks \in Seq(Unlock)
  /\ team_of \in [Accounts -> Teams \cup {NoTeam}]
  /\ pc \in {"idle", "members", "submissions", "unlocks", "served", "exported"}
  /\ DOMAIN view = DOMAIN NoView
  /\ view.subs <= Len(submissions)
  /\ \A t \in DOMAIN view.board : view.board[t] \in ScoreboardEntry
  /\ moved \in BOOLEAN

\* The row a step inserts, if any.
Landed(old, new) == IF Len(new) > Len(old) THEN {new[Len(new)]} ELSE {}

\* types/config.rs:110 "scoreboard should stop moving": once freeze_time is
\* reached, the entries, which fix the order, change only when a row that was
\* stamped before lands late, or when a team's members change under consensus.
FrozenBoardMoves ==
  [][now >= Freeze /\ (\E t \in Teams : Current(t)' # Current(t)) =>
       \/ \E r \in Landed(submissions, submissions') \cup Landed(unlocks, unlocks') : r.time < Freeze
       \/ /\ \E t \in Teams : Members(t)' # Members(t)
          /\ \E c \in Challenges : Config[c].consensus]_tables

\* services/scoreboard.rs:211-254 reads the solves before the unlocks, so that a
\* board never shows a team more points than it had when the solves were read;
\* only a change of members in between can flatter it.
NeverFlattered ==
  ~moved => \A t \in DOMAIN view.board : view.board[t].points <= view.had[t]

\* services/scoreboard.rs:48-162, services/solve.rs:26-35: a row never lowers what
\* its own team has earned, however the challenge decays, and never raises what
\* another has.
EarnedBySolving ==
  [][\A r \in Landed(submissions, submissions'), t \in Teams :
       LET before == SolvePoints(submissions, t, Members(t))
           after == SolvePoints(submissions', t, Members(t))
       IN  IF t = r.team THEN after >= before ELSE after <= before]_submissions

\* services/scoreboard.rs:256-288 sorts by a comparison of its own: it orders the
\* entries of every board a request can compute, without contradiction.
BoardSortable ==
  LET ahead(t, u) == Ahead(view.board[t], view.board[u])
      shown == DOMAIN view.board
  IN  /\ \A t, u \in shown : ~(ahead(t, u) /\ ahead(u, t))
      /\ \A t, u, v \in shown : ahead(t, v) => ahead(t, u) \/ ahead(u, v)

\* services/scoreboard.rs:295-326: the export reads the rows again after the
\* standings, so every task a team is ranked for is among its task statistics,
\* unless its challenge is deleted with its solves in between.
ExportCovers ==
  \A t \in DOMAIN view.stats : \A c \in view.board[t].solves : \E x \in view.stats[t] : x[1] = c

\* README.md:35 "Freeze support + CTFtime scoreboard export": the task statistics
\* of an export say nothing of what happened after the freeze.
ExportFrozen ==
  \A t \in DOMAIN view.stats : \A x \in view.stats[t] : x[2] < Freeze
=============================================================================
