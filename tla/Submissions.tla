----------------------------- MODULE Submissions -----------------------------
(***************************************************************************)
(* The submissions table and the challenge settings the scoring code reads. *)
(* A submission keeps what the rules tell apart: who made it, for which     *)
(* challenge, the flag (modulo the trim() every reader applies), whether it *)
(* was correct, and the solve count its points were computed from.          *)
(* The table is a sequence in insertion order; a row's index stands for its *)
(* uuid.                                                                    *)
(***************************************************************************)
EXTENDS Naturals, Sequences, FiniteSets

CONSTANTS
  Accounts,    \* registered accounts
  Teams,       \* teams
  Challenges,  \* challenges that exist
  Flags,       \* flag texts, modulo surrounding blanks
  NoTeam,      \* team_id = None
  NoFlag,      \* no live instance flag
  NoLimit,     \* max_attempts = None
  Config       \* the challenges' settings

AttemptCountMode == {"All", "Unique", "IncorrectOnly", "UniqueIncorrect"}

\* A live validator is FlagValidator::Instanced; Static, Regex and Script ones
\* are the set of flags they accept.
FlagValidator == [live : BOOLEAN, accepts : SUBSET Flags]

\* A Multi flag has several parts; any other flag is its only part.
Challenge ==
  [visible : BOOLEAN, multi : BOOLEAN, parts : Seq(FlagValidator),
   consensus : BOOLEAN, limit : Nat \cup {NoLimit}, mode : AttemptCountMode,
   requires : SUBSET Challenges]

Submission ==
  [challenge : Challenges, team : Teams \cup {NoTeam}, account : Accounts,
   flag : Flags, correct : BOOLEAN, count : Nat]

ASSUME SubmissionsAssumption ==
  /\ NoTeam \notin Teams
  /\ NoFlag \notin Flags
  /\ NoLimit \notin Nat
  /\ Config \in [Challenges -> Challenge]
-----------------------------------------------------------------------------
\* FlagValidator::is_match for one validator, given the live instance flag.
Accepts(v, flag, active) ==
  IF v.live THEN flag = active ELSE flag \in v.accepts

\* The parts of challenge c that accept the flag.
MatchingParts(c, flag, active) ==
  {i \in DOMAIN Config[c].parts : Accepts(Config[c].parts[i], flag, active)}

\* find_matching_partial: the first part that accepts the flag, 0 for none.
FirstMatch(c, flag, active) ==
  LET matching == MatchingParts(c, flag, active)
  IN  IF matching = {} THEN 0
      ELSE CHOOSE i \in matching : \A j \in matching : i <= j
-----------------------------------------------------------------------------
\* The rows a submitter is held to: their team's, or with no team their own
\* account's, whatever team the account was in when it made them.
Owns(s, team, account) ==
  IF team = NoTeam THEN s.account = account ELSE s.team = team

Prior(subs, c, team, account) ==
  {i \in DOMAIN subs : subs[i].challenge = c /\ Owns(subs[i], team, account)}

CorrectIn(subs, rows) == {i \in rows : subs[i].correct}

IncorrectIn(subs, rows) == {i \in rows : ~subs[i].correct}

FlagsIn(subs, rows) == {subs[i].flag : i \in rows}

\* How many attempts the rows amount to under a counting mode.
Attempts(mode, subs, rows) ==
  CASE mode = "All"             -> Cardinality(rows)
    [] mode = "IncorrectOnly"   -> Cardinality(IncorrectIn(subs, rows))
    [] mode = "Unique"          -> Cardinality(FlagsIn(subs, rows))
    [] mode = "UniqueIncorrect" ->
         Cardinality(FlagsIn(subs, IncorrectIn(subs, rows)))

\* Every required challenge has a correct row of the submitter.
RequirementsMet(subs, c, team, account) ==
  \A q \in Config[c].requires :
    CorrectIn(subs, Prior(subs, q, team, account)) # {}

\* The correct rows of challenge c.
Solves(subs, c) == {i \in DOMAIN subs : subs[i].challenge = c /\ subs[i].correct}

\* Who a row is credited to: the team, or the account when it has none.
Solver(s) == IF s.team = NoTeam THEN s.account ELSE s.team

M_Solvers(subs, c) == {subs[i].team : i \in Solves(subs, c)} \ {NoTeam}

M_SolversByAccount(subs, c) == {subs[i].account : i \in Solves(subs, c)}

Solvers(subs, c) == {Solver(subs[i]) : i \in Solves(subs, c)}

TeamsIn(subs, rows) == {subs[i].team : i \in rows} \ {NoTeam}

AccountsIn(subs, rows) == {subs[i].account : i \in rows}
-----------------------------------------------------------------------------
\* The rows (and requests) of one submitter on challenge c: team t's, or with
\* no team account a's.
Mine(s, c, t, a) == s.challenge = c /\ s.team = t /\ (t = NoTeam => s.account = a)

RowsOf(subs, c, t, a) == {i \in DOMAIN subs : Mine(subs[i], c, t, a)}

\* The rows that earn the same credit: one per submitter, per account under
\* team consensus, per part p of a Multi flag.
SameCredit(s, c, t, a, p) ==
  /\ Mine(s, c, t, a)
  /\ s.correct
  /\ Config[c].consensus /\ ~Config[c].multi => s.account = a
  /\ Config[c].multi => FirstMatch(c, s.flag, NoFlag) = p

CreditRows(subs, c, t, a, p) == {i \in DOMAIN subs : SameCredit(subs[i], c, t, a, p)}

\* Challenges whose credits do not depend on an instance flag that changes.
Stable(c) == Config[c].multi => \A i \in DOMAIN Config[c].parts : ~Config[c].parts[i].live
=============================================================================
