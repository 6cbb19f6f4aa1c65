-------------------------- MODULE SubmitFlag_proofs --------------------------
(***************************************************************************)
(* Proofs about concurrent flag submission, for any number of handlers,     *)
(* accounts, teams, challenges and any configuration: first what the        *)
(* operators of Submissions return and preserve, then the invariants.       *)
(***************************************************************************)
EXTENDS SubmitFlag, FiniteSetTheorems, TLAPS

\* A nonempty set of naturals has a least element (the order of the parts that
\* find_matching_partial walks). The initial segments are ordered by inclusion,
\* which is well-founded on finite sets.
LEMMA LeastElement ==
  ASSUME NEW T \in SUBSET Nat, T # {}
  PROVE  \E x \in T : \A y \in T : x <= y
<1> DEFINE Segments == {1..k : k \in T}
<1>1. Segments \subseteq FiniteSubsetsOf(Nat)
  BY FS_Interval DEF FiniteSubsetsOf
<1>2. PICK I \in Segments :
        \A J \in Segments : ~ (<<J, I>> \in StrictSubsetOrdering(Nat))
  <2>1. Segments # {}
    OBVIOUS
  <2> HIDE DEF Segments
  <2> QED
    BY <1>1, <2>1, FS_StrictSubsetOrderingWellFounded, WFMin, Zenon
<1>3. PICK x \in T : I = 1..x
  OBVIOUS
<1>4. ASSUME NEW y \in T, y < x
      PROVE  FALSE
  <2>1. 1..y \subseteq 1..x /\ x \in 1..x /\ x \notin 1..y
    BY <1>4
  <2>2. <<1..y, 1..x>> \in StrictSubsetOrdering(Nat)
    BY <2>1 DEF StrictSubsetOrdering
  <2>3. 1..y \in Segments
    OBVIOUS
  <2> QED
    BY <2>2, <2>3, <1>2, <1>3
<1> QED
  BY <1>4

\* FlagValidator::find_matching_partial returns a part that accepts the flag.
LEMMA FirstMatchAccepts ==
  ASSUME NEW c \in Challenges, NEW flag, NEW active
  PROVE  /\ FirstMatch(c, flag, active) \in {0} \cup DOMAIN Config[c].parts
         /\ FirstMatch(c, flag, active) \in Nat
         /\ FirstMatch(c, flag, active) # 0 =>
              Accepts(Config[c].parts[FirstMatch(c, flag, active)], flag, active)
<1> DEFINE matching == MatchingParts(c, flag, active)
<1>1. /\ matching \subseteq DOMAIN Config[c].parts
      /\ DOMAIN Config[c].parts \subseteq Nat
      /\ \A i \in matching : Accepts(Config[c].parts[i], flag, active)
  BY SubmissionsAssumption DEF Challenge, MatchingParts
<1>2. CASE matching = {}
  BY <1>2 DEF FirstMatch
<1>3. CASE matching # {}
  <2>1. \E i \in matching : \A j \in matching : i <= j
    <3> HIDE DEF matching
    <3> QED
      BY <1>1, <1>3, LeastElement
  <2>2. FirstMatch(c, flag, active) \in matching
    BY <1>3, <2>1 DEF FirstMatch
  <2> QED
    BY <1>1, <2>2
<1> QED
  BY <1>2, <1>3

\* Without an instanced part, which part accepts a flag does not depend on the
\* instance flag read.
LEMMA FirstMatchStable ==
  ASSUME NEW c \in Challenges, NEW flag, NEW x, NEW y,
         \A i \in DOMAIN Config[c].parts : ~Config[c].parts[i].live
  PROVE  FirstMatch(c, flag, x) = FirstMatch(c, flag, y)
<1>1. MatchingParts(c, flag, x) = MatchingParts(c, flag, y)
  BY DEF MatchingParts, Accepts
<1> QED
  BY <1>1 DEF FirstMatch
-----------------------------------------------------------------------------
\* The image of a finite set of rows is finite, and no larger.
LEMMA FiniteRows ==
  ASSUME NEW subs \in Seq(Submission), NEW rows, rows \subseteq DOMAIN subs
  PROVE  /\ IsFiniteSet(rows)
         /\ IsFiniteSet(FlagsIn(subs, rows))
         /\ IsFiniteSet(AccountsIn(subs, rows))
<1>1. IsFiniteSet(rows)
  <2>1. DOMAIN subs = 1..Len(subs) /\ Len(subs) \in Nat
    OBVIOUS
  <2>2. IsFiniteSet(DOMAIN subs)
    BY <2>1, FS_Interval
  <2> QED
    BY <2>2, FS_Subset
<1>2. IsFiniteSet(FlagsIn(subs, rows))
  <2> DEFINE f == [i \in rows |-> subs[i].flag]
  <2>1. f \in Surjection(rows, FlagsIn(subs, rows))
    BY DEF Surjection, FlagsIn
  <2> QED
    BY <1>1, <2>1, FS_Surjection
<1>3. IsFiniteSet(AccountsIn(subs, rows))
  <2> DEFINE f == [i \in rows |-> subs[i].account]
  <2>1. f \in Surjection(rows, AccountsIn(subs, rows))
    BY DEF Surjection, AccountsIn
  <2> QED
    BY <1>1, <2>1, FS_Surjection
<1> QED
  BY <1>1, <1>2, <1>3

\* services/solve.rs:80-94: the attempt count of a set of rows is a natural
\* number in every mode, and grows with the set.
LEMMA AttemptsMonotone ==
  ASSUME NEW subs \in Seq(Submission), NEW mode \in AttemptCountMode,
         NEW small, NEW rows, small \subseteq rows, rows \subseteq DOMAIN subs
  PROVE  /\ Attempts(mode, subs, rows) \in Nat
         /\ Attempts(mode, subs, small) \in Nat
         /\ Attempts(mode, subs, small) <= Attempts(mode, subs, rows)
<1> DEFINE wrong(R) == IncorrectIn(subs, R)
<1>1. /\ wrong(small) \subseteq wrong(rows)
      /\ wrong(rows) \subseteq DOMAIN subs
      /\ FlagsIn(subs, small) \subseteq FlagsIn(subs, rows)
      /\ FlagsIn(subs, wrong(small)) \subseteq FlagsIn(subs, wrong(rows))
  BY DEF IncorrectIn, FlagsIn
<1>2. /\ IsFiniteSet(rows) /\ IsFiniteSet(wrong(rows))
      /\ IsFiniteSet(FlagsIn(subs, rows)) /\ IsFiniteSet(FlagsIn(subs, wrong(rows)))
  BY <1>1, FiniteRows
<1>3. /\ Cardinality(small) \in Nat /\ Cardinality(rows) \in Nat
      /\ Cardinality(small) <= Cardinality(rows)
  BY <1>2, FS_Subset, FS_CardinalityType
<1>4. /\ Cardinality(wrong(small)) \in Nat /\ Cardinality(wrong(rows)) \in Nat
      /\ Cardinality(wrong(small)) <= Cardinality(wrong(rows))
  BY <1>1, <1>2, FS_Subset, FS_CardinalityType
<1>5. /\ Cardinality(FlagsIn(subs, small)) \in Nat
      /\ Cardinality(FlagsIn(subs, rows)) \in Nat
      /\ Cardinality(FlagsIn(subs, small)) <= Cardinality(FlagsIn(subs, rows))
  BY <1>1, <1>2, FS_Subset, FS_CardinalityType
<1>6. /\ Cardinality(FlagsIn(subs, wrong(small))) \in Nat
      /\ Cardinality(FlagsIn(subs, wrong(rows))) \in Nat
      /\ Cardinality(FlagsIn(subs, wrong(small))) <= Cardinality(FlagsIn(subs, wrong(rows)))
  BY <1>1, <1>2, FS_Subset, FS_CardinalityType
<1> QED
  BY <1>3, <1>4, <1>5, <1>6 DEF Attempts, AttemptCountMode
-----------------------------------------------------------------------------
\* Every row of the table is a submission.
LEMMA RowTyped ==
  ASSUME NEW subs \in Seq(Submission), NEW i \in DOMAIN subs
  PROVE  subs[i] \in Submission
OBVIOUS

\* services/solve.rs:279 appends one row and leaves the others as they were.
LEMMA AppendRow ==
  ASSUME NEW subs \in Seq(Submission), NEW s \in Submission
  PROVE  /\ Append(subs, s) \in Seq(Submission)
         /\ Len(Append(subs, s)) = Len(subs) + 1
         /\ DOMAIN Append(subs, s) = DOMAIN subs \cup {Len(subs) + 1}
         /\ DOMAIN subs \subseteq Nat
         /\ Len(subs) + 1 \notin DOMAIN subs
         /\ \A i \in DOMAIN subs : Append(subs, s)[i] = subs[i]
         /\ Append(subs, s)[Len(subs) + 1] = s
OBVIOUS

\* The new row joins the rows of its own submitter and challenge only.
LEMMA RowsOfAppend ==
  ASSUME NEW subs \in Seq(Submission), NEW s \in Submission, NEW c, NEW t, NEW a
  PROVE  RowsOf(Append(subs, s), c, t, a) =
           RowsOf(subs, c, t, a) \cup {i \in {Len(subs) + 1} : Mine(s, c, t, a)}
BY AppendRow DEF RowsOf

\* The same of the rows that earn one credit.
LEMMA CreditRowsAppend ==
  ASSUME NEW subs \in Seq(Submission), NEW s \in Submission,
         NEW c, NEW t, NEW a, NEW p
  PROVE  CreditRows(Append(subs, s), c, t, a, p) =
           CreditRows(subs, c, t, a, p)
             \cup {i \in {Len(subs) + 1} : SameCredit(s, c, t, a, p)}
BY AppendRow DEF CreditRows

\* services/solve.rs:80-94: rows read before the append count the same after.
LEMMA AttemptsUnchanged ==
  ASSUME NEW subs \in Seq(Submission), NEW s \in Submission, NEW mode,
         NEW rows, rows \subseteq DOMAIN subs
  PROVE  Attempts(mode, Append(subs, s), rows) = Attempts(mode, subs, rows)
<1>1. /\ IncorrectIn(Append(subs, s), rows) = IncorrectIn(subs, rows)
      /\ FlagsIn(Append(subs, s), rows) = FlagsIn(subs, rows)
      /\ FlagsIn(Append(subs, s), IncorrectIn(subs, rows)) =
           FlagsIn(subs, IncorrectIn(subs, rows))
  BY AppendRow DEF IncorrectIn, FlagsIn
<1> QED
  BY <1>1 DEF Attempts

\* One more element makes a finite set larger by at most one.
LEMMA OneMore ==
  ASSUME NEW S, IsFiniteSet(S), NEW x, NEW T, T \subseteq S \cup {x}
  PROVE  IsFiniteSet(T) /\ Cardinality(T) <= Cardinality(S) + 1
<1>1. /\ IsFiniteSet(S \cup {x})
      /\ Cardinality(S \cup {x}) \in Nat /\ Cardinality(S) \in Nat
      /\ Cardinality(S \cup {x}) <= Cardinality(S) + 1
  BY FS_AddElement, FS_CardinalityType
<1>2. IsFiniteSet(T) /\ Cardinality(T) \in Nat /\ Cardinality(T) <= Cardinality(S \cup {x})
  BY <1>1, FS_Subset, FS_CardinalityType
<1> QED
  BY <1>1, <1>2

\* services/solve.rs:80-94: in every mode a new row is at most one attempt.
LEMMA AttemptsGrow ==
  ASSUME NEW subs \in Seq(Submission), NEW s \in Submission,
         NEW mode \in AttemptCountMode, NEW rows, rows \subseteq DOMAIN subs
  PROVE  Attempts(mode, Append(subs, s), rows \cup {Len(subs) + 1})
           <= Attempts(mode, subs, rows) + 1
<1> DEFINE more     == Append(subs, s)
           all      == rows \cup {Len(subs) + 1}
           wrong    == IncorrectIn(subs, rows)
           wrongAll == IncorrectIn(more, all)
<1>1. /\ wrongAll \subseteq wrong \cup {Len(subs) + 1}
      /\ FlagsIn(more, all) \subseteq FlagsIn(subs, rows) \cup {s.flag}
      /\ FlagsIn(more, wrongAll) \subseteq FlagsIn(subs, wrong) \cup {s.flag}
  BY AppendRow DEF IncorrectIn, FlagsIn
<1>2. /\ IsFiniteSet(rows) /\ IsFiniteSet(wrong)
      /\ IsFiniteSet(FlagsIn(subs, rows)) /\ IsFiniteSet(FlagsIn(subs, wrong))
  <2>1. wrong \subseteq DOMAIN subs
    BY DEF IncorrectIn
  <2> QED
    BY <2>1, FiniteRows
<1>3. /\ Cardinality(all) <= Cardinality(rows) + 1
      /\ Cardinality(wrongAll) <= Cardinality(wrong) + 1
      /\ Cardinality(FlagsIn(more, all)) <= Cardinality(FlagsIn(subs, rows)) + 1
      /\ Cardinality(FlagsIn(more, wrongAll)) <= Cardinality(FlagsIn(subs, wrong)) + 1
  <2> HIDE DEF more, all, wrong, wrongAll
  <2>1. all \subseteq rows \cup {Len(subs) + 1}
    BY DEF all
  <2> QED
    BY <1>1, <1>2, <2>1, OneMore
<1> QED
  BY <1>3 DEF Attempts, AttemptCountMode

\* services/solve.rs:101-120: requirements once met stay met, whatever is
\* appended to the table.
LEMMA RequirementsStayMet ==
  ASSUME NEW subs \in Seq(Submission), NEW s \in Submission, NEW c, NEW t, NEW a,
         RequirementsMet(subs, c, t, a)
  PROVE  RequirementsMet(Append(subs, s), c, t, a)
<1>1. \A q : CorrectIn(subs, Prior(subs, q, t, a)) \subseteq
             CorrectIn(Append(subs, s), Prior(Append(subs, s), q, t, a))
  BY AppendRow DEF CorrectIn, Prior, Owns
<1> QED
  BY <1>1 DEF RequirementsMet

\* The table as it was before each of its rows is not changed by an append.
LEMMA BeforeAppend ==
  ASSUME NEW subs \in Seq(Submission), NEW s \in Submission
  PROVE  /\ \A i \in DOMAIN subs :
              SubSeq(Append(subs, s), 1, i - 1) = SubSeq(subs, 1, i - 1)
         /\ SubSeq(Append(subs, s), 1, Len(subs)) = subs
<1>1. ASSUME NEW i \in DOMAIN subs
      PROVE  SubSeq(Append(subs, s), 1, i - 1) = SubSeq(subs, 1, i - 1)
  OBVIOUS
<1>2. SubSeq(Append(subs, s), 1, Len(subs)) = subs
  OBVIOUS
<1> QED
  BY <1>1, <1>2
-----------------------------------------------------------------------------
\* A set with at most one element that has x has nothing else.
LEMMA OnlyOne ==
  ASSUME NEW S, IsFiniteSet(S), Cardinality(S) <= 1, NEW x \in S
  PROVE  S = {x}
<1>1. IsFiniteSet(S \ {x}) /\ Cardinality(S \ {x}) = Cardinality(S) - 1
  BY FS_RemoveElement
<1>2. Cardinality(S) \in Nat /\ Cardinality(S \ {x}) \in Nat
  BY <1>1, FS_CardinalityType
<1>3. Cardinality(S \ {x}) = 0
  BY <1>1, <1>2
<1>4. S \ {x} = {}
  BY <1>1, <1>3, FS_EmptySet
<1> QED
  BY <1>4

\* The solves of a challenge: where they are, and what an append adds to them.
LEMMA SolvesAppend ==
  ASSUME NEW subs \in Seq(Submission), NEW s \in Submission, NEW c
  PROVE  /\ Solves(subs, c) \subseteq DOMAIN subs
         /\ Solves(Append(subs, s), c) =
              Solves(subs, c) \cup {i \in {Len(subs) + 1} : s.challenge = c /\ s.correct}
         /\ \A i \in Solves(subs, c) : i \in Nat /\ i < Len(subs) + 1
BY AppendRow DEF Solves

\* The teams and the solvers of a set of rows are finitely many.
LEMMA FiniteSolvers ==
  ASSUME NEW subs \in Seq(Submission), NEW rows, rows \subseteq DOMAIN subs, NEW c
  PROVE  /\ IsFiniteSet(TeamsIn(subs, rows))
         /\ IsFiniteSet(Solvers(subs, c))
<1>1. IsFiniteSet(rows) /\ IsFiniteSet(Solves(subs, c))
  BY FiniteRows DEF Solves
<1>2. IsFiniteSet(TeamsIn(subs, rows))
  <2> DEFINE all == {subs[i].team : i \in rows}
             f   == [i \in rows |-> subs[i].team]
  <2>1. f \in Surjection(rows, all)
    BY DEF Surjection
  <2>2. IsFiniteSet(all)
    BY <1>1, <2>1, FS_Surjection
  <2> QED
    BY <2>2, FS_Subset DEF TeamsIn
<1>3. IsFiniteSet(Solvers(subs, c))
  <2> DEFINE f == [i \in Solves(subs, c) |-> Solver(subs[i])]
  <2>1. f \in Surjection(Solves(subs, c), Solvers(subs, c))
    BY DEF Surjection, Solvers
  <2> QED
    BY <1>1, <2>1, FS_Surjection
<1> QED
  BY <1>2, <1>3
-----------------------------------------------------------------------------
\* Every count a handler keeps is a number, every team it has still to look up
\* is one: the state stays well typed whatever is interleaved.
LEMMA TypeInit == Init => TypeOK
BY DEF Init, TypeOK, Steps

LEMMA TypeStep == TypeOK /\ [Next]_vars => TypeOK'
<1> SUFFICES ASSUME TypeOK, [Next]_vars
             PROVE  TypeOK'
  OBVIOUS
<1> USE DEF TypeOK, Steps
<1>0. \A i \in DOMAIN submissions :
        submissions[i].team \in Teams \cup {NoTeam} /\ submissions[i].account \in Accounts
  <2>1. \A i \in DOMAIN submissions : submissions[i] \in Submission
    BY RowTyped
  <2> QED
    BY <2>1 DEF Submission
<1>1. ASSUME NEW h \in Handlers, NEW a \in Accounts, NEW c \in Challenges,
             NEW f \in Flags, Receive(h, a, c, f)
      PROVE  TypeOK'
  <2>1. [account |-> a, team |-> team_of[a], challenge |-> c, flag |-> f,
         active |-> NoFlag, part |-> 0, correct |-> FALSE, existing |-> {},
         solved_by |-> {}, count |-> 0] \in Request
    BY DEF Request
  <2> QED
    BY <1>1, <2>1 DEF Receive, Goto
<1>2. ASSUME NEW h \in Handlers,
             CheckVisibility(h) \/ CheckAttempts(h) \/ CheckRequirements(h)
               \/ CountedTeams(h)
      PROVE  TypeOK'
  BY <1>2 DEF CheckVisibility, CheckAttempts, CheckRequirements, CountedTeams, Goto
<1>3. ASSUME NEW h \in Handlers, MatchFlag(h)
      PROVE  TypeOK'
  <2>1. req[h] \in Request
    BY <1>3 DEF MatchFlag, Goto
  <2>2. PICK active \in ActiveFlags(req[h]) :
          LET part == FirstMatch(req[h].challenge, req[h].flag, active)
          IN  req' = [req EXCEPT ![h].active = active, ![h].part = part,
                                 ![h].correct = (part # 0)]
    BY <1>3 DEF MatchFlag
  <2>3. active \in Flags \cup {NoFlag}
    BY SubmitFlagAssumption DEF ActiveFlags, Instance
  <2>4. FirstMatch(req[h].challenge, req[h].flag, active) \in Nat
    BY <2>1, FirstMatchAccepts DEF Request
  <2> DEFINE part == FirstMatch(req[h].challenge, req[h].flag, active)
  <2>6. req' = [req EXCEPT ![h].active = active, ![h].part = part, ![h].correct = (part # 0)]
    BY <2>2
  <2>7. part \in Nat
    BY <2>4
  <2> HIDE DEF part
  <2>8. req'[h] = [req[h] EXCEPT !.active = active, !.part = part, !.correct = (part # 0)]
    BY <2>6
  <2>9. (part # 0) \in BOOLEAN
    OBVIOUS
  <2>5. req'[h] \in Request
    BY <2>1, <2>3, <2>7, <2>8, <2>9 DEF Request
  <2> QED
    BY <1>3, <2>5, <2>6 DEF MatchFlag, Goto
<1>4. ASSUME NEW h \in Handlers, CheckSolved(h)
      PROVE  TypeOK'
  <2>1. req[h] \in Request
    BY <1>4 DEF CheckSolved, Goto
  <2>2. AccountsIn(submissions, CreditedOf(req[h])) \in SUBSET Accounts
    BY <1>0 DEF AccountsIn, CreditedOf, CorrectIn, PriorOf, Prior
  <2>3. req'[h] \in Request
    BY <1>4, <2>1, <2>2 DEF CheckSolved, Request
  <2> QED
    BY <1>4, <2>3 DEF CheckSolved, Goto
<1>5. ASSUME NEW h \in Handlers, CountTeams(h)
      PROVE  TypeOK'
  <2>1. req[h] \in Request
    BY <1>5 DEF CountTeams, Goto
  <2>2. {<<submissions[i].team, submissions[i].account>> :
           i \in {j \in Solves(submissions, req[h].challenge) : submissions[j].team # NoTeam}}
          \in SUBSET (Teams \X Accounts)
    BY <1>0 DEF Solves
  <2>3. req'[h] \in Request
    BY <1>5, <2>1, <2>2 DEF CountTeams, Request
  <2> QED
    BY <1>5, <2>3 DEF CountTeams, Goto
<1>6. ASSUME NEW h \in Handlers, CountAccounts(h)
      PROVE  TypeOK'
  <2>1. req[h] \in Request
    BY <1>6 DEF CountAccounts, Goto
  <2>2. Cardinality(AccountsIn(submissions, Solves(submissions, req[h].challenge))) \in Nat
    <3>1. Solves(submissions, req[h].challenge) \subseteq DOMAIN submissions
      BY DEF Solves
    <3> QED
      BY <3>1, FiniteRows, FS_CardinalityType
  <2> DEFINE others == Cardinality(AccountsIn(submissions, Solves(submissions, req[h].challenge)))
  <2>4. req' = [req EXCEPT ![h].count = others + 1] /\ h \in DOMAIN req
    BY <1>6 DEF CountAccounts
  <2>5. others + 1 \in Nat
    BY <2>2
  <2> HIDE DEF others
  <2>6. req'[h] = [req[h] EXCEPT !.count = others + 1]
    BY <2>4
  <2>3. req'[h] \in Request
    BY <2>1, <2>5, <2>6 DEF Request
  <2> QED
    BY <1>6, <2>3 DEF CountAccounts, Goto
<1>7. ASSUME NEW h \in Handlers, NEW t \in Teams, CountTeam(h, t)
      PROVE  TypeOK'
  <2>1. req[h] \in Request
    BY <1>7 DEF CountTeam, Goto
  <2>2. PICK counted \in BOOLEAN :
          req' = [req EXCEPT ![h].solved_by = {p \in @ : p[1] # t},
                             ![h].count = IF counted THEN @ + 1 ELSE @]
    BY <1>7 DEF CountTeam
  <2> DEFINE left == {p \in req[h].solved_by : p[1] # t}
             n    == IF counted THEN req[h].count + 1 ELSE req[h].count
  <2>3. left \in SUBSET (Teams \X Accounts) /\ n \in Nat
    BY <2>1 DEF Request
  <2>4. req' = [req EXCEPT ![h] = [req[h] EXCEPT !.solved_by = left, !.count = n]]
    BY <2>1, <2>2
  <2> HIDE DEF left, n
  <2>5. [req[h] EXCEPT !.solved_by = left, !.count = n] \in Request
    BY <2>1, <2>3 DEF Request
  <2> QED
    BY <1>7, <2>4, <2>5 DEF CountTeam, Goto
<1>8. ASSUME NEW h \in Handlers, ReachConsensus(h)
      PROVE  TypeOK'
  <2>1. req[h] \in Request
    BY <1>8 DEF ReachConsensus, Goto
  <2>2. \E reached \in BOOLEAN :
          req' = [req EXCEPT ![h].count = IF reached THEN @ + 1 ELSE @]
    BY <1>8 DEF ReachConsensus
  <2> QED
    BY <1>8, <2>1, <2>2 DEF ReachConsensus, Goto, Request
<1>9. ASSUME NEW h \in Handlers, Save(h)
      PROVE  TypeOK'
  <2>1. req[h] \in Request
    BY <1>9 DEF Save
  <2>2. Row(req[h]) \in Submission
    BY <2>1 DEF Row, Request, Submission
  <2>3. submissions' \in Seq(Submission)
    BY <1>9, <2>2 DEF Save
  <2> QED
    BY <1>9, <2>1, <2>3 DEF Save, Finish
<1>10. ASSUME NEW h \in Handlers, Announce(h)
       PROVE  TypeOK'
  <2>1. req[h] \in Request
    BY <1>10 DEF Announce
  <2>2. Solver(Row(req[h])) \in Teams \cup Accounts
    BY <2>1 DEF Solver, Row, Request
  <2>3. announced' \in SUBSET Announcement
    BY <1>10, <2>1, <2>2 DEF Announce, AnnounceTo, Announcement, Request
  <2> QED
    BY <1>10, <2>3 DEF Announce, Finish
<1>11. ASSUME NEW h \in Handlers, Refuse(h) \/ Abandon(h)
       PROVE  TypeOK'
  BY <1>11 DEF Refuse, Abandon, Finish
<1>12. ASSUME NEW a \in Accounts, NEW t \in Teams \cup {NoTeam}, SetTeam(a, t)
       PROVE  TypeOK'
  BY <1>12 DEF SetTeam
<1>13. ASSUME NEW a \in Accounts, NEW c \in Challenges, NEW f \in InstanceFlags,
              SpawnInstance(a, c, f)
       PROVE  TypeOK'
  BY <1>13 DEF SpawnInstance, Instance
<1>14. ASSUME NEW f \in InstanceFlags, ExpireInstance(f)
       PROVE  TypeOK'
  BY <1>14 DEF ExpireInstance
<1>15. CASE UNCHANGED vars
  BY <1>15 DEF vars
<1> QED
  BY <1>1, <1>2, <1>3, <1>4, <1>5, <1>6, <1>7, <1>8, <1>9, <1>10, <1>11, <1>12,
     <1>13, <1>14, <1>15 DEF Next, Progress, Environment

\* services/solve.rs and api/solve.rs never put a value outside its type into
\* the table, a handler's locals or a broadcast.
THEOREM TypeCorrect == Spec => []TypeOK
BY TypeInit, TypeStep, PTL DEF Spec
-----------------------------------------------------------------------------
\* A request keeps what it is about, and what match decided, from match on.
Kept(r, s) ==
  /\ s.account = r.account /\ s.team = r.team /\ s.challenge = r.challenge
  /\ s.flag = r.flag /\ s.active = r.active /\ s.part = r.part /\ s.correct = r.correct

Counting == {"count", "teams", "consensus", "save"}

\* What a step does to a handler it leaves running: it starts, takes one of the
\* checks, goes on counting, saves, or is not the handler that moved.
Moved(h) ==
  \/ pc[h] = "idle" /\ pc'[h] = "visibility"
  \/ CheckVisibility(h)
  \/ CheckAttempts(h)
  \/ CheckRequirements(h)
  \/ MatchFlag(h)
  \/ CheckSolved(h)
  \/ pc[h] \in Counting /\ pc'[h] \in Counting /\ Kept(req[h], req'[h])
  \/ Save(h)
  \/ pc'[h] = pc[h] /\ req'[h] = req[h]

LEMMA Moves ==
  ASSUME TypeOK, [Next]_vars, NEW h \in Handlers, pc'[h] # "idle"
  PROVE  Moved(h)
<1> USE DEF Moved, Goto, TypeOK
<1>1. ASSUME NEW g \in Handlers, NEW a \in Accounts, NEW c \in Challenges,
             NEW f \in Flags, Receive(g, a, c, f)
      PROVE  Moved(h)
  BY <1>1 DEF Receive
<1>2. ASSUME NEW g \in Handlers,
             CheckVisibility(g) \/ CheckAttempts(g) \/ CheckRequirements(g)
      PROVE  Moved(h)
  BY <1>2 DEF CheckVisibility, CheckAttempts, CheckRequirements
<1>3. ASSUME NEW g \in Handlers, MatchFlag(g)
      PROVE  Moved(h)
  BY <1>3 DEF MatchFlag
<1>4. ASSUME NEW g \in Handlers, CheckSolved(g)
      PROVE  Moved(h)
  BY <1>4 DEF CheckSolved
<1>5. ASSUME NEW g \in Handlers, CountTeams(g) \/ CountAccounts(g)
      PROVE  Moved(h)
  BY <1>5 DEF CountTeams, CountAccounts, Counting, Kept, Request
<1>6. ASSUME NEW g \in Handlers, NEW t \in Teams, CountTeam(g, t)
      PROVE  Moved(h)
  BY <1>6 DEF CountTeam, Counting, Kept, Request
<1>7. ASSUME NEW g \in Handlers, CountedTeams(g) \/ ReachConsensus(g)
      PROVE  Moved(h)
  BY <1>7 DEF CountedTeams, ReachConsensus, Counting, Kept, Request
<1>8. ASSUME NEW g \in Handlers, Save(g)
      PROVE  Moved(h)
  BY <1>8 DEF Save, Finish
<1>9. ASSUME NEW g \in Handlers, Announce(g) \/ Refuse(g) \/ Abandon(g)
      PROVE  Moved(h)
  BY <1>9 DEF Announce, Refuse, Abandon, Finish
<1>10. ASSUME Environment \/ UNCHANGED vars
       PROVE  Moved(h)
  BY <1>10 DEF Environment, SetTeam, SpawnInstance, ExpireInstance, vars
<1> QED
  BY <1>1, <1>2, <1>3, <1>4, <1>5, <1>6, <1>7, <1>8, <1>9, <1>10 DEF Next, Progress

\* Who a running request is for, and its flag, never change.
LEMMA SubjectKept ==
  ASSUME TypeOK, [Next]_vars, NEW h \in Handlers, pc'[h] # "idle", pc[h] # "idle"
  PROVE  /\ req'[h].account = req[h].account
         /\ req'[h].team = req[h].team
         /\ req'[h].challenge = req[h].challenge
         /\ req'[h].flag = req[h].flag
<1>1. req[h] \in Request /\ Moved(h)
  BY Moves DEF TypeOK
<1>2. CASE CheckVisibility(h) \/ CheckAttempts(h) \/ CheckRequirements(h)
  BY <1>2 DEF CheckVisibility, CheckAttempts, CheckRequirements
<1>3. CASE MatchFlag(h)
  BY <1>1, <1>3 DEF MatchFlag, Request, TypeOK
<1>4. CASE CheckSolved(h)
  BY <1>1, <1>4 DEF CheckSolved, Request, TypeOK
<1>5. CASE Save(h)
  BY <1>5 DEF Save, Finish, TypeOK
<1> QED
  BY <1>1, <1>2, <1>3, <1>4, <1>5 DEF Moved, Kept

\* Only services/solve.rs:279 writes the table.
LEMMA TableMoves ==
  ASSUME [Next]_vars
  PROVE  submissions' = submissions \/ \E h \in Handlers : Save(h)
BY DEF Next, Progress, Environment, Receive, CheckVisibility, CheckAttempts,
       CheckRequirements, MatchFlag, CheckSolved, CountTeams, CountAccounts, CountTeam,
       CountedTeams, ReachConsensus, Announce, Refuse, Abandon, SetTeam, SpawnInstance,
       ExpireInstance, vars
-----------------------------------------------------------------------------
\* services/solve.rs:95 reads the attempt count several awaits before the row is
\* written, so the bound must also count the handlers in between: each of them
\* holds room for one more row.
Room(c, t, a) ==
  Attempts(Config[c].mode, submissions, RowsOf(submissions, c, t, a))
      + Cardinality(Attempting(c, t, a)) + 1
    <= Config[c].limit + Cardinality(Handlers)

CapRoom ==
  \A c \in Challenges, t \in Teams \cup {NoTeam}, a \in Accounts :
    Config[c].limit # NoLimit => Room(c, t, a)

\* Part of a set of handlers is finite and no larger.
LEMMA HandlersFinite ==
  ASSUME NEW S, S \subseteq Handlers, NEW T, T \subseteq S
  PROVE  /\ Cardinality(S) \in Nat /\ Cardinality(T) \in Nat /\ Cardinality(Handlers) \in Nat
         /\ Cardinality(T) <= Cardinality(S) /\ Cardinality(S) <= Cardinality(Handlers)
BY SubmitFlagAssumption, FS_Subset, FS_CardinalityType

\* A handler that leaves a set of handlers makes it smaller.
LEMMA HandlerLeaves ==
  ASSUME NEW S, S \subseteq Handlers, NEW h \in S, NEW T, T \subseteq S \ {h}
  PROVE  Cardinality(T) + 1 <= Cardinality(S)
<1>1. IsFiniteSet(S) /\ Cardinality(S \ {h}) = Cardinality(S) - 1
  BY SubmitFlagAssumption, FS_Subset, FS_RemoveElement
<1>2. Cardinality(T) <= Cardinality(S \ {h}) /\ Cardinality(T) \in Nat /\ Cardinality(S) \in Nat
  BY <1>1, HandlersFinite
<1> QED
  BY <1>1, <1>2

\* services/solve.rs:67-79: a submitter's own rows are among those counted for it.
LEMMA RowsCounted ==
  ASSUME NEW c, NEW t, NEW a, NEW r, Mine(r, c, t, a), r.team = NoTeam => r.account = a
  PROVE  /\ RowsOf(submissions, c, t, a) \subseteq PriorOf(r)
         /\ PriorOf(r) \subseteq DOMAIN submissions
BY DEF RowsOf, PriorOf, Prior, Owns, Mine

\* The attempts of a submitter on a capped challenge are a number.
LEMMA RoomTyped ==
  ASSUME TypeOK, NEW c \in Challenges, NEW t, NEW a, Config[c].limit # NoLimit
  PROVE  /\ Config[c].limit \in Nat /\ Config[c].mode \in AttemptCountMode
         /\ RowsOf(submissions, c, t, a) \subseteq DOMAIN submissions
         /\ Attempts(Config[c].mode, submissions, RowsOf(submissions, c, t, a)) \in Nat
<1>1. Config[c].limit \in Nat /\ Config[c].mode \in AttemptCountMode
  BY SubmissionsAssumption DEF Challenge
<1>2. RowsOf(submissions, c, t, a) \subseteq DOMAIN submissions
  BY DEF RowsOf
<1> QED
  BY <1>1, <1>2, AttemptsMonotone DEF TypeOK

LEMMA CapInit == Init => CapRoom
<1> SUFFICES ASSUME Init, NEW c \in Challenges, NEW t \in Teams \cup {NoTeam},
                    NEW a \in Accounts, Config[c].limit # NoLimit
             PROVE  Room(c, t, a)
  BY DEF CapRoom
<1>1. TypeOK
  BY TypeInit
<1>2. RowsOf(submissions, c, t, a) = {} /\ Attempting(c, t, a) = {}
  <2>1. submissions = <<>> /\ \A h \in Handlers : pc[h] = "idle"
    BY DEF Init
  <2> QED
    BY <2>1 DEF RowsOf, Attempting, AttemptingSteps
<1>3. Attempts(Config[c].mode, submissions, {}) = 0
  <2>1. IncorrectIn(submissions, {}) = {} /\ FlagsIn(submissions, {}) = {}
    BY DEF IncorrectIn, FlagsIn
  <2> QED
    BY <1>1, <2>1, RoomTyped, FS_EmptySet DEF Attempts, AttemptCountMode
<1>4. Cardinality(Handlers) \in Nat /\ Cardinality(Handlers) # 0
  BY SubmitFlagAssumption, FS_CardinalityType, FS_EmptySet
<1> QED
  BY <1>1, <1>2, <1>3, <1>4, RoomTyped, FS_EmptySet DEF Room

LEMMA CapStep == TypeOK /\ CapRoom /\ [Next]_vars => CapRoom'
<1> SUFFICES ASSUME TypeOK, CapRoom, [Next]_vars,
                    NEW c \in Challenges, NEW t \in Teams \cup {NoTeam},
                    NEW a \in Accounts, Config[c].limit # NoLimit
             PROVE  Room(c, t, a)'
  BY DEF CapRoom
<1> DEFINE in    == Attempting(c, t, a)
           rows  == RowsOf(submissions, c, t, a)
           mode  == Config[c].mode
           n     == Attempts(mode, submissions, rows)
<1>1. /\ Config[c].limit \in Nat /\ mode \in AttemptCountMode
      /\ rows \subseteq DOMAIN submissions /\ n \in Nat
      /\ submissions \in Seq(Submission) /\ submissions' \in Seq(Submission)
  BY RoomTyped, TypeStep DEF TypeOK
<1>2. in \subseteq Handlers /\ in' \subseteq Handlers
  BY DEF Attempting
<1>3. /\ Cardinality(in) \in Nat /\ Cardinality(in') \in Nat /\ Cardinality(Handlers) \in Nat
      /\ Cardinality(in) <= Cardinality(Handlers) /\ Cardinality(in') <= Cardinality(Handlers)
  BY <1>2, HandlersFinite
<1>4. n + Cardinality(in) + 1 <= Config[c].limit + Cardinality(Handlers)
  BY DEF CapRoom, Room
<1>0. n \in Nat /\ Config[c].limit \in Nat
  BY <1>1
<1>9. ASSUME Attempts(mode, submissions', RowsOf(submissions', c, t, a)) + Cardinality(in') + 1
               <= Config[c].limit + Cardinality(Handlers)
      PROVE  Room(c, t, a)'
  BY <1>9 DEF Room
<1>5. ASSUME NEW g \in in', \A h \in Handlers : ~CheckAttempts(h)
      PROVE  g \in in
  <2>1. g \in Handlers /\ pc'[g] # "idle" /\ Moved(g)
    BY <1>5, Moves DEF Attempting, AttemptingSteps
  <2>2. pc'[g] \in AttemptingSteps /\ Mine(req'[g], c, t, a)
    BY DEF Attempting, AttemptingSteps
  <2>3. pc[g] \in AttemptingSteps
    BY <1>5, <2>1, <2>2 DEF Moved, AttemptingSteps, Counting, CheckVisibility,
         CheckRequirements, MatchFlag, CheckSolved, Save, Goto, Finish, TypeOK
  <2>4. Mine(req[g], c, t, a)
    BY <2>1, <2>2, <2>3, SubjectKept DEF AttemptingSteps, Mine
  <2> QED
    BY <2>1, <2>3, <2>4 DEF Attempting, AttemptingSteps
<1>6. ASSUME NEW h \in Handlers, CheckAttempts(h)
      PROVE  Room(c, t, a)'
  <2>1. submissions' = submissions /\ AttemptsLeft(req[h]) /\ req[h] \in Request
    BY <1>6 DEF CheckAttempts, Goto, TypeOK
  <2>2. CASE Mine(req[h], c, t, a)
    <3>1. rows \subseteq PriorOf(req[h]) /\ PriorOf(req[h]) \subseteq DOMAIN submissions
      BY <2>2, RowsCounted DEF Mine
    <3>2. n <= Attempts(mode, submissions, PriorOf(req[h]))
          /\ Attempts(mode, submissions, PriorOf(req[h])) \in Nat
      BY <1>1, <3>1, AttemptsMonotone
    <3>3. Attempts(mode, submissions, PriorOf(req[h])) < Config[c].limit
      BY <2>1, <2>2 DEF AttemptsLeft, Mine
    <3>4. Attempts(mode, submissions', RowsOf(submissions', c, t, a)) = n
      BY <2>1
    <3> HIDE DEF in, n, rows
    <3>5. n + Cardinality(in') + 1 <= Config[c].limit + Cardinality(Handlers)
      BY <1>0, <1>3, <3>2, <3>3
    <3>10. Attempts(mode, submissions', RowsOf(submissions', c, t, a)) + Cardinality(in') + 1
            <= Config[c].limit + Cardinality(Handlers)
      BY <3>4, <3>5
    <3> QED
      BY <1>9, <3>10
  <2>3. CASE ~Mine(req[h], c, t, a)
    <3>1. in' \subseteq in
      BY <1>6, <2>3 DEF Attempting, AttemptingSteps, CheckAttempts, Goto, TypeOK
    <3>2. Cardinality(in') <= Cardinality(in)
      BY <1>2, <3>1, HandlersFinite
    <3>3. Attempts(mode, submissions', RowsOf(submissions', c, t, a)) = n
      BY <2>1
    <3> HIDE DEF in, n, rows
    <3>4. n + Cardinality(in') + 1 <= Config[c].limit + Cardinality(Handlers)
      BY <1>0, <1>3, <1>4, <3>2
    <3>10. Attempts(mode, submissions', RowsOf(submissions', c, t, a)) + Cardinality(in') + 1
            <= Config[c].limit + Cardinality(Handlers)
      BY <3>3, <3>4
    <3> QED
      BY <1>9, <3>10
  <2> QED
    BY <2>2, <2>3
<1>7. ASSUME NEW h \in Handlers, Save(h)
      PROVE  Room(c, t, a)'
  <2> DEFINE new == Row(req[h])
  <2>1. /\ submissions' = Append(submissions, new) /\ req[h] \in Request
        /\ pc[h] = "save" /\ pc'[h] \in {"announce", "idle"}
    BY <1>7 DEF Save, Finish, TypeOK
  <2>2. new \in Submission /\ (Mine(new, c, t, a) <=> Mine(req[h], c, t, a))
    BY <2>1 DEF Row, Request, Submission, Mine
  <2>3. in' \subseteq in \ {h}
    <3>1. \A g \in Handlers : ~CheckAttempts(g)
      BY <1>1, <2>1 DEF CheckAttempts
    <3> QED
      BY <1>5, <2>1, <3>1 DEF Attempting, AttemptingSteps
  <2> HIDE DEF new
  <2>4. CASE Mine(req[h], c, t, a)
    <3>1. Attempts(mode, submissions', RowsOf(submissions', c, t, a)) <= n + 1
      BY <1>1, <2>1, <2>2, <2>4, RowsOfAppend, AttemptsGrow
    <3>4. h \in in
      BY <2>1, <2>4 DEF Attempting, AttemptingSteps
    <3>2. Cardinality(in') + 1 <= Cardinality(in)
      <4> HIDE DEF in
      <4> QED
        BY <1>2, <2>3, <3>4, HandlerLeaves
    <3>3. Attempts(mode, submissions', RowsOf(submissions', c, t, a)) \in Nat
      BY <1>1, AttemptsMonotone DEF RowsOf
    <3>5. Config[c].limit + Cardinality(Handlers) \in Nat
      BY <1>1, <1>3
    <3> DEFINE after == Attempts(mode, submissions', RowsOf(submissions', c, t, a))
               size  == Cardinality(in)
               sizep == Cardinality(in')
               bound == Config[c].limit + Cardinality(Handlers)
    <3>6. /\ after \in Nat /\ n \in Nat /\ size \in Nat /\ sizep \in Nat /\ bound \in Nat
          /\ after <= n + 1 /\ sizep + 1 <= size /\ n + size + 1 <= bound
      BY <1>1, <1>3, <1>4, <3>1, <3>2, <3>3, <3>5
    <3> HIDE DEF after, size, sizep, bound, n
    <3>7. after + sizep + 1 <= bound
      BY <3>6
    <3> QED
      BY <1>9, <3>7 DEF after, sizep, bound
  <2>5. CASE ~Mine(req[h], c, t, a)
    <3> HIDE DEF rows
    <3>1. Attempts(mode, submissions', RowsOf(submissions', c, t, a)) = n
      <4>1. RowsOf(submissions', c, t, a) = rows
        <5>1. RowsOf(Append(submissions, new), c, t, a) =
                rows \cup {i \in {Len(submissions) + 1} : Mine(new, c, t, a)}
          BY <1>1, <2>2, RowsOfAppend DEF rows
        <5>2. {i \in {Len(submissions) + 1} : Mine(new, c, t, a)} = {}
          BY <2>2, <2>5
        <5> QED
          BY <2>1, <5>1, <5>2
      <4>2. Attempts(mode, Append(submissions, new), rows) = n
        BY <1>1, <2>2, AttemptsUnchanged
      <4> QED
        BY <2>1, <4>1, <4>2
    <3>2. Cardinality(in') <= Cardinality(in)
      BY <1>2, <2>3, HandlersFinite
    <3> HIDE DEF in, n
    <3>3. n + Cardinality(in') + 1 <= Config[c].limit + Cardinality(Handlers)
      BY <1>0, <1>3, <1>4, <3>2
    <3>10. Attempts(mode, submissions', RowsOf(submissions', c, t, a)) + Cardinality(in') + 1
            <= Config[c].limit + Cardinality(Handlers)
      BY <3>1, <3>3
    <3> QED
      BY <1>9, <3>10
  <2> QED
    BY <2>4, <2>5
<1>8. ASSUME \A h \in Handlers : ~CheckAttempts(h) /\ ~Save(h)
      PROVE  Room(c, t, a)'
  <2>1. submissions' = submissions /\ in' \subseteq in
    BY <1>5, <1>8, TableMoves
  <2>2. Cardinality(in') <= Cardinality(in)
    BY <1>2, <2>1, HandlersFinite
  <2>3. Attempts(mode, submissions', RowsOf(submissions', c, t, a)) = n
    BY <2>1
  <2> HIDE DEF in, n, rows
  <2>4. n + Cardinality(in') + 1 <= Config[c].limit + Cardinality(Handlers)
    BY <1>0, <1>3, <1>4, <2>2
  <2>5. Attempts(mode, submissions', RowsOf(submissions', c, t, a)) + Cardinality(in') + 1
          <= Config[c].limit + Cardinality(Handlers)
    BY <2>3, <2>4
  <2> QED
    BY <1>9, <2>5
<1> QED
  BY <1>6, <1>7, <1>8

\* services/solve.rs:67-100: with n handlers a cap is overrun by at most n - 1.
THEOREM AttemptsAlwaysBounded == Spec => []AttemptsBounded
<1>1. TypeOK /\ CapRoom => AttemptsBounded
  <2> SUFFICES ASSUME TypeOK, CapRoom, NEW c \in Challenges,
                      NEW t \in Teams \cup {NoTeam}, NEW a \in Accounts,
                      Config[c].limit # NoLimit
               PROVE  Attempts(Config[c].mode, submissions, RowsOf(submissions, c, t, a)) + 1
                        <= Config[c].limit + Cardinality(Handlers)
    BY DEF AttemptsBounded
  <2>1. Attempting(c, t, a) \subseteq Handlers
    BY DEF Attempting
  <2>2. Cardinality(Attempting(c, t, a)) \in Nat /\ Cardinality(Handlers) \in Nat
    BY <2>1, HandlersFinite
  <2>3. Room(c, t, a)
    BY DEF CapRoom
  <2>4. /\ Config[c].limit \in Nat
        /\ Attempts(Config[c].mode, submissions, RowsOf(submissions, c, t, a)) \in Nat
    BY RoomTyped
  <2> QED
    BY <2>2, <2>3, <2>4 DEF Room
<1> QED
  BY <1>1, TypeInit, TypeStep, CapInit, CapStep, PTL DEF Spec

\* services/solve.rs:67-100: with one request at a time the cap is what
\* locales/en-US/openapi.ftl:95 calls it, in all four counting modes: only overlapping
\* requests can pass it.
THEOREM CapAlwaysKeptAlone ==
  ASSUME Cardinality(Handlers) = 1
  PROVE  Spec => []CapKept
<1>1. TypeOK /\ AttemptsBounded => CapKept
  <2> SUFFICES ASSUME TypeOK, AttemptsBounded, NEW c \in Challenges,
                      NEW t \in Teams \cup {NoTeam}, NEW a \in Accounts,
                      Config[c].limit # NoLimit
               PROVE  Attempts(Config[c].mode, submissions, RowsOf(submissions, c, t, a))
                        <= Config[c].limit
    BY DEF CapKept
  <2>1. Attempts(Config[c].mode, submissions, RowsOf(submissions, c, t, a)) + 1
          <= Config[c].limit + 1
    BY DEF AttemptsBounded
  <2>2. /\ Config[c].limit \in Nat
        /\ Attempts(Config[c].mode, submissions, RowsOf(submissions, c, t, a)) \in Nat
    BY RoomTyped
  <2> QED
    BY <2>1, <2>2
<1> QED
  BY <1>1, TypeCorrect, AttemptsAlwaysBounded, PTL
-----------------------------------------------------------------------------
\* From dedup on, a handler knows the part that accepts its flag, and the flag
\* is correct exactly when there is one.
Judging == {"dedup"} \cup Counting

MatchKnown ==
  \A h \in Handlers : pc[h] \in Judging =>
    /\ req[h].part = FirstMatch(req[h].challenge, req[h].flag, req[h].active)
    /\ req[h].correct <=> req[h].part # 0

LEMMA MatchStep == TypeOK /\ MatchKnown /\ [Next]_vars => MatchKnown'
<1> SUFFICES ASSUME TypeOK, MatchKnown, [Next]_vars,
                    NEW h \in Handlers, pc'[h] \in Judging
             PROVE  /\ req'[h].part = FirstMatch(req'[h].challenge, req'[h].flag, req'[h].active)
                    /\ req'[h].correct <=> req'[h].part # 0
  BY DEF MatchKnown
<1>1. Moved(h)
  BY Moves DEF Judging, Counting
<1>2. CASE MatchFlag(h)
  <2>1. req[h] \in Request /\ h \in DOMAIN req
    BY <1>2 DEF MatchFlag, Goto, TypeOK
  <2>2. PICK active \in ActiveFlags(req[h]) :
          LET part == FirstMatch(req[h].challenge, req[h].flag, active)
          IN  req' = [req EXCEPT ![h].active = active, ![h].part = part,
                                 ![h].correct = (part # 0)]
    BY <1>2 DEF MatchFlag
  <2>3. /\ req'[h].challenge = req[h].challenge /\ req'[h].flag = req[h].flag
        /\ req'[h].active = active
        /\ req'[h].part = FirstMatch(req[h].challenge, req[h].flag, active)
        /\ req'[h].correct = (req'[h].part # 0)
    BY <2>1, <2>2 DEF Request
  <2> QED
    BY <2>3
<1>3. CASE CheckSolved(h)
  <2>1. req[h] \in Request /\ h \in DOMAIN req /\ pc[h] = "dedup"
    BY <1>3 DEF CheckSolved, Goto, TypeOK
  <2>2. req'[h] = [req[h] EXCEPT !.existing = AccountsIn(submissions, CreditedOf(req[h]))]
    BY <1>3, <2>1 DEF CheckSolved
  <2>3. Kept(req[h], req'[h])
    BY <2>1, <2>2 DEF Request, Kept
  <2> QED
    BY <2>1, <2>3 DEF MatchKnown, Kept, Judging
<1>4. CASE pc[h] \in Counting /\ pc'[h] \in Counting /\ Kept(req[h], req'[h])
  BY <1>4 DEF MatchKnown, Kept, Judging
<1>5. CASE pc'[h] = pc[h] /\ req'[h] = req[h]
  BY <1>5 DEF MatchKnown
<1>6. ~Save(h)
  BY DEF Save, Finish, Judging, Counting, TypeOK
<1> QED
  BY <1>1, <1>2, <1>3, <1>4, <1>5, <1>6 DEF Moved, Judging, Counting, CheckVisibility,
     CheckAttempts, CheckRequirements, Goto, TypeOK
-----------------------------------------------------------------------------
\* services/solve.rs:138-178 looks for a credit before the row is written: every
\* handler past the look-up with a correct flag holds room for one more row.
Crediting(c, t, a, p) ==
  {h \in Handlers : pc[h] \in Counting /\ SameCredit(req[h], c, t, a, p)}

CreditsAndCrediting(c, t, a, p) ==
  Cardinality(CreditRows(submissions, c, t, a, p)) + Cardinality(Crediting(c, t, a, p))
    <= Cardinality(Handlers)

CreditRoom ==
  \A c \in Challenges, t \in Teams \cup {NoTeam}, a \in Accounts :
    \A p \in {0} \cup DOMAIN Config[c].parts :
      Stable(c) => CreditsAndCrediting(c, t, a, p)

\* The rows of a credit are a finite set.
LEMMA CreditRowsFinite ==
  ASSUME TypeOK, NEW c, NEW t, NEW a, NEW p
  PROVE  /\ CreditRows(submissions, c, t, a, p) \subseteq DOMAIN submissions
         /\ IsFiniteSet(CreditRows(submissions, c, t, a, p))
         /\ Cardinality(CreditRows(submissions, c, t, a, p)) \in Nat
<1>1. CreditRows(submissions, c, t, a, p) \subseteq DOMAIN submissions
  BY DEF CreditRows
<1> QED
  BY <1>1, FiniteRows, FS_CardinalityType DEF TypeOK

LEMMA CreditInit == Init => CreditRoom
<1> SUFFICES ASSUME Init, NEW c \in Challenges, NEW t \in Teams \cup {NoTeam},
                    NEW a \in Accounts, NEW p \in {0} \cup DOMAIN Config[c].parts
             PROVE  CreditsAndCrediting(c, t, a, p)
  BY DEF CreditRoom
<1>1. CreditRows(submissions, c, t, a, p) = {} /\ Crediting(c, t, a, p) = {}
  <2>1. submissions = <<>> /\ \A h \in Handlers : pc[h] = "idle"
    BY DEF Init
  <2> QED
    BY <2>1 DEF CreditRows, Crediting, Counting
<1> QED
  BY <1>1, FS_EmptySet, SubmitFlagAssumption, FS_CardinalityType DEF CreditsAndCrediting

\* services/solve.rs:138-178: a handler that passes the look-up found no row of
\* the credit its flag earns.
LEMMA NothingCredited ==
  ASSUME TypeOK, MatchKnown, NEW h \in Handlers, CheckSolved(h),
         NEW c \in Challenges, NEW t, NEW a, NEW p, Stable(c),
         SameCredit(req[h], c, t, a, p)
  PROVE  CreditRows(submissions, c, t, a, p) = {}
<1> SUFFICES ASSUME NEW i \in CreditRows(submissions, c, t, a, p)
             PROVE  AlreadySolved(req[h])
  BY DEF CheckSolved
<1> DEFINE r == req[h]
<1>1. /\ r \in Request /\ pc[h] \in Judging
      /\ r.challenge = c /\ r.team = t /\ r.correct /\ (t = NoTeam => r.account = a)
      /\ r.part = FirstMatch(c, r.flag, r.active) /\ r.part # 0
  BY DEF CheckSolved, Goto, TypeOK, Judging, MatchKnown, SameCredit, Mine
<1>2. i \in CreditedOf(r) /\ SameCredit(submissions[i], c, t, a, p)
  BY <1>1 DEF CreditRows, CreditedOf, CorrectIn, PriorOf, Prior, Owns, SameCredit, Mine
<1>3. CASE Config[c].multi
  <2>1. FirstMatch(c, submissions[i].flag, NoFlag) = FirstMatch(c, r.flag, NoFlag)
    BY <1>2, <1>3 DEF SameCredit
  <2>2. \A k \in DOMAIN Config[c].parts : ~Config[c].parts[k].live
    BY <1>3 DEF Stable
  <2>3. /\ FirstMatch(c, r.flag, NoFlag) = r.part
        /\ FirstMatch(c, submissions[i].flag, r.active) = r.part
    BY <1>1, <2>1, <2>2, FirstMatchStable
  <2>4. Accepts(Config[c].parts[r.part], submissions[i].flag, r.active)
    BY <1>1, <2>3, FirstMatchAccepts
  <2> QED
    BY <1>1, <1>2, <1>3, <2>4 DEF AlreadySolved
<1>4. CASE ~Config[c].multi /\ Config[c].consensus
  <2>1. submissions[i].account = r.account
    BY <1>2, <1>4 DEF SameCredit
  <2> QED
    BY <1>1, <1>2, <1>4, <2>1 DEF AlreadySolved, AccountsIn
<1>5. CASE ~Config[c].multi /\ ~Config[c].consensus
  BY <1>1, <1>2, <1>5 DEF AlreadySolved
<1> QED
  BY <1>3, <1>4, <1>5

LEMMA CreditStep == TypeOK /\ MatchKnown /\ CreditRoom /\ [Next]_vars => CreditRoom'
<1> SUFFICES ASSUME TypeOK, MatchKnown, CreditRoom, [Next]_vars,
                    NEW c \in Challenges, NEW t \in Teams \cup {NoTeam},
                    NEW a \in Accounts, NEW p \in {0} \cup DOMAIN Config[c].parts,
                    Stable(c)
             PROVE  CreditsAndCrediting(c, t, a, p)'
  BY DEF CreditRoom, Stable
<1> DEFINE in   == Crediting(c, t, a, p)
           rows == CreditRows(submissions, c, t, a, p)
<1>1. /\ in \subseteq Handlers /\ in' \subseteq Handlers
      /\ submissions \in Seq(Submission) /\ submissions' \in Seq(Submission)
  BY TypeStep DEF Crediting, TypeOK
<1>2. /\ Cardinality(in) \in Nat /\ Cardinality(in') \in Nat /\ Cardinality(Handlers) \in Nat
      /\ Cardinality(in) <= Cardinality(Handlers) /\ Cardinality(in') <= Cardinality(Handlers)
      /\ rows \subseteq DOMAIN submissions /\ IsFiniteSet(rows) /\ Cardinality(rows) \in Nat
  BY <1>1, HandlersFinite, CreditRowsFinite
<1>3. Cardinality(rows) + Cardinality(in) <= Cardinality(Handlers)
  BY DEF CreditRoom, CreditsAndCrediting
<1>4. ASSUME NEW g \in in', ~CheckSolved(g)
      PROVE  g \in in
  <2>1. g \in Handlers /\ pc'[g] \in Counting /\ Moved(g) /\ SameCredit(req'[g], c, t, a, p)
    BY Moves DEF Crediting, Counting
  <2>2. pc[g] \in Counting /\ Kept(req[g], req'[g])
    BY <1>4, <2>1 DEF Moved, Kept, Counting, CheckVisibility, CheckAttempts,
         CheckRequirements, MatchFlag, Save, Goto, Finish, TypeOK
  <2> QED
    BY <2>1, <2>2 DEF Crediting, SameCredit, Mine, Kept
<1>5. ASSUME NEW h \in Handlers, CheckSolved(h), SameCredit(req[h], c, t, a, p)
      PROVE  CreditsAndCrediting(c, t, a, p)'
  <2>1. CreditRows(submissions', c, t, a, p) = {}
    BY <1>5, NothingCredited DEF CheckSolved
  <2> QED
    BY <1>2, <2>1, FS_EmptySet DEF CreditsAndCrediting
<1>6. ASSUME NEW h \in Handlers, CheckSolved(h), ~SameCredit(req[h], c, t, a, p)
      PROVE  CreditsAndCrediting(c, t, a, p)'
  <2>1. /\ h \in DOMAIN req /\ req[h] \in Request /\ submissions' = submissions
        /\ \A g \in Handlers \ {h} : pc'[g] = pc[g] /\ req'[g] = req[g]
        /\ req'[h] = [req[h] EXCEPT !.existing = AccountsIn(submissions, CreditedOf(req[h]))]
    BY <1>6 DEF CheckSolved, Goto, TypeOK
  <2>2. Kept(req[h], req'[h])
    BY <2>1 DEF Kept, Request
  <2>3. h \notin in'
    BY <1>6, <2>2 DEF Crediting, SameCredit, Mine, Kept
  <2>4. in' \subseteq in
    BY <2>1, <2>3 DEF Crediting
  <2>5. Cardinality(in') <= Cardinality(in)
    BY <1>1, <2>4, HandlersFinite
  <2> QED
    BY <1>2, <1>3, <2>1, <2>5 DEF CreditsAndCrediting
<1>7. ASSUME NEW h \in Handlers, Save(h)
      PROVE  CreditsAndCrediting(c, t, a, p)'
  <2> DEFINE new == Row(req[h])
  <2>1. /\ submissions' = Append(submissions, new) /\ req[h] \in Request
        /\ pc[h] = "save" /\ pc'[h] \in {"announce", "idle"}
    BY <1>7 DEF Save, Finish, TypeOK
  <2>2. new \in Submission
    BY <2>1 DEF Row, Request, Submission
  <2>3. SameCredit(new, c, t, a, p) <=> SameCredit(req[h], c, t, a, p)
    BY DEF SameCredit, Mine, Row
  <2>4. in' \subseteq in \ {h}
    <3>1. \A g \in Handlers : ~CheckSolved(g)
      BY <1>1, <2>1 DEF CheckSolved
    <3> QED
      BY <1>1, <1>4, <2>1, <3>1 DEF Crediting, Counting
  <2> HIDE DEF new, rows
  <2>5. CreditRows(submissions', c, t, a, p) =
          rows \cup {i \in {Len(submissions) + 1} : SameCredit(new, c, t, a, p)}
    BY <1>1, <2>1, <2>2, CreditRowsAppend DEF rows
  <2>6. CASE SameCredit(req[h], c, t, a, p)
    <3>1. /\ Cardinality(CreditRows(submissions', c, t, a, p)) <= Cardinality(rows) + 1
          /\ IsFiniteSet(CreditRows(submissions', c, t, a, p))
      BY <1>2, <2>5, OneMore
    <3>2. Cardinality(in') + 1 <= Cardinality(in)
      BY <1>1, <2>1, <2>4, <2>6, HandlerLeaves DEF Crediting, Counting
    <3> QED
      BY <1>2, <1>3, <3>1, <3>2, FS_CardinalityType DEF CreditsAndCrediting
  <2>7. CASE ~SameCredit(req[h], c, t, a, p)
    <3>1. CreditRows(submissions', c, t, a, p) = rows
      <4>1. {i \in {Len(submissions) + 1} : SameCredit(new, c, t, a, p)} = {}
        BY <2>3, <2>7
      <4> QED
        BY <2>5, <4>1
    <3>2. Cardinality(in') <= Cardinality(in)
      BY <1>1, <2>4, HandlersFinite
    <3> QED
      BY <1>2, <1>3, <3>1, <3>2 DEF CreditsAndCrediting
  <2> QED
    BY <2>6, <2>7
<1>8. ASSUME \A h \in Handlers : ~CheckSolved(h) /\ ~Save(h)
      PROVE  CreditsAndCrediting(c, t, a, p)'
  <2>1. submissions' = submissions /\ in' \subseteq in
    BY <1>1, <1>4, <1>8, TableMoves
  <2>2. Cardinality(in') <= Cardinality(in)
    BY <1>1, <2>1, HandlersFinite
  <2> QED
    BY <1>2, <1>3, <2>1, <2>2 DEF CreditsAndCrediting
<1> QED
  BY <1>5, <1>6, <1>7, <1>8

\* services/solve.rs:138-178: n handlers store at most n rows of one credit.
THEOREM CreditsAlwaysBounded == Spec => []CreditsBounded
<1>1. Init => MatchKnown
  BY DEF Init, MatchKnown, Judging, Counting
<1>2. TypeOK /\ CreditRoom => CreditsBounded
  <2> SUFFICES ASSUME TypeOK, CreditRoom, NEW c \in Challenges,
                      NEW t \in Teams \cup {NoTeam}, NEW a \in Accounts,
                      NEW p \in {0} \cup DOMAIN Config[c].parts, Stable(c)
               PROVE  Cardinality(CreditRows(submissions, c, t, a, p))
                        <= Cardinality(Handlers)
    BY DEF CreditsBounded
  <2>1. Crediting(c, t, a, p) \subseteq Handlers
    BY DEF Crediting
  <2>2. CreditsAndCrediting(c, t, a, p)
    BY DEF CreditRoom
  <2> QED
    BY <2>1, <2>2, HandlersFinite, CreditRowsFinite DEF CreditsAndCrediting
<1> QED
  BY <1>1, <1>2, TypeInit, TypeStep, MatchStep, CreditInit, CreditStep, PTL DEF Spec
-----------------------------------------------------------------------------
\* services/solve.rs:101-120: a handler past the requirement check is for a
\* submitter that meets the requirements now, rows being only appended.
RequirementsKnown ==
  \A h \in Handlers : pc[h] \in {"match"} \cup Judging =>
    RequirementsMet(submissions, req[h].challenge, req[h].team, req[h].account)

LEMMA RequirementsStep ==
  TypeOK /\ RequirementsKnown /\ [Next]_vars => RequirementsKnown'
<1> SUFFICES ASSUME TypeOK, RequirementsKnown, [Next]_vars,
                    NEW h \in Handlers, pc'[h] \in {"match"} \cup Judging
             PROVE  RequirementsMet(submissions', req'[h].challenge, req'[h].team,
                                    req'[h].account)
  BY DEF RequirementsKnown
<1>1. Moved(h)
  BY Moves DEF Judging, Counting
<1>2. RequirementsMet(submissions, req[h].challenge, req[h].team, req[h].account)
  <2>1. CASE CheckRequirements(h)
    BY <2>1 DEF CheckRequirements
  <2>2. CASE ~CheckRequirements(h)
    <3>1. pc[h] \in {"match"} \cup Judging
      BY <1>1, <2>2 DEF Moved, Judging, Counting, CheckVisibility, CheckAttempts,
           MatchFlag, CheckSolved, Save, Finish, Goto, TypeOK
    <3> QED
      BY <3>1 DEF RequirementsKnown
  <2> QED
    BY <2>1, <2>2
<1>3. /\ req'[h].challenge = req[h].challenge /\ req'[h].team = req[h].team
      /\ req'[h].account = req[h].account
  <2>1. pc[h] # "idle" /\ pc'[h] # "idle"
    BY <1>1 DEF Moved, Judging, Counting, CheckVisibility, CheckAttempts,
         CheckRequirements, MatchFlag, CheckSolved, Save, Goto
  <2> QED
    BY <2>1, SubjectKept
<1>4. RequirementsMet(submissions', req[h].challenge, req[h].team, req[h].account)
  <2>1. CASE submissions' = submissions
    BY <1>2, <2>1
  <2>2. CASE \E g \in Handlers : Save(g)
    <3>1. PICK g \in Handlers : Save(g)
      BY <2>2
    <3>2. req[g] \in Request /\ submissions' = Append(submissions, Row(req[g]))
      BY <3>1 DEF Save, TypeOK
    <3>3. Row(req[g]) \in Submission
      BY <3>2 DEF Row, Request, Submission
    <3> QED
      BY <1>2, <3>2, <3>3, RequirementsStayMet DEF TypeOK
  <2> QED
    BY <2>1, <2>2, TableMoves
<1> QED
  BY <1>3, <1>4

LEMMA RespectedStep ==
  TypeOK /\ RequirementsKnown /\ RequirementsRespected /\ [Next]_vars
    => RequirementsRespected'
<1> SUFFICES ASSUME TypeOK, RequirementsKnown, RequirementsRespected, [Next]_vars
             PROVE  RequirementsRespected'
  OBVIOUS
<1>1. CASE submissions' = submissions
  BY <1>1 DEF RequirementsRespected
<1>2. ASSUME NEW h \in Handlers, Save(h)
      PROVE  RequirementsRespected'
  <2> DEFINE new == Row(req[h])
  <2>1. /\ req[h] \in Request /\ submissions' = Append(submissions, new)
        /\ submissions \in Seq(Submission)
    BY <1>2 DEF Save, TypeOK
  <2>2. new \in Submission
    BY <2>1 DEF Row, Request, Submission
  <2>3. RequirementsMet(submissions, new.challenge, new.team, new.account)
    BY <1>2 DEF RequirementsKnown, Judging, Counting, Save, Row
  <2> HIDE DEF new
  <2> SUFFICES ASSUME NEW i \in DOMAIN submissions'
               PROVE  RequirementsMet(SubSeq(submissions', 1, i - 1), submissions'[i].challenge,
                                      submissions'[i].team, submissions'[i].account)
    BY DEF RequirementsRespected
  <2>4. CASE i \in DOMAIN submissions
    <3>1. /\ submissions'[i] = submissions[i]
          /\ SubSeq(submissions', 1, i - 1) = SubSeq(submissions, 1, i - 1)
      BY <2>1, <2>2, <2>4, AppendRow, BeforeAppend
    <3> QED
      BY <2>4, <3>1 DEF RequirementsRespected
  <2>5. CASE i \notin DOMAIN submissions
    <3>1. i = Len(submissions) + 1 /\ submissions'[i] = new /\ i - 1 = Len(submissions)
      BY <2>1, <2>2, <2>5, AppendRow
    <3>2. SubSeq(submissions', 1, i - 1) = submissions
      BY <2>1, <2>2, <3>1, BeforeAppend
    <3> QED
      BY <2>3, <3>1, <3>2
  <2> QED
    BY <2>4, <2>5
<1> QED
  BY <1>1, <1>2, TableMoves

LEMMA RequirementsInit == Init => RequirementsKnown /\ RequirementsRespected
<1> SUFFICES ASSUME Init
             PROVE  RequirementsKnown /\ RequirementsRespected
  OBVIOUS
<1>1. DOMAIN submissions = {} /\ \A h \in Handlers : pc[h] = "idle"
  BY DEF Init
<1> QED
  BY <1>1 DEF RequirementsKnown, RequirementsRespected, Judging, Counting

\* services/solve.rs:101-120: every row was saved for a submitter that already
\* met the requirements of its challenge.
THEOREM RequirementsAlwaysRespected == Spec => []RequirementsRespected
BY TypeInit, TypeStep, RequirementsInit, RequirementsStep, RespectedStep, PTL DEF Spec
-----------------------------------------------------------------------------
\* What the ledger reads of the table is what the handlers read.
LEMMA LedgerRows ==
  ASSUME NEW subs, NEW c, NEW t, NEW a, NEW p, NEW s
  PROVE  /\ Ledger!Prior(subs, c, t, a) = Prior(subs, c, t, a)
         /\ Ledger!RowsOf(subs, c, t, a) = RowsOf(subs, c, t, a)
         /\ Ledger!SameCredit(s, c, t, a, p) <=> SameCredit(s, c, t, a, p)
         /\ Ledger!CreditRows(subs, c, t, a, p) = CreditRows(subs, c, t, a, p)
         /\ Ledger!RequirementsMet(subs, c, t, a) <=> RequirementsMet(subs, c, t, a)
         /\ Ledger!Stable(c) <=> Stable(c)
         /\ Ledger!Submission = Submission
<1>1. \A r : Ledger!Mine(r, c, t, a) <=> Mine(r, c, t, a)
  BY DEF Ledger!Mine, Mine
<1>2. Ledger!RowsOf(subs, c, t, a) = RowsOf(subs, c, t, a)
  BY <1>1 DEF Ledger!RowsOf, RowsOf
<1>3. \A q : Ledger!Prior(subs, q, t, a) = Prior(subs, q, t, a)
  BY DEF Ledger!Prior, Prior, Ledger!Owns, Owns
<1>4. \A R : Ledger!CorrectIn(subs, R) = CorrectIn(subs, R)
  BY DEF Ledger!CorrectIn, CorrectIn
<1>5. \A f, x : Ledger!FirstMatch(c, f, x) = FirstMatch(c, f, x)
  BY DEF Ledger!FirstMatch, FirstMatch, Ledger!MatchingParts, MatchingParts,
         Ledger!Accepts, Accepts
<1>6. \A r : Ledger!SameCredit(r, c, t, a, p) <=> SameCredit(r, c, t, a, p)
  BY <1>1, <1>5 DEF Ledger!SameCredit, SameCredit
<1>7. Ledger!CreditRows(subs, c, t, a, p) = CreditRows(subs, c, t, a, p)
  BY <1>6 DEF Ledger!CreditRows, CreditRows
<1>8. Ledger!RequirementsMet(subs, c, t, a) <=> RequirementsMet(subs, c, t, a)
  BY <1>3, <1>4 DEF Ledger!RequirementsMet, RequirementsMet
<1> QED
  BY <1>2, <1>3, <1>6, <1>7, <1>8 DEF Ledger!Stable, Stable, Ledger!Submission, Submission

LEMMA LedgerCardinality ==
  ASSUME NEW S
  PROVE  Ledger!Cardinality(S) = Cardinality(S)
BY DEF Ledger!Cardinality, Cardinality

LEMMA LedgerAttempts ==
  ASSUME NEW subs, NEW rows, NEW mode \in AttemptCountMode
  PROVE  Ledger!Attempts(mode, subs, rows) = Attempts(mode, subs, rows)
<1>1. \A R : /\ Ledger!IncorrectIn(subs, R) = IncorrectIn(subs, R)
             /\ Ledger!FlagsIn(subs, R) = FlagsIn(subs, R)
  BY DEF Ledger!IncorrectIn, IncorrectIn, Ledger!FlagsIn, FlagsIn
<1> QED
  BY <1>1, LedgerCardinality DEF Ledger!Attempts, Attempts

\* services/solve.rs:54-288: the row a handler saves is one the ledger admits.
LEMMA SaveRecords ==
  ASSUME TypeOK, CapRoom, CreditRoom, RequirementsKnown, NEW h \in Handlers, Save(h)
  PROVE  Ledger!Next
<1> DEFINE r   == req[h]
           new == Row(r)
           c   == r.challenge
           t   == r.team
           a   == r.account
<1>1. /\ r \in Request /\ submissions \in Seq(Submission)
      /\ submissions' = Append(submissions, new) /\ pc[h] = "save"
      /\ c \in Challenges /\ t \in Teams \cup {NoTeam} /\ a \in Accounts
  BY DEF Save, TypeOK, Request
<1>2. /\ new \in Submission /\ new.challenge = c /\ new.team = t /\ new.account = a
      /\ \A p : SameCredit(new, c, t, a, p) <=> SameCredit(r, c, t, a, p)
      /\ Mine(r, c, t, a)
  BY <1>1 DEF Row, Request, Submission, SameCredit, Mine
<1>3. RequirementsMet(submissions, c, t, a)
  BY <1>1 DEF RequirementsKnown, Judging, Counting
<1>4. Config[c].limit # NoLimit =>
        Attempts(Config[c].mode, submissions, RowsOf(submissions, c, t, a)) + 1
          < Config[c].limit + Cardinality(Handlers)
  <2> SUFFICES ASSUME Config[c].limit # NoLimit
               PROVE  Attempts(Config[c].mode, submissions, RowsOf(submissions, c, t, a)) + 1
                        < Config[c].limit + Cardinality(Handlers)
    OBVIOUS
  <2>1. h \in Attempting(c, t, a) /\ Attempting(c, t, a) \subseteq Handlers
    BY <1>1, <1>2 DEF Attempting, AttemptingSteps
  <2>2. Cardinality({}) + 1 <= Cardinality(Attempting(c, t, a))
    BY <2>1, HandlerLeaves
  <2>3. Cardinality(Attempting(c, t, a)) \in Nat /\ Cardinality(Handlers) \in Nat
        /\ Cardinality({}) = 0
    BY <2>1, HandlersFinite, FS_EmptySet
  <2>4. Room(c, t, a)
    BY <1>1 DEF CapRoom
  <2>5. /\ Config[c].limit \in Nat
        /\ Attempts(Config[c].mode, submissions, RowsOf(submissions, c, t, a)) \in Nat
    BY <1>1, RoomTyped
  <2> QED
    BY <2>2, <2>3, <2>4, <2>5 DEF Room
<1>5. ASSUME NEW p \in {0} \cup DOMAIN Config[c].parts, Stable(c), SameCredit(new, c, t, a, p)
      PROVE  Cardinality(CreditRows(submissions, c, t, a, p)) < Cardinality(Handlers)
  <2>1. h \in Crediting(c, t, a, p) /\ Crediting(c, t, a, p) \subseteq Handlers
    BY <1>1, <1>2, <1>5 DEF Crediting, Counting
  <2>2. Cardinality({}) + 1 <= Cardinality(Crediting(c, t, a, p))
    BY <2>1, HandlerLeaves
  <2>3. /\ Cardinality(Crediting(c, t, a, p)) \in Nat /\ Cardinality(Handlers) \in Nat
        /\ Cardinality({}) = 0 /\ Cardinality(CreditRows(submissions, c, t, a, p)) \in Nat
    BY <2>1, HandlersFinite, FS_EmptySet, CreditRowsFinite
  <2>4. CreditsAndCrediting(c, t, a, p)
    BY <1>1, <1>5 DEF CreditRoom
  <2> QED
    BY <2>2, <2>3, <2>4 DEF CreditsAndCrediting
<1>6. Config[c].mode \in AttemptCountMode
  BY <1>1, SubmissionsAssumption DEF Challenge
<1> HIDE DEF new, r, c, t, a
<1>7. Ledger!Record(new)
  <2>1. Ledger!RequirementsMet(submissions, new.challenge, new.team, new.account)
    BY <1>2, <1>3, LedgerRows
  <2>2. Config[c].limit # NoLimit =>
          Ledger!Attempts(Config[c].mode, submissions, Ledger!RowsOf(submissions, c, t, a)) + 1
            < Config[c].limit + Cardinality(Handlers)
    <3>1. Ledger!RowsOf(submissions, c, t, a) = RowsOf(submissions, c, t, a)
      BY LedgerRows
    <3> QED
      BY <1>4, <1>6, <3>1, LedgerAttempts
  <2>3. ASSUME NEW p \in {0} \cup DOMAIN Config[c].parts,
               Ledger!Stable(c), Ledger!SameCredit(new, c, t, a, p)
        PROVE  Ledger!Cardinality(Ledger!CreditRows(submissions, c, t, a, p))
                 < Cardinality(Handlers)
    <3>1. Ledger!CreditRows(submissions, c, t, a, p) = CreditRows(submissions, c, t, a, p)
      BY LedgerRows
    <3>2. Stable(c) /\ SameCredit(new, c, t, a, p)
      BY <2>3, LedgerRows
    <3> QED
      BY <1>5, <3>1, <3>2, LedgerCardinality
  <2> QED
    BY <1>1, <1>2, <2>1, <2>2, <2>3 DEF Ledger!Record
<1>8. Len(submissions') = Len(submissions) + 1 /\ submissions'[Len(submissions')] = new
  BY <1>1, <1>2, AppendRow
<1> QED
  BY <1>2, <1>7, <1>8, LedgerRows DEF Ledger!Next

\* Submitting flags, as the handlers do it in a dozen interleaved calls, records
\* them the way the ledger does in one.
THEOREM LedgerImplemented == Spec => ImplementsLedger
<1>1. Init => Ledger!Init /\ MatchKnown
  BY DEF Init, Ledger!Init, MatchKnown, Judging, Counting
<1>2. TypeOK /\ CapRoom /\ CreditRoom /\ RequirementsKnown /\ [Next]_vars
        => [Ledger!Next]_submissions
  BY SaveRecords, TableMoves
<1> QED
  BY <1>1, <1>2, TypeInit, TypeStep, CapInit, CapStep, MatchStep, CreditInit, CreditStep,
     RequirementsInit, RequirementsStep, PTL DEF Spec, ImplementsLedger, Ledger!Spec
-----------------------------------------------------------------------------
\* api/solve.rs:63-77: past the visibility check, a handler is for an account
\* that may see its challenge.
Past == {"attempts", "requirements", "match", "dedup", "count", "teams", "consensus",
         "save", "announce"}

SeenKnown == \A h \in Handlers : pc[h] \in Past => MaySee(req[h])

LEMMA SeenStep ==
  ASSUME "store" \notin Faults
  PROVE  TypeOK /\ SeenKnown /\ [Next]_vars => SeenKnown'
<1> SUFFICES ASSUME TypeOK, SeenKnown, [Next]_vars, NEW h \in Handlers, pc'[h] \in Past
             PROVE  MaySee(req'[h])
  BY DEF SeenKnown
<1>1. Moved(h) /\ h \in DOMAIN pc
  BY Moves DEF Past, TypeOK
<1>2. MaySee(req[h]) /\ pc[h] # "idle"
  <2>1. CASE CheckVisibility(h)
    BY <2>1 DEF CheckVisibility, Goto
  <2>2. CASE ~CheckVisibility(h)
    <3>1. pc[h] \in Past
      BY <1>1, <2>2 DEF Moved, Past, Counting, CheckAttempts, CheckRequirements, MatchFlag,
           CheckSolved, Save, Goto
    <3> QED
      BY <3>1 DEF SeenKnown, Past
  <2> QED
    BY <2>1, <2>2
<1>3. req'[h].account = req[h].account /\ req'[h].challenge = req[h].challenge
  BY <1>2, SubjectKept DEF Past
<1> QED
  BY <1>2, <1>3 DEF MaySee

\* A property of single rows holds of the table after a save if it holds of the
\* rows before it and of the row saved (services/solve.rs:279).
LEMMA SavedRow ==
  ASSUME TypeOK, NEW h \in Handlers, Save(h)
  PROVE  /\ req[h] \in Request /\ Row(req[h]) \in Submission /\ pc[h] = "save"
         /\ submissions \in Seq(Submission)
         /\ submissions' = Append(submissions, Row(req[h]))
         /\ DOMAIN submissions' = DOMAIN submissions \cup {Len(submissions) + 1}
         /\ \A i \in DOMAIN submissions : submissions'[i] = submissions[i]
         /\ submissions'[Len(submissions) + 1] = Row(req[h])
<1>1. /\ req[h] \in Request /\ pc[h] = "save"
      /\ submissions \in Seq(Submission) /\ submissions' = Append(submissions, Row(req[h]))
  BY DEF Save, TypeOK
<1>2. Row(req[h]) \in Submission
  BY <1>1 DEF Row, Request, Submission
<1> QED
  BY <1>1, <1>2, AppendRow

LEMMA HiddenStep ==
  TypeOK /\ SeenKnown /\ HiddenUntouched /\ [Next]_vars => HiddenUntouched'
<1> SUFFICES ASSUME TypeOK, SeenKnown, HiddenUntouched, [Next]_vars
             PROVE  HiddenUntouched'
  OBVIOUS
<1>1. ASSUME NEW h \in Handlers, Save(h)
      PROVE  HiddenUntouched'
  <2>1. MaySee(req[h])
    BY <1>1, SavedRow DEF SeenKnown, Past
  <2>2. /\ Row(req[h]).challenge = req[h].challenge
        /\ Row(req[h]).account = req[h].account
    BY DEF Row
  <2> QED
    BY <1>1, <2>1, <2>2, SavedRow DEF HiddenUntouched, MaySee
<1> QED
  BY <1>1, TableMoves DEF HiddenUntouched

\* api/solve.rs:63-77: as long as the read of the challenge does not fail, only
\* an admin gets a row in for a hidden challenge. (The code lets a player pass
\* when it does fail, so the assumption is needed.)
THEOREM HiddenAlwaysUntouched ==
  ASSUME "store" \notin Faults
  PROVE  Spec => []HiddenUntouched
<1>1. Init => SeenKnown /\ HiddenUntouched
  <2> SUFFICES ASSUME Init
               PROVE  SeenKnown /\ HiddenUntouched
    OBVIOUS
  <2>1. DOMAIN submissions = {} /\ \A h \in Handlers : pc[h] = "idle"
    BY DEF Init
  <2> QED
    BY <2>1 DEF SeenKnown, HiddenUntouched, Past
<1>2. TypeOK /\ SeenKnown /\ [Next]_vars => SeenKnown'
  BY SeenStep
<1> QED
  BY <1>1, <1>2, TypeInit, TypeStep, HiddenStep, PTL DEF Spec
-----------------------------------------------------------------------------
\* repos/pg/challenges.rs:6-32 read before the row is written: a correct flag of
\* a challenge with an instanced flag was generated for the submitter.
Generated(s, known) ==
  s.correct /\ (\A k \in DOMAIN Config[s.challenge].parts :
                  Config[s.challenge].parts[k].live) =>
    \E n \in known : /\ n.challenge = s.challenge
                    /\ n.flag = s.flag
                    /\ Owns(n, s.team, s.account)

GeneratedKnown ==
  /\ instances \subseteq spawned
  /\ \A h \in Handlers : pc[h] \in Judging => Generated(req[h], spawned)

\* An instance row is never forgotten, only its liveness is.
LEMMA SpawnedGrows ==
  ASSUME [Next]_vars
  PROVE  /\ spawned \subseteq spawned'
         /\ instances \subseteq spawned => instances' \subseteq spawned'
BY DEF Next, Progress, Environment, Receive, CheckVisibility, CheckAttempts,
       CheckRequirements, MatchFlag, CheckSolved, CountTeams, CountAccounts, CountTeam,
       CountedTeams, ReachConsensus, Save, Announce, Refuse, Abandon, SetTeam,
       SpawnInstance, ExpireInstance, vars

LEMMA GeneratedStep == TypeOK /\ GeneratedKnown /\ [Next]_vars => GeneratedKnown'
<1> SUFFICES ASSUME TypeOK, GeneratedKnown, [Next]_vars,
                    NEW h \in Handlers, pc'[h] \in Judging
             PROVE  Generated(req'[h], spawned')
  BY SpawnedGrows DEF GeneratedKnown
<1>1. Moved(h)
  BY Moves DEF Judging, Counting
<1>2. CASE MatchFlag(h)
  <2>1. req[h] \in Request /\ h \in DOMAIN req
    BY <1>2 DEF MatchFlag, Goto, TypeOK
  <2>2. PICK active \in ActiveFlags(req[h]) :
          LET part == FirstMatch(req[h].challenge, req[h].flag, active)
          IN  req' = [req EXCEPT ![h].active = active, ![h].part = part,
                                 ![h].correct = (part # 0)]
    BY <1>2 DEF MatchFlag
  <2> DEFINE r    == req[h]
             part == FirstMatch(r.challenge, r.flag, active)
  <2>3. /\ req'[h].challenge = r.challenge /\ req'[h].flag = r.flag
        /\ req'[h].team = r.team /\ req'[h].account = r.account
        /\ req'[h].correct = (part # 0)
    BY <2>1, <2>2 DEF Request
  <2> SUFFICES ASSUME part # 0, \A k \in DOMAIN Config[r.challenge].parts :
                                  Config[r.challenge].parts[k].live
               PROVE  \E n \in spawned : /\ n.challenge = r.challenge
                                         /\ n.flag = r.flag
                                         /\ Owns(n, r.team, r.account)
    BY <2>3, SpawnedGrows DEF Generated
  <2>4. r.challenge \in Challenges /\ r.flag \in Flags
    BY <2>1 DEF Request
  <2>5. r.flag = active
    <3>1. /\ part \in DOMAIN Config[r.challenge].parts
          /\ Accepts(Config[r.challenge].parts[part], r.flag, active)
      BY <2>4, FirstMatchAccepts
    <3> QED
      BY <3>1 DEF Accepts
  <2>6. active # NoFlag
    BY <2>4, <2>5, SubmissionsAssumption
  <2>7. \E i \in instances : /\ i.challenge = r.challenge
                             /\ Owns(i, r.team, r.account)
                             /\ i.flag = active
    BY <2>2, <2>6 DEF ActiveFlags
  <2> QED
    BY <2>5, <2>7 DEF GeneratedKnown
<1>3. CASE CheckSolved(h)
  <2>1. req[h] \in Request /\ h \in DOMAIN req /\ pc[h] = "dedup"
    BY <1>3 DEF CheckSolved, Goto, TypeOK
  <2>2. req'[h] = [req[h] EXCEPT !.existing = AccountsIn(submissions, CreditedOf(req[h]))]
    BY <1>3, <2>1 DEF CheckSolved
  <2>3. Kept(req[h], req'[h])
    BY <2>1, <2>2 DEF Request, Kept
  <2> QED
    BY <2>1, <2>3, SpawnedGrows DEF GeneratedKnown, Generated, Kept, Judging
<1>4. CASE pc[h] \in Counting /\ pc'[h] \in Counting /\ Kept(req[h], req'[h])
  BY <1>4, SpawnedGrows DEF GeneratedKnown, Generated, Kept, Judging
<1>5. CASE pc'[h] = pc[h] /\ req'[h] = req[h]
  BY <1>5, SpawnedGrows DEF GeneratedKnown, Generated
<1>6. ~Save(h)
  BY DEF Save, Finish, Judging, Counting, TypeOK
<1> QED
  BY <1>1, <1>2, <1>3, <1>4, <1>5, <1>6 DEF Moved, Judging, Counting, CheckVisibility,
     CheckAttempts, CheckRequirements, Goto, TypeOK

LEMMA NotSharedStep ==
  TypeOK /\ GeneratedKnown /\ InstanceFlagsNotShared /\ [Next]_vars
    => InstanceFlagsNotShared'
<1> SUFFICES ASSUME TypeOK, GeneratedKnown, InstanceFlagsNotShared, [Next]_vars,
                    NEW i \in DOMAIN submissions'
             PROVE  Generated(submissions'[i], spawned')
  BY DEF InstanceFlagsNotShared, Generated
<1>1. \A j \in DOMAIN submissions : Generated(submissions[j], spawned')
  BY SpawnedGrows DEF InstanceFlagsNotShared, Generated
<1>2. ASSUME NEW h \in Handlers, Save(h)
      PROVE  Generated(submissions'[i], spawned')
  <2>1. Generated(req[h], spawned)
    BY <1>2, SavedRow DEF GeneratedKnown, Judging, Counting
  <2>2. /\ Row(req[h]).challenge = req[h].challenge
        /\ Row(req[h]).account = req[h].account
        /\ Row(req[h]).team = req[h].team
        /\ Row(req[h]).flag = req[h].flag
        /\ Row(req[h]).correct = req[h].correct
    BY DEF Row
  <2>3. Generated(Row(req[h]), spawned')
    BY <2>1, <2>2, SpawnedGrows DEF Generated
  <2> QED
    BY <1>1, <1>2, <2>3, SavedRow
<1> QED
  BY <1>1, <1>2, TableMoves

\* repos/pg/challenges.rs:6-32: whatever teams change and instances expire
\* between the read and the save, nobody earns anything with a flag generated
\* for another team.
THEOREM InstanceFlagsNeverShared == Spec => []InstanceFlagsNotShared
<1>1. Init => GeneratedKnown /\ InstanceFlagsNotShared
  <2> SUFFICES ASSUME Init
               PROVE  GeneratedKnown /\ InstanceFlagsNotShared
    OBVIOUS
  <2>1. DOMAIN submissions = {} /\ instances = {} /\ \A h \in Handlers : pc[h] = "idle"
    BY DEF Init
  <2> QED
    BY <2>1 DEF GeneratedKnown, InstanceFlagsNotShared, Judging, Counting
<1> QED
  BY <1>1, TypeInit, TypeStep, GeneratedStep, NotSharedStep, PTL DEF Spec
\* A save adds its row to the solves of its challenge, if it is correct.
LEMMA SavedSolves ==
  ASSUME TypeOK, NEW h \in Handlers, Save(h), NEW c
  PROVE  /\ Len(submissions) \in Nat
         /\ Solves(submissions, c) \subseteq DOMAIN submissions
         /\ Solves(submissions', c) =
              Solves(submissions, c)
                \cup {i \in {Len(submissions) + 1} : req[h].challenge = c /\ req[h].correct}
         /\ \A i \in Solves(submissions, c) :
              /\ i \in Nat /\ i < Len(submissions) + 1
              /\ submissions'[i] = submissions[i]
<1> DEFINE s == Row(req[h])
<1>1. /\ submissions \in Seq(Submission) /\ submissions' = Append(submissions, s)
      /\ s \in Submission
      /\ s.challenge = req[h].challenge /\ s.correct = req[h].correct
  BY SavedRow DEF Row
<1> HIDE DEF s
<1> QED
  BY <1>1, SolvesAppend, AppendRow

-----------------------------------------------------------------------------
\* api/solve.rs:87: a handler that is about to announce finds its own row in the
\* table.
OwnRowSaved ==
  \A h \in Handlers : pc[h] = "announce" =>
    \E i \in Solves(submissions, req[h].challenge) :
      Solver(submissions[i]) = Solver(Row(req[h]))

LEMMA OwnRowStep == TypeOK /\ OwnRowSaved /\ [Next]_vars => OwnRowSaved'
<1> SUFFICES ASSUME TypeOK, OwnRowSaved, [Next]_vars,
                    NEW h \in Handlers, pc'[h] = "announce"
             PROVE  \E i \in Solves(submissions', req'[h].challenge) :
                      Solver(submissions'[i]) = Solver(Row(req'[h]))
  BY DEF OwnRowSaved
<1>1. CASE Save(h)
  <2>1. req'[h] = req[h] /\ req[h].correct
    BY <1>1 DEF Save, Finish, TypeOK
  <2>2. Len(submissions) + 1 \in Solves(submissions', req[h].challenge)
    BY <1>1, <2>1, SavedSolves
  <2> QED
    BY <1>1, <2>1, <2>2, SavedRow
<1>2. CASE ~Save(h)
  <2>1. pc[h] = "announce" /\ req'[h] = req[h]
    BY <1>2, Moves DEF Moved, Counting, CheckVisibility, CheckAttempts, CheckRequirements,
       MatchFlag, CheckSolved, Goto, TypeOK
  <2>2. PICK i \in Solves(submissions, req[h].challenge) :
          Solver(submissions[i]) = Solver(Row(req[h]))
    BY <2>1 DEF OwnRowSaved
  <2>3. CASE submissions' = submissions
    BY <2>1, <2>2, <2>3
  <2>4. ASSUME NEW g \in Handlers, Save(g)
        PROVE  i \in Solves(submissions', req[h].challenge) /\ submissions'[i] = submissions[i]
    BY <2>2, <2>4, SavedSolves
  <2> QED
    BY <2>1, <2>2, <2>3, <2>4, TableMoves
<1> QED
  BY <1>1, <1>2

\* Only api/solve.rs:87 broadcasts.
LEMMA AnnouncedMoves ==
  ASSUME [Next]_vars
  PROVE  announced' = announced \/ \E h \in Handlers : Announce(h)
BY DEF Next, Progress, Environment, Receive, CheckVisibility, CheckAttempts,
       CheckRequirements, MatchFlag, CheckSolved, CountTeams, CountAccounts, CountTeam,
       CountedTeams, ReachConsensus, Save, Refuse, Abandon, SetTeam, SpawnInstance,
       ExpireInstance, vars

\* Who is first stays first: rows are only appended.
Earliest(subs, n) ==
  \E i \in Solves(subs, n.challenge) :
    /\ Solver(subs[i]) = n.solver
    /\ \A j \in Solves(subs, n.challenge) : i <= j

LEMMA EarliestStays ==
  ASSUME TypeOK, [Next]_vars, NEW n, Earliest(submissions, n)
  PROVE  Earliest(submissions', n)
<1>1. ASSUME NEW h \in Handlers, Save(h)
      PROVE  Earliest(submissions', n)
  <2>1. PICK i \in Solves(submissions, n.challenge) :
          /\ Solver(submissions[i]) = n.solver
          /\ \A j \in Solves(submissions, n.challenge) : i <= j
    BY DEF Earliest
  <2>2. /\ i \in Solves(submissions', n.challenge) /\ submissions'[i] = submissions[i]
        /\ i <= Len(submissions) + 1
        /\ Solves(submissions', n.challenge) \subseteq
             Solves(submissions, n.challenge) \cup {Len(submissions) + 1}
    BY <1>1, SavedSolves
  <2> QED
    BY <2>1, <2>2 DEF Earliest
<1> QED
  BY <1>1, TableMoves

LEMMA FirstBloodStep ==
  ASSUME "store" \notin Faults
  PROVE  TypeOK /\ OwnRowSaved /\ FirstBloodIsFirst /\ [Next]_vars => FirstBloodIsFirst'
<1> SUFFICES ASSUME TypeOK, OwnRowSaved, FirstBloodIsFirst, [Next]_vars,
                    NEW n \in announced', n.kind = "FirstBlood"
             PROVE  Earliest(submissions', n)
  BY DEF FirstBloodIsFirst, Earliest
<1>1. CASE n \in announced
  BY <1>1, EarliestStays DEF FirstBloodIsFirst, Earliest
<1>2. ASSUME NEW h \in Handlers, Announce(h), n \notin announced
      PROVE  Earliest(submissions', n)
  <2> DEFINE c    == req[h].challenge
             all  == Solvers(submissions, c)
             mine == Solver(Row(req[h]))
  <2>1. pc[h] = "announce" /\ AnnounceTo(h, all) /\ submissions' = submissions
    BY <1>2 DEF Announce
  <2>2. n.challenge = c /\ n.solver = mine /\ Cardinality(all) <= 1
    BY <1>2, <2>1 DEF AnnounceTo
  <2>3. PICK k \in Solves(submissions, c) : Solver(submissions[k]) = mine
    BY <2>1 DEF OwnRowSaved
  <2>4. mine \in all
    BY <2>3 DEF Solvers
  <2>5. all = {mine}
    <3>1. IsFiniteSet(all)
      BY FiniteSolvers DEF TypeOK
    <3> HIDE DEF all, mine
    <3> QED
      BY <2>2, <2>4, <3>1, OnlyOne
  <2>6. \A i \in Solves(submissions, c) : Solver(submissions[i]) = mine
    BY <2>5 DEF Solvers
  <2>7. PICK i \in Solves(submissions, c) : \A j \in Solves(submissions, c) : i <= j
    <3>1. Solves(submissions, c) \in SUBSET Nat /\ Solves(submissions, c) # {}
      BY <2>3 DEF Solves, TypeOK
    <3> HIDE DEF c
    <3> QED
      BY <3>1, LeastElement
  <2> QED
    BY <2>1, <2>2, <2>6, <2>7 DEF Earliest
<1> QED
  BY <1>1, <1>2, AnnouncedMoves

\* api/solve.rs:117-130: however the saves and the reads after them interleave,
\* a first-blood broadcast names the solver of the earliest correct row. (A read
\* that fails counts as an empty table, api/solve.rs:111, hence the assumption.)
THEOREM FirstBloodAlwaysFirst ==
  ASSUME "store" \notin Faults
  PROVE  Spec => []FirstBloodIsFirst
<1>1. Init => OwnRowSaved /\ FirstBloodIsFirst
  BY DEF Init, OwnRowSaved, FirstBloodIsFirst
<1>2. TypeOK /\ OwnRowSaved /\ FirstBloodIsFirst /\ [Next]_vars => FirstBloodIsFirst'
  BY FirstBloodStep
<1> QED
  BY <1>1, <1>2, TypeInit, TypeStep, OwnRowStep, PTL DEF Spec
-----------------------------------------------------------------------------
\* api/solve.rs:87: a handler that has a solve to announce announces it next, unless
\* it is dropped.
LEMMA AnnounceNext ==
  ASSUME TypeOK, [Next]_vars, "abandon" \notin Faults, NEW h \in Handlers, pc[h] = "announce"
  PROVE  Announce(h) \/ (pc'[h] = "announce" /\ req'[h] = req[h])
<1>0. pc \in [Handlers -> Steps] /\ req \in [Handlers -> Request \cup {NoRequest}]
  BY DEF TypeOK
<1> USE <1>0 DEF Goto
<1>1. ASSUME NEW g \in Handlers, Progress(g), ~Announce(g)
      PROVE  pc'[h] = pc[h] /\ req'[h] = req[h]
  <2>1. CASE \/ CheckVisibility(g) \/ CheckAttempts(g) \/ CheckRequirements(g)
             \/ CountedTeams(g)
    <3>1. \E from, to \in Steps : Goto(g, from, to) /\ from # "announce"
      BY <2>1 DEF CheckVisibility, CheckAttempts, CheckRequirements, CountedTeams, Steps
    <3>2. req'[h] = req[h]
      BY <2>1 DEF CheckVisibility, CheckAttempts, CheckRequirements, CountedTeams
    <3>3. pc'[h] = pc[h]
      BY <3>1
    <3> QED
      BY <3>2, <3>3
  <2>2. CASE MatchFlag(g) \/ CheckSolved(g)
    BY <2>2 DEF MatchFlag, CheckSolved
  <2>3. CASE CountTeams(g) \/ CountAccounts(g) \/ ReachConsensus(g)
    BY <2>3 DEF CountTeams, CountAccounts, ReachConsensus
  <2>4. ASSUME NEW t \in Teams, CountTeam(g, t)
        PROVE  pc'[h] = pc[h] /\ req'[h] = req[h]
    BY <2>4 DEF CountTeam
  <2>5. CASE Save(g)
    BY <2>5 DEF Save, Finish
  <2>6. CASE Refuse(g)
    BY <2>6 DEF Refuse, Refused, Finish
  <2> QED
    BY <1>1, <2>1, <2>2, <2>3, <2>4, <2>5, <2>6 DEF Progress
<1>2. ASSUME NEW g \in Handlers, Announce(g), g # h
      PROVE  pc'[h] = pc[h] /\ req'[h] = req[h]
  BY <1>2 DEF Announce, Finish
<1>3. ASSUME NEW g \in Handlers, NEW a \in Accounts, NEW c \in Challenges, NEW f \in Flags,
             Receive(g, a, c, f)
      PROVE  pc'[h] = pc[h] /\ req'[h] = req[h]
  BY <1>3 DEF Receive
<1>4. ASSUME NEW g \in Handlers, Abandon(g)
      PROVE  FALSE
  BY <1>4 DEF Abandon
<1>5. ASSUME Environment \/ UNCHANGED vars
      PROVE  pc'[h] = pc[h] /\ req'[h] = req[h]
  BY <1>5 DEF Environment, SetTeam, SpawnInstance, ExpireInstance, vars
<1> QED
  BY <1>1, <1>2, <1>3, <1>4, <1>5 DEF Next

\* A solver has been announced, or a handler is about to.
Heard(c, s) ==
  \/ \E n \in announced : n.challenge = c /\ n.solver = s
  \/ \E h \in Handlers :
       pc[h] = "announce" /\ req[h].challenge = c /\ Solver(Row(req[h])) = s

\* api/solve.rs:87: nobody who has a correct row in the table has been forgotten.
SolversHeard == \A c \in Challenges : \A s \in Solvers(submissions, c) : Heard(c, s)

\* What has been heard of stays so.
LEMMA HeardStays ==
  ASSUME TypeOK, [Next]_vars, "abandon" \notin Faults,
         {"FirstBlood", "Solve"} \subseteq Broadcast, NEW c, NEW s, Heard(c, s)
  PROVE  Heard(c, s)'
<1>1. announced \subseteq announced'
  BY AnnouncedMoves DEF Announce, AnnounceTo
<1>2. ASSUME NEW n \in announced, n.challenge = c, n.solver = s
      PROVE  Heard(c, s)'
  BY <1>1, <1>2 DEF Heard
<1>3. ASSUME NEW h \in Handlers, pc[h] = "announce", req[h].challenge = c,
             Solver(Row(req[h])) = s
      PROVE  Heard(c, s)'
  <2>1. CASE Announce(h)
    <3>1. PICK solvers : AnnounceTo(h, solvers)
      BY <2>1 DEF Announce
    <3> DEFINE kind == IF Cardinality(solvers) <= 1 THEN "FirstBlood" ELSE "Solve"
               n    == [kind |-> kind, challenge |-> c, solver |-> s]
    <3>2. kind \in Broadcast /\ n.kind = kind
      OBVIOUS
    <3>3. n \in announced'
      BY <1>3, <3>1, <3>2 DEF AnnounceTo
    <3>4. n.challenge = c /\ n.solver = s
      OBVIOUS
    <3> HIDE DEF n
    <3> QED
      BY <3>3, <3>4 DEF Heard
  <2>2. CASE ~Announce(h)
    <3>1. pc'[h] = "announce" /\ req'[h] = req[h]
      BY <1>3, <2>2, AnnounceNext
    <3>2. Row(req'[h]) = Row(req[h])
      BY <3>1
    <3> QED
      BY <1>3, <3>1, <3>2 DEF Heard
  <2> QED
    BY <2>1, <2>2
<1> QED
  BY <1>2, <1>3 DEF Heard

\* Who has solved a challenge: those who had before, and whoever's correct row is saved.
LEMMA SolversMove ==
  ASSUME TypeOK, [Next]_vars, NEW c
  PROVE  /\ Solvers(submissions, c) \subseteq Solvers(submissions', c)
         /\ \A s \in Solvers(submissions', c) \ Solvers(submissions, c) :
              \E h \in Handlers : /\ Save(h) /\ req[h].correct
                                  /\ req[h].challenge = c /\ Solver(Row(req[h])) = s
<1>1. CASE submissions' = submissions
  BY <1>1
<1>2. ASSUME NEW h \in Handlers, Save(h)
      PROVE  /\ Solvers(submissions, c) \subseteq Solvers(submissions', c)
             /\ \A s \in Solvers(submissions', c) \ Solvers(submissions, c) :
                  /\ req[h].correct /\ req[h].challenge = c /\ Solver(Row(req[h])) = s
  <2>1. /\ Solves(submissions', c) =
              Solves(submissions, c)
                \cup {i \in {Len(submissions) + 1} : req[h].challenge = c /\ req[h].correct}
        /\ \A i \in Solves(submissions, c) : submissions'[i] = submissions[i]
        /\ submissions'[Len(submissions) + 1] = Row(req[h])
    BY <1>2, SavedSolves, SavedRow
  <2>2. \A i \in Solves(submissions, c) : Solver(submissions'[i]) = Solver(submissions[i])
    BY <2>1
  <2>3. Solver(submissions'[Len(submissions) + 1]) = Solver(Row(req[h]))
    BY <2>1
  <2> QED
    BY <2>1, <2>2, <2>3 DEF Solvers
<1> QED
  BY <1>1, <1>2, TableMoves

\* api/solve.rs:87 and 117-130: as long as no handler is dropped and both kinds are
\* broadcast, whoever has a correct row has been announced or is being announced, even
\* when reads fail and whatever else is saved meanwhile. This is the safety half of
\* SolvesAnnounced.
THEOREM SolversAlwaysHeard ==
  ASSUME "abandon" \notin Faults, {"FirstBlood", "Solve"} \subseteq Broadcast
  PROVE  Spec => []SolversHeard
<1>1. Init => SolversHeard
  BY DEF Init, SolversHeard, Solvers, Solves
<1>2. TypeOK /\ SolversHeard /\ [Next]_vars => SolversHeard'
  <2> SUFFICES ASSUME TypeOK, SolversHeard, [Next]_vars,
                      NEW c \in Challenges, NEW s \in Solvers(submissions', c)
               PROVE  Heard(c, s)'
    BY DEF SolversHeard
  <2>1. CASE s \in Solvers(submissions, c)
    BY <2>1, HeardStays DEF SolversHeard
  <2>2. ASSUME NEW h \in Handlers, Save(h), req[h].correct, req[h].challenge = c,
               Solver(Row(req[h])) = s
        PROVE  Heard(c, s)'
    <3>1. pc'[h] = "announce" /\ req'[h] = req[h]
      BY <2>2 DEF Save, TypeOK
    <3>2. Row(req'[h]) = Row(req[h])
      BY <3>1
    <3> QED
      BY <2>2, <3>1, <3>2 DEF Heard
  <2> QED
    BY <2>1, <2>2, SolversMove
<1> QED
  BY <1>1, <1>2, TypeInit, TypeStep, PTL DEF Spec

\* Whoever is announced has a correct row for the challenge.
AnnouncedSolved == \A n \in announced : n.solver \in Solvers(submissions, n.challenge)

\* api/solve.rs:87 and 117-130: nobody is announced who has not solved the challenge,
\* whatever fails: the row is saved before the broadcast and no row is ever removed.
THEOREM AnnouncedAlwaysSolved == Spec => []AnnouncedSolved
<1>1. Init => OwnRowSaved /\ AnnouncedSolved
  BY DEF Init, OwnRowSaved, AnnouncedSolved
<1>2. TypeOK /\ OwnRowSaved /\ AnnouncedSolved /\ [Next]_vars => AnnouncedSolved'
  <2> SUFFICES ASSUME TypeOK, OwnRowSaved, AnnouncedSolved, [Next]_vars, NEW n \in announced'
               PROVE  n.solver \in Solvers(submissions', n.challenge)
    BY DEF AnnouncedSolved
  <2>1. Solvers(submissions, n.challenge) \subseteq Solvers(submissions', n.challenge)
    BY SolversMove
  <2>2. CASE n \in announced
    BY <2>1, <2>2 DEF AnnouncedSolved
  <2>3. ASSUME NEW h \in Handlers, Announce(h), n \notin announced
        PROVE  n.solver \in Solvers(submissions, n.challenge)
    <3>1. pc[h] = "announce" /\ n.challenge = req[h].challenge /\ n.solver = Solver(Row(req[h]))
      BY <2>3 DEF Announce, AnnounceTo
    <3> QED
      BY <3>1 DEF OwnRowSaved, Solvers
  <2> QED
    BY <2>1, <2>2, <2>3, AnnouncedMoves
<1> QED
  BY <1>1, <1>2, TypeInit, TypeStep, OwnRowStep, PTL DEF Spec
-----------------------------------------------------------------------------
\* services/solve.rs:180-244: what a row of team t is priced by, the accounts or
\* the teams that have solved the challenge.
Units(subs, rows, t) == IF t = NoTeam THEN AccountsIn(subs, rows) ELSE TeamsIn(subs, rows)

SolvedBy(subs, c, t) == Cardinality(Units(subs, Solves(subs, c), t))

TeamsLeft(r) == {p[1] : p \in r.solved_by}

\* The steps before a handler counts.
Uncounted == {"visibility", "attempts", "requirements", "match", "dedup", "count"}

\* The count a handler holds, with the teams it has still to look up, never
\* exceeds the solvers the table holds by then; the submission itself is added last.
Priced(h) ==
  LET r == req[h]
      n == SolvedBy(submissions, r.challenge, r.team)
  IN  /\ pc[h] \in Uncounted => r.count = 0
      /\ pc[h] \in {"teams", "consensus"} => r.team # NoTeam
      /\ pc[h] = "teams" =>
           IsFiniteSet(TeamsLeft(r)) /\ r.count + Cardinality(TeamsLeft(r)) <= n
      /\ pc[h] = "consensus" => r.count <= n
      /\ pc[h] = "save" => r.count <= n + 1

AllPriced == \A h \in Handlers : Priced(h)

\* The accounts and the teams of a set of rows are finitely many, and no fewer
\* when there are more rows.
LEMMA FiniteUnits ==
  ASSUME NEW subs \in Seq(Submission), NEW rows, rows \subseteq DOMAIN subs,
         NEW some, some \subseteq rows, NEW t
  PROVE  /\ IsFiniteSet(Units(subs, rows, t))
         /\ Cardinality(Units(subs, rows, t)) \in Nat /\ Cardinality(Units(subs, some, t)) \in Nat
         /\ Cardinality(Units(subs, some, t)) <= Cardinality(Units(subs, rows, t))
<1>1. IsFiniteSet(Units(subs, rows, t))
  BY FiniteRows, FiniteSolvers DEF Units
<1>2. Units(subs, some, t) \subseteq Units(subs, rows, t)
  BY DEF Units, AccountsIn, TeamsIn
<1> QED
  BY <1>1, <1>2, FS_Subset, FS_CardinalityType

\* The same rows have the same accounts and teams after an append.
LEMMA UnitsKept ==
  ASSUME NEW subs \in Seq(Submission), NEW s \in Submission,
         NEW rows, rows \subseteq DOMAIN subs, NEW t
  PROVE  Units(Append(subs, s), rows, t) = Units(subs, rows, t)
<1>1. \A i \in rows : Append(subs, s)[i] = subs[i]
  BY AppendRow
<1>2. AccountsIn(Append(subs, s), rows) = AccountsIn(subs, rows)
  BY <1>1 DEF AccountsIn
<1>3. TeamsIn(Append(subs, s), rows) = TeamsIn(subs, rows)
  BY <1>1 DEF TeamsIn
<1> QED
  BY <1>2, <1>3 DEF Units

\* The solvers of a challenge only become more.
LEMMA SolvedByGrows ==
  ASSUME TypeOK, [Next]_vars, NEW c, NEW t
  PROVE  /\ SolvedBy(submissions, c, t) \in Nat /\ SolvedBy(submissions', c, t) \in Nat
         /\ SolvedBy(submissions, c, t) <= SolvedBy(submissions', c, t)
<1>1. submissions \in Seq(Submission) /\ Solves(submissions, c) \subseteq DOMAIN submissions
  BY DEF TypeOK, Solves
<1>2. SolvedBy(submissions, c, t) \in Nat
  BY <1>1, FiniteUnits DEF SolvedBy
<1>3. ASSUME NEW h \in Handlers, Save(h)
      PROVE  /\ SolvedBy(submissions', c, t) \in Nat
             /\ SolvedBy(submissions, c, t) <= SolvedBy(submissions', c, t)
  <2> DEFINE old == Solves(submissions, c)
             now == Solves(submissions', c)
  <2>1. submissions' \in Seq(Submission) /\ now \subseteq DOMAIN submissions'
    BY TypeStep DEF TypeOK, Solves
  <2>2. old \subseteq now
    BY <1>3, SavedSolves
  <2>3. Units(submissions', old, t) = Units(submissions, old, t)
    <3>1. submissions' = Append(submissions, Row(req[h])) /\ Row(req[h]) \in Submission
      BY <1>3, SavedRow
    <3> HIDE DEF old
    <3> QED
      BY <1>1, <3>1, UnitsKept DEF old
  <2> HIDE DEF old, now
  <2>4. /\ Cardinality(Units(submissions', now, t)) \in Nat
        /\ Cardinality(Units(submissions', old, t)) <= Cardinality(Units(submissions', now, t))
    BY <2>1, <2>2, FiniteUnits
  <2> QED
    BY <2>3, <2>4 DEF SolvedBy, old, now
<1> QED
  BY <1>2, <1>3, TableMoves

\* Until it counts, a handler's count is what Receive set it to; a handler that
\* counts takes one of the counting steps, or is not the one that moved.
LEMMA CountingMoves ==
  ASSUME TypeOK, [Next]_vars, NEW h \in Handlers, pc'[h] # "idle"
  PROVE  \/ /\ pc'[h] \in Uncounted
            /\ pc[h] = "idle" => req'[h].count = 0
            /\ pc[h] # "idle" =>
                 /\ pc[h] \in Uncounted
                 /\ req'[h].count = req[h].count
         \/ CountTeams(h) \/ CountAccounts(h) \/ \E t \in Teams : CountTeam(h, t)
         \/ CountedTeams(h) \/ ReachConsensus(h) \/ Save(h)
         \/ pc'[h] = pc[h] /\ req'[h] = req[h]
<1> USE DEF Goto, TypeOK, Uncounted
<1>1. ASSUME NEW g \in Handlers, NEW a \in Accounts, NEW c \in Challenges,
             NEW f \in Flags, Receive(g, a, c, f), g = h
      PROVE  pc'[h] = "visibility" /\ pc[h] = "idle" /\ req'[h].count = 0
  BY <1>1 DEF Receive
<1>2. ASSUME NEW g \in Handlers,
             CheckVisibility(g) \/ CheckAttempts(g) \/ CheckRequirements(g), g = h
      PROVE  /\ pc[h] \in {"visibility", "attempts", "requirements"}
             /\ pc'[h] \in {"attempts", "requirements", "match"} /\ req'[h] = req[h]
  BY <1>2 DEF CheckVisibility, CheckAttempts, CheckRequirements
<1>3. ASSUME NEW g \in Handlers, MatchFlag(g) \/ CheckSolved(g), g = h
      PROVE  /\ pc[h] \in {"match", "dedup"} /\ pc'[h] \in {"dedup", "count"}
             /\ req'[h].count = req[h].count
  <2>1. /\ pc[h] \in {"match", "dedup"} /\ pc'[h] \in {"dedup", "count"}
        /\ req[h] \in Request /\ h \in DOMAIN req
    BY <1>3 DEF MatchFlag, CheckSolved
  <2>2. CASE MatchFlag(h)
    <3>1. PICK active \in ActiveFlags(req[h]) :
            LET part == FirstMatch(req[h].challenge, req[h].flag, active)
            IN  req' = [req EXCEPT ![h].active = active, ![h].part = part,
                                   ![h].correct = (part # 0)]
      BY <2>2 DEF MatchFlag
    <3> QED
      BY <2>1, <3>1 DEF Request
  <2>3. CASE CheckSolved(h)
    BY <2>1, <2>3 DEF CheckSolved, Request
  <2> QED
    BY <1>3, <2>1, <2>2, <2>3
<1>4. ASSUME NEW g \in Handlers, Announce(g) \/ Refuse(g) \/ Abandon(g)
      PROVE  g # h
  BY <1>4 DEF Announce, Refuse, Abandon, Finish
<1>5. ASSUME NEW g \in Handlers, g # h,
             \/ Progress(g) \/ Abandon(g)
             \/ \E a \in Accounts, c \in Challenges, f \in Flags : Receive(g, a, c, f)
      PROVE  pc'[h] = pc[h] /\ req'[h] = req[h]
  BY <1>5 DEF Progress, Receive, CheckVisibility, CheckAttempts,
       CheckRequirements, MatchFlag, CheckSolved, CountTeams, CountAccounts, CountTeam,
       CountedTeams, ReachConsensus, Save, Announce, Refuse, Abandon, Finish
<1>6. ASSUME Environment \/ UNCHANGED vars
      PROVE  pc'[h] = pc[h] /\ req'[h] = req[h]
  BY <1>6 DEF Environment, SetTeam, SpawnInstance, ExpireInstance, vars
<1> QED
  BY <1>1, <1>2, <1>3, <1>4, <1>5, <1>6 DEF Next, Progress

LEMMA PricedStep == TypeOK /\ AllPriced /\ [Next]_vars => AllPriced'
<1> USE DEF Uncounted
<1> SUFFICES ASSUME TypeOK, AllPriced, [Next]_vars, NEW h \in Handlers
             PROVE  Priced(h)'
  BY DEF AllPriced
<1> DEFINE r == req[h]
           n == SolvedBy(submissions, r.challenge, r.team)
           m == SolvedBy(submissions', r.challenge, r.team)
<1>1. Priced(h) /\ n \in Nat /\ m \in Nat /\ n <= m
  BY SolvedByGrows DEF AllPriced
<1>2. pc[h] # "idle" => r \in Request
  BY DEF TypeOK
<1>3. h \in DOMAIN req /\ h \in DOMAIN pc
  BY DEF TypeOK
<1>4. ASSUME CountTeams(h)
      PROVE  Priced(h)'
  <2> DEFINE solves == Solves(submissions, r.challenge)
             left   == {<<submissions[i].team, submissions[i].account>> :
                          i \in {j \in solves : submissions[j].team # NoTeam}}
  <2>1. /\ pc[h] = "count" /\ pc'[h] = "teams" /\ submissions' = submissions
        /\ r.team # NoTeam /\ r \in Request
        /\ req' = [req EXCEPT ![h].solved_by = left]
    BY <1>2, <1>3, <1>4 DEF CountTeams, Goto
  <2>2. /\ req'[h].challenge = r.challenge /\ req'[h].team = r.team
        /\ req'[h].count = r.count /\ req'[h].solved_by = left
    BY <1>3, <2>1 DEF Request
  <2>3. {p[1] : p \in left} = Units(submissions, solves, r.team)
    <3> DEFINE rows == {j \in solves : submissions[j].team # NoTeam}
    <3>1. TeamsIn(submissions, solves) = {submissions[i].team : i \in rows}
      BY DEF TeamsIn
    <3>2. ASSUME NEW i \in rows
          PROVE  submissions[i].team \in {p[1] : p \in left}
      <4>1. <<submissions[i].team, submissions[i].account>> \in left
        OBVIOUS
      <4> HIDE DEF left
      <4> QED
        BY <4>1
    <3>3. ASSUME NEW p \in left
          PROVE  p[1] \in {submissions[i].team : i \in rows}
      OBVIOUS
    <3> HIDE DEF left, rows
    <3> QED
      BY <2>1, <3>1, <3>2, <3>3 DEF Units
  <2>4. r.count = 0
    BY <1>1, <2>1 DEF Priced
  <2>5. /\ TeamsLeft(req'[h]) = Units(submissions, solves, r.team)
        /\ IsFiniteSet(Units(submissions, solves, r.team))
    BY <2>2, <2>3, FiniteUnits DEF TeamsLeft, Solves, TypeOK
  <2> HIDE DEF left
  <2> QED
    BY <1>1, <2>1, <2>2, <2>4, <2>5 DEF Priced, SolvedBy
<1>5. ASSUME CountAccounts(h)
      PROVE  Priced(h)'
  <2>1. /\ pc'[h] = "save" /\ submissions' = submissions /\ r.team = NoTeam /\ r \in Request
        /\ req' = [req EXCEPT ![h].count =
                     Cardinality(AccountsIn(submissions, Solves(submissions, r.challenge))) + 1]
    BY <1>2, <1>3, <1>5 DEF CountAccounts, Goto
  <2>2. /\ req'[h].challenge = r.challenge /\ req'[h].team = r.team
        /\ req'[h].count =
             Cardinality(AccountsIn(submissions, Solves(submissions, r.challenge))) + 1
    BY <1>3, <2>1 DEF Request
  <2>3. req'[h].count = n + 1
    BY <2>1, <2>2 DEF SolvedBy, Units
  <2> QED
    BY <1>1, <2>1, <2>2, <2>3 DEF Priced
<1>6. ASSUME NEW t \in Teams, CountTeam(h, t)
      PROVE  Priced(h)'
  <2>1. PICK counted \in BOOLEAN :
          req' = [req EXCEPT ![h].solved_by = {p \in @ : p[1] # t},
                             ![h].count = IF counted THEN @ + 1 ELSE @]
    BY <1>6 DEF CountTeam
  <2>2. /\ pc[h] = "teams" /\ pc'[h] = "teams" /\ submissions' = submissions /\ r \in Request
        /\ t \in TeamsLeft(r)
    BY <1>2, <1>3, <1>6 DEF CountTeam, Goto, TeamsLeft
  <2> DEFINE left == {p \in r.solved_by : p[1] # t}
             k    == IF counted THEN r.count + 1 ELSE r.count
  <2>3. req'[h] = [r EXCEPT !.solved_by = left, !.count = k]
    BY <1>3, <2>1, <2>2
  <2>4. TeamsLeft(req'[h]) = TeamsLeft(r) \ {t}
    <3>1. req'[h].solved_by = left
      BY <2>2, <2>3 DEF Request
    <3> QED
      BY <3>1 DEF TeamsLeft
  <2>5. k \in Nat /\ k <= r.count + 1 /\ r.count \in Nat
    BY <2>2 DEF Request
  <2> HIDE DEF left, k
  <2>6. req'[h].challenge = r.challenge /\ req'[h].team = r.team /\ req'[h].count = k
    BY <2>2, <2>3 DEF Request
  <2>7. IsFiniteSet(TeamsLeft(r)) /\ r.count + Cardinality(TeamsLeft(r)) <= n /\ r.team # NoTeam
    BY <1>1, <2>2 DEF Priced
  <2>8. /\ IsFiniteSet(TeamsLeft(r) \ {t})
        /\ Cardinality(TeamsLeft(r) \ {t}) = Cardinality(TeamsLeft(r)) - 1
        /\ Cardinality(TeamsLeft(r)) \in Nat
    BY <2>2, <2>7, FS_RemoveElement, FS_CardinalityType
  <2>9. k + Cardinality(TeamsLeft(r) \ {t}) <= n
    <3> HIDE DEF n, r
    <3> QED
      BY <1>1, <2>5, <2>7, <2>8
  <2> QED
    BY <2>2, <2>4, <2>6, <2>7, <2>8, <2>9 DEF Priced
<1>7. ASSUME CountedTeams(h)
      PROVE  Priced(h)'
  <2>1. /\ pc[h] = "teams" /\ pc'[h] = "consensus" /\ submissions' = submissions
        /\ req'[h] = r /\ r.solved_by = {} /\ r \in Request
    BY <1>2, <1>3, <1>7 DEF CountedTeams, Goto
  <2>2. Cardinality(TeamsLeft(r)) = 0
    <3>1. TeamsLeft(r) = {}
      BY <2>1 DEF TeamsLeft
    <3> QED
      BY <3>1, FS_EmptySet
  <2>3. r.count <= n /\ r.team # NoTeam
    BY <1>1, <2>1, <2>2 DEF Priced, Request
  <2> QED
    BY <2>1, <2>3 DEF Priced
<1>8. ASSUME ReachConsensus(h)
      PROVE  Priced(h)'
  <2>1. PICK reached \in BOOLEAN :
          req' = [req EXCEPT ![h].count = IF reached THEN @ + 1 ELSE @]
    BY <1>8 DEF ReachConsensus
  <2>2. pc[h] = "consensus" /\ pc'[h] = "save" /\ submissions' = submissions /\ r \in Request
    BY <1>2, <1>3, <1>8 DEF ReachConsensus, Goto
  <2>3. /\ req'[h].challenge = r.challenge /\ req'[h].team = r.team
        /\ req'[h].count = IF reached THEN r.count + 1 ELSE r.count
    BY <1>3, <2>1, <2>2 DEF Request
  <2>4. r.count <= n /\ r.count \in Nat
    BY <1>1, <2>2 DEF Priced, Request
  <2>5. req'[h].count <= n + 1
    <3> HIDE DEF n, r
    <3> QED
      BY <1>1, <2>3, <2>4
  <2> QED
    BY <2>2, <2>3, <2>5 DEF Priced
<1>9. ASSUME pc'[h] = pc[h] /\ req'[h] = r, pc[h] # "idle"
      PROVE  Priced(h)'
  <2>1. r.count \in Nat
    BY <1>2, <1>9 DEF Request
  <2>2. pc[h] = "teams" => Cardinality(TeamsLeft(r)) \in Nat
    BY <1>1, FS_CardinalityType DEF Priced
  <2>3. /\ pc[h] = "teams" => r.count + Cardinality(TeamsLeft(r)) <= m
        /\ pc[h] = "consensus" => r.count <= m
        /\ pc[h] = "save" => r.count <= m + 1
    <3>1. /\ pc[h] = "teams" => r.count + Cardinality(TeamsLeft(r)) <= n
          /\ pc[h] = "consensus" => r.count <= n
          /\ pc[h] = "save" => r.count <= n + 1
      BY <1>1 DEF Priced
    <3> HIDE DEF n, m, r
    <3> QED
      BY <1>1, <2>1, <2>2, <3>1
  <2> QED
    BY <1>1, <1>9, <2>3 DEF Priced
<1>10. CASE pc'[h] = "idle"
  BY <1>10 DEF Priced
<1>11. ASSUME Save(h)
       PROVE  Priced(h)'
  BY <1>3, <1>11 DEF Save, Finish, Priced
<1>12. ASSUME pc'[h] \in Uncounted,
              req'[h].count = 0
       PROVE  Priced(h)'
  BY <1>12 DEF Priced
<1>13. pc[h] \in Uncounted =>
         r.count = 0
  BY <1>1 DEF Priced
<1> QED
  BY <1>4, <1>5, <1>6, <1>7, <1>8, <1>9, <1>10, <1>11, <1>12, <1>13, CountingMoves

LEMMA UnderpaidStep ==
  TypeOK /\ AllPriced /\ NeverUnderpaid /\ [Next]_vars => NeverUnderpaid'
<1> SUFFICES ASSUME TypeOK, AllPriced, NeverUnderpaid, [Next]_vars
             PROVE  NeverUnderpaid'
  OBVIOUS
<1> DEFINE Before(subs, i) == {j \in Solves(subs, subs[i].challenge) : j < i}
           Fair(subs, i) ==
             subs[i].correct =>
               subs[i].count <= Cardinality(Units(subs, Before(subs, i), subs[i].team)) + 1
<1>1. NeverUnderpaid <=> \A i \in DOMAIN submissions : Fair(submissions, i)
  BY DEF NeverUnderpaid, Units
<1>2. NeverUnderpaid' <=> \A i \in DOMAIN submissions' : Fair(submissions', i)
  BY DEF NeverUnderpaid, Units
<1>3. ASSUME NEW h \in Handlers, Save(h), NEW i \in DOMAIN submissions'
      PROVE  Fair(submissions', i)
  <2> DEFINE new == Row(req[h])
  <2>1. /\ submissions \in Seq(Submission) /\ submissions' = Append(submissions, new)
        /\ new \in Submission /\ req[h] \in Request /\ pc[h] = "save"
        /\ DOMAIN submissions' = DOMAIN submissions \cup {Len(submissions) + 1}
        /\ submissions'[Len(submissions) + 1] = new
        /\ \A j \in DOMAIN submissions : submissions'[j] = submissions[j]
    BY <1>3, SavedRow
  <2>2. /\ new.challenge = req[h].challenge /\ new.team = req[h].team
        /\ new.correct => new.count = IF req[h].count = 0 THEN 1 ELSE req[h].count
    BY DEF Row
  <2> HIDE DEF new
  <2>3. CASE i \in DOMAIN submissions
    <3>1. submissions'[i] = submissions[i] /\ Fair(submissions, i)
      BY <1>1, <2>1, <2>3
    <3>2. Before(submissions', i) = Before(submissions, i)
      <4>1. i \in Nat /\ i <= Len(submissions) /\ Len(submissions) \in Nat
        BY <2>1, <2>3
      <4>2. ASSUME NEW c
            PROVE  {j \in Solves(submissions', c) : j < i} = {j \in Solves(submissions, c) : j < i}
        <5>1. Solves(submissions', c) =
                Solves(submissions, c)
                  \cup {k \in {Len(submissions) + 1} : new.challenge = c /\ new.correct}
          BY <2>1, SolvesAppend
        <5> QED
          BY <4>1, <5>1
      <4> QED
        BY <3>1, <4>2
    <3>3. Before(submissions, i) \subseteq DOMAIN submissions
      BY DEF Solves
    <3> HIDE DEF Before
    <3>4. \A t : Units(submissions', Before(submissions, i), t) =
                   Units(submissions, Before(submissions, i), t)
      BY <2>1, <3>3, UnitsKept
    <3> QED
      BY <3>1, <3>2, <3>4
  <2>4. CASE i \notin DOMAIN submissions
    <3>1. i = Len(submissions) + 1 /\ submissions'[i] = new
      BY <2>1, <2>4
    <3> DEFINE c == req[h].challenge
               t == req[h].team
    <3>2. Before(submissions', i) = Solves(submissions, c)
      <4>1. /\ Solves(submissions', c) =
                 Solves(submissions, c)
                   \cup {k \in {Len(submissions) + 1} : new.challenge = c /\ new.correct}
            /\ \A j \in Solves(submissions, c) : j \in Nat /\ j < Len(submissions) + 1
        BY <2>1, SolvesAppend
      <4> QED
        BY <2>2, <3>1, <4>1
    <3>3. Units(submissions', Solves(submissions, c), t) =
            Units(submissions, Solves(submissions, c), t)
      BY <2>1, UnitsKept DEF Solves
    <3>4. req[h].count <= SolvedBy(submissions, c, t) + 1
      BY <2>1 DEF AllPriced, Priced
    <3>5. SolvedBy(submissions, c, t) \in Nat /\ req[h].count \in Nat
      BY <2>1, SolvedByGrows DEF Request
    <3>6. new.correct => new.count <= SolvedBy(submissions, c, t) + 1
      <4> HIDE DEF c, t
      <4> QED
        BY <2>2, <3>4, <3>5
    <3> HIDE DEF Before
    <3> QED
      BY <2>2, <3>1, <3>2, <3>3, <3>6 DEF SolvedBy
  <2> QED
    BY <2>3, <2>4
<1>4. CASE submissions' = submissions
  BY <1>1, <1>2, <1>4
<1> QED
  BY <1>2, <1>3, <1>4, TableMoves

\* services/solve.rs:180-244: whatever solves are saved, teams change and reads
\* fail while a handler counts, it never counts more solvers than the table holds.
THEOREM NeverUnderpaidAlways == Spec => []NeverUnderpaid
<1>1. Init => AllPriced /\ NeverUnderpaid
  <2> SUFFICES ASSUME Init
               PROVE  AllPriced /\ NeverUnderpaid
    OBVIOUS
  <2>1. DOMAIN submissions = {} /\ \A h \in Handlers : pc[h] = "idle"
    BY DEF Init
  <2> QED
    BY <2>1 DEF AllPriced, Priced, Uncounted, NeverUnderpaid
<1> QED
  BY <1>1, TypeInit, TypeStep, PricedStep, UnderpaidStep, PTL DEF Spec
=============================================================================
