-------------------------- MODULE Scoreboard_proofs --------------------------
(***************************************************************************)
(* Proofs about the scoreboard and its export, for any teams, challenges,   *)
(* settings, brackets and freeze, whatever lands and whoever changes team   *)
(* between the reads of a request.                                          *)
(***************************************************************************)
EXTENDS Scoreboard, Scoring_proofs

\* A finite set of natural numbers has a largest one.
LEMMA MaxNat ==
  ASSUME NEW S, IsFiniteSet(S)
  PROVE  S \subseteq Nat /\ S # {} => Max(S) \in S /\ \A x \in S : x <= Max(S)
<1>0. ASSUME NEW Bad \in SUBSET SUBSET S, Bad # {}
      PROVE  \E s \in Bad : \A r \in Bad : r \subseteq s => r = s
  BY <1>0, MinimalSet
<1> SUFFICES ASSUME S \subseteq Nat, S # {}
             PROVE  Max(S) \in S /\ \A x \in S : x <= Max(S)
  OBVIOUS
<1> DEFINE Bad == {s \in SUBSET S : s # {} /\ ~ \E x \in s : \A y \in s : y <= x}
<1>1. ASSUME Bad # {}
      PROVE  FALSE
  <2>1. PICK s \in Bad : \A r \in Bad : r \subseteq s => r = s
    <3>1. Bad \in SUBSET SUBSET S
      OBVIOUS
    <3> HIDE DEF Bad
    <3> QED
      BY <1>0, <1>1, <3>1
  <2>2. s \in SUBSET S /\ s # {} /\ ~ \E x \in s : \A y \in s : y <= x
    OBVIOUS
  <2>3. PICK z \in s : TRUE
    BY <2>2
  <2>4. s \ {z} # {}
    BY <2>2, <2>3
  <2>5. PICK x \in s \ {z} : \A y \in s \ {z} : y <= x
    <3>1. s \ {z} \subseteq s /\ s \ {z} # s /\ s \ {z} \in SUBSET S
      BY <2>2, <2>3
    <3>2. s \ {z} \notin Bad
      BY <2>1, <3>1
    <3> QED  BY <2>4, <3>1, <3>2
  <2>6. x \in Nat /\ z \in Nat
    BY <2>2, <2>5
  <2>7. CASE z <= x
    BY <2>2, <2>5, <2>7
  <2>8. CASE x <= z
    <3>1. \A y \in s : y <= z
      <4> SUFFICES ASSUME NEW y \in s  PROVE y <= z
        OBVIOUS
      <4>1. y \in Nat /\ (y = z \/ y <= x)
        BY <2>2, <2>5
      <4> QED  BY <2>6, <2>8, <4>1
    <3> QED  BY <2>2, <3>1
  <2> QED  BY <2>6, <2>7, <2>8
<1>2. \E x \in S : \A y \in S : x >= y
  <2>1. S \notin Bad
    BY <1>1
  <2>2. PICK x \in S : \A y \in S : y <= x
    BY <2>1
  <2> QED  BY <2>2
<1>3. Max(S) \in S /\ \A y \in S : Max(S) >= y
  BY <1>2 DEF Max
<1> QED  BY <1>3

\* One of two integers is the larger.
LEMMA MaxTwo ==
  ASSUME NEW a \in Int, NEW b \in Int
  PROVE  Max({a, b}) = IF a >= b THEN a ELSE b
<1>1. \E x \in {a, b} : \A y \in {a, b} : x >= y
  OBVIOUS
<1>2. Max({a, b}) \in {a, b} /\ \A y \in {a, b} : Max({a, b}) >= y
  BY <1>1 DEF Max
<1> QED  BY <1>2

\* apply_hint_deduction gives an integer, and takes no less for a higher cost.
LEMMA DeductedLess ==
  ASSUME NEW points \in Nat, NEW less \in Nat, NEW more \in Nat, less <= more
  PROVE  /\ Deducted(points, less) \in Int
         /\ Deducted(points, more) \in Int
         /\ Deducted(points, more) <= Deducted(points, less)
<1>1. points - less \in Int /\ points - more \in Int /\ points - more <= points - less
  OBVIOUS
<1>2. /\ Max({points - less, 0}) = IF points - less >= 0 THEN points - less ELSE 0
      /\ Max({points - more, 0}) = IF points - more >= 0 THEN points - more ELSE 0
  BY <1>1, MaxTwo
<1> QED  BY <1>1, <1>2 DEF Deducted
-----------------------------------------------------------------------------
\* Rows of the submissions table, all of them or some.
Rows(subs) == IsFiniteSet(DOMAIN subs) /\ \A k \in DOMAIN subs : subs[k] \in Row

\* What was stamped before the freeze, row by row.
LEMMA UnfrozenAt ==
  ASSUME NEW rows
  PROVE  /\ DOMAIN Unfrozen(rows) = {k \in DOMAIN rows : rows[k].time < Freeze}
         /\ \A k \in DOMAIN Unfrozen(rows) : k \in DOMAIN rows /\ Unfrozen(rows)[k] = rows[k]
BY DEF Unfrozen

\* The table is such rows, and so is what was stamped before the freeze.
LEMMA UnfrozenRows ==
  ASSUME NEW subs \in Seq(Row)
  PROVE  Rows(subs) /\ Rows(Unfrozen(subs))
<1>1. Rows(subs)
  BY SeqFinite DEF Rows
<1>2. DOMAIN Unfrozen(subs) \subseteq DOMAIN subs
  BY UnfrozenAt
<1>3. IsFiniteSet(DOMAIN Unfrozen(subs))
  <2>1. IsFiniteSet(DOMAIN subs)
    BY <1>1 DEF Rows
  <2> QED  BY <1>2, <2>1, FS_Subset, Zenon
<1>4. \A k \in DOMAIN Unfrozen(subs) : Unfrozen(subs)[k] \in Row
  BY <1>1, UnfrozenAt DEF Rows
<1> QED  BY <1>1, <1>3, <1>4 DEF Rows

\* So with the unlocks.
LEMMA UnfrozenPriced ==
  ASSUME NEW unl \in Seq(Unlock)
  PROVE  Priced(unl) /\ Priced(Unfrozen(unl))
<1>1. IsFiniteSet(DOMAIN unl)
  BY SeqFinite
<1>2. \A k \in DOMAIN unl : unl[k].cost \in Nat
  <2>1. \A k \in DOMAIN unl : unl[k] \in Unlock
    OBVIOUS
  <2> QED  BY <2>1 DEF Unlock
<1>3. DOMAIN Unfrozen(unl) \subseteq DOMAIN unl
  BY UnfrozenAt
<1>4. IsFiniteSet(DOMAIN Unfrozen(unl))
  BY <1>1, <1>3, FS_Subset, Zenon
<1>5. \A k \in DOMAIN Unfrozen(unl) : Unfrozen(unl)[k].cost \in Nat
  BY <1>2, UnfrozenAt
<1> QED  BY <1>1, <1>2, <1>4, <1>5 DEF Priced

\* A row by which a team has scored is a correct one of its own.
LEMMA ScoredBy ==
  ASSUME NEW subs, NEW t, NEW members, NEW c, NEW i, Scored(subs, t, members, c, i)
  PROVE  \E k \in RowsFor(subs, t, c, i) :
           /\ k \in DOMAIN subs
           /\ subs[k].challenge = c /\ subs[k].team = t /\ subs[k].correct
<1>1. RowsFor(subs, t, c, i) # {}
  BY DEF Scored, AccountsIn
<1> QED  BY <1>1 DEF RowsFor, Solves

\* The time of the last of them is a time.
LEMMA LastSolveTyped ==
  ASSUME NEW subs, Rows(subs), NEW t, NEW members
  PROVE  LastSolveTime(subs, t, members) \in Nat \cup {Never}
<1> DEFINE rows  == ScoringRows(subs, t, members)
           times == {subs[k].time : k \in rows}
<1>1. rows \subseteq DOMAIN subs
  BY DEF ScoringRows, RowsFor, Solves
<1>2. IsFiniteSet(rows)
  BY <1>1, FS_Subset, Zenon DEF Rows
<1>3. IsFiniteSet(times)
  <2> DEFINE f == [k \in rows |-> subs[k].time]
  <2>1. f \in Surjection(rows, times)
    BY DEF Surjection
  <2> HIDE DEF f, rows, times
  <2> QED  BY <1>2, <2>1, FS_Surjection, Zenon
<1>4. times \subseteq Nat
  <2> HIDE DEF rows
  <2> QED  BY <1>1 DEF Rows, Row
<1>5. rows # {} => Max(times) \in times
  <2>1. rows # {} => times # {}
    OBVIOUS
  <2> HIDE DEF rows, times
  <2> QED  BY <1>3, <1>4, <2>1, MaxNat
<1>6. LastSolveTime(subs, t, members) = IF rows = {} THEN Never ELSE Max(times)
  BY DEF LastSolveTime
<1> HIDE DEF rows, times
<1> QED  BY <1>4, <1>5, <1>6

\* No accuracy has nothing in its denominator.
LEMMA AccuracyTyped ==
  ASSUME NEW subs, Rows(subs), NEW t
  PROVE  /\ Accuracy(subs, t) \in Nat \X Nat
         /\ Accuracy(subs, t)[2] > 0
<1> DEFINE mine == {k \in DOMAIN subs : subs[k].team = t}
<1>1. mine \subseteq DOMAIN subs /\ CorrectIn(subs, mine) \subseteq mine
  BY DEF CorrectIn
<1>2. IsFiniteSet(mine) /\ IsFiniteSet(CorrectIn(subs, mine))
  <2>1. IsFiniteSet(DOMAIN subs)
    BY DEF Rows
  <2> HIDE DEF mine
  <2>2. IsFiniteSet(mine)
    BY <1>1, <2>1, FS_Subset, Zenon
  <2> QED  BY <1>1, <2>2, FS_Subset, Zenon
<1>3. Cardinality(mine) \in Nat /\ Cardinality(CorrectIn(subs, mine)) \in Nat
  <2> HIDE DEF mine
  <2> QED  BY <1>2, FS_CardinalityType, Zenon
<1>4. mine # {} => Cardinality(mine) # 0
  <2> HIDE DEF mine
  <2> QED  BY <1>2, FS_EmptySet, Zenon
<1>5. Accuracy(subs, t) = IF mine = {} THEN <<1, 1>>
                          ELSE <<Cardinality(CorrectIn(subs, mine)), Cardinality(mine)>>
  BY DEF Accuracy
<1> HIDE DEF mine
<1> QED  BY <1>3, <1>4, <1>5

\* An entry computed from any tables and members is one.
LEMMA EntryTyped ==
  ASSUME NEW subs \in Seq(Row), NEW unl \in Seq(Unlock), NEW t \in Teams, NEW members
  PROVE  /\ Entry(subs, unl, t, members) \in ScoreboardEntry
         /\ Entry(subs, unl, t, members).accuracy[2] > 0
<1> DEFINE s == Unfrozen(subs)
           u == Unfrozen(unl)
<1>1. Rows(s) /\ IsFiniteSet(DOMAIN s) /\ Priced(u)
  BY UnfrozenRows, UnfrozenPriced DEF Rows
<1> HIDE DEF s, u
<1>2. SolvePoints(s, t, members) \in Nat
  BY <1>1, FiniteScore
<1>3. TotalCost(u, t, NoTeam) \in Nat
  BY <1>1, FiniteCost
<1>4. Deducted(SolvePoints(s, t, members), TotalCost(u, t, NoTeam)) \in Int
  <2>1. TotalCost(u, t, NoTeam) <= TotalCost(u, t, NoTeam)
    BY <1>3
  <2> QED  BY <1>2, <1>3, <2>1, DeductedLess
<1>5. LastSolveTime(s, t, members) \in Nat \cup {Never}
  BY <1>1, LastSolveTyped
<1>6. Accuracy(s, t) \in Nat \X Nat /\ Accuracy(s, t)[2] > 0
  BY <1>1, AccuracyTyped
<1>7. SolvedIds(s, t, members) \in SUBSET Challenges
  BY DEF SolvedIds
<1>8. Entry(subs, unl, t, members) =
        [points |-> Deducted(SolvePoints(s, t, members), TotalCost(u, t, NoTeam)),
         last_solve_time |-> LastSolveTime(s, t, members),
         accuracy |-> Accuracy(s, t), solves |-> SolvedIds(s, t, members)]
  BY DEF Entry, s, u
<1> QED  BY <1>4, <1>5, <1>6, <1>7, <1>8 DEF ScoreboardEntry
-----------------------------------------------------------------------------
Steps == {"idle", "members", "submissions", "unlocks", "served", "exported"}

\* The tables are typed, and so is what the request has read; it holds what the step it
\* has come to needs.
Shape ==
  /\ now \in 0..MaxTime
  /\ submissions \in Seq(Row)
  /\ unlocks \in Seq(Unlock)
  /\ team_of \in [Accounts -> Teams \cup {NoTeam}]
  /\ pc \in Steps
  /\ view \in View
  /\ view.subs <= Len(submissions)
  /\ moved \in BOOLEAN
  /\ pc = "idle" => view = NoView
  /\ pc \in {"submissions", "unlocks"} => DOMAIN view.members = Teams
  /\ pc \in {"members", "submissions", "unlocks"} => DOMAIN view.board = {}
  /\ pc = "served" => DOMAIN view.board = view.shown

\* The fields of a view.
LEMMA ViewFields ==
  ASSUME NEW v \in View
  PROVE  /\ v.shown \in SUBSET Teams
         /\ v.members \in UNION {[T -> SUBSET Accounts] : T \in SUBSET Teams}
         /\ v.subs \in Nat
         /\ v.had \in [Teams -> Int]
         /\ v.board \in UNION {[T -> ScoreboardEntry] : T \in SUBSET Teams}
         /\ v.stats \in UNION {[T -> SUBSET (Challenges \X Nat)] : T \in SUBSET Teams}
BY DEF View

\* And what they are functions of.
LEMMA ViewDomains ==
  ASSUME NEW v \in View
  PROVE  /\ DOMAIN v.members \subseteq Teams
         /\ \A t \in DOMAIN v.members : v.members[t] \in SUBSET Accounts
         /\ DOMAIN v.board \subseteq Teams
         /\ \A t \in DOMAIN v.board : v.board[t] \in ScoreboardEntry
         /\ DOMAIN v.stats \subseteq Teams
<1>1. PICK T \in SUBSET Teams : v.members \in [T -> SUBSET Accounts]
  BY ViewFields
<1>2. PICK B \in SUBSET Teams : v.board \in [B -> ScoreboardEntry]
  BY ViewFields
<1>3. PICK S \in SUBSET Teams : v.stats \in [S -> SUBSET (Challenges \X Nat)]
  <2>1. v.stats \in UNION {[U -> SUBSET (Challenges \X Nat)] : U \in SUBSET Teams}
    BY ViewFields
  <2> QED  BY <2>1
<1> QED  BY <1>1, <1>2, <1>3

\* Nothing has been read.
LEMMA NoViewTyped == NoView \in View
<1>1. <<>> \in [{} -> SUBSET Accounts]
  OBVIOUS
<1>2. <<>> \in [{} -> ScoreboardEntry]
  OBVIOUS
<1>3. <<>> \in [{} -> SUBSET (Challenges \X Nat)]
  OBVIOUS
<1>4. [t \in Teams |-> 0] \in [Teams -> Int]
  OBVIOUS
<1> QED  BY <1>1, <1>2, <1>3, <1>4 DEF NoView, View

LEMMA ShapeInit == BoardInit => Shape
<1> SUFFICES ASSUME BoardInit
             PROVE  Shape
  OBVIOUS
<1>1. now \in 0..MaxTime
  BY ScoreboardAssumption DEF BoardInit
<1>2. view = NoView /\ view \in View /\ view.subs = 0
  BY NoViewTyped DEF BoardInit, NoView
<1>3. submissions = <<>> /\ unlocks = <<>>
  BY DEF BoardInit
<1>4. submissions \in Seq(Row) /\ unlocks \in Seq(Unlock) /\ view.subs <= Len(submissions)
  BY <1>2, <1>3
<1>5. pc = "idle" /\ team_of \in [Accounts -> Teams \cup {NoTeam}] /\ moved \in BOOLEAN
  BY DEF BoardInit
<1> QED  BY <1>1, <1>2, <1>4, <1>5 DEF Shape, Steps

\* What a correct submission, or any other, adds is a row.
LEMMA RowTyped ==
  ASSUME Shape, NEW a \in Accounts, NEW c \in Challenges, NEW f \in Flags, NEW at \in Stamps
  PROVE  [challenge |-> c, team |-> team_of[a], account |-> a, flag |-> f,
          correct |-> FirstMatch(c, f, NoFlag) # 0, time |-> at] \in Row
<1>1. team_of[a] \in Teams \cup {NoTeam} /\ at \in Nat
  BY DEF Shape, Stamps
<1>2. (FirstMatch(c, f, NoFlag) # 0) \in BOOLEAN
  OBVIOUS
<1> QED  BY <1>1, <1>2 DEF Row

LEMMA SubmitStep ==
  ASSUME Shape, NEW a \in Accounts, NEW c \in Challenges, NEW f \in Flags, NEW at \in Stamps,
         Submit(a, c, f, at)
  PROVE  /\ Shape'
         /\ UNCHANGED <<now, unlocks, team_of, pc, view, moved>>
         /\ \E r \in Row : submissions' = Append(submissions, r) /\ r.team = team_of[a]
<1> DEFINE r == [challenge |-> c, team |-> team_of[a], account |-> a, flag |-> f,
                 correct |-> FirstMatch(c, f, NoFlag) # 0, time |-> at]
<1>1. r \in Row
  BY RowTyped
<1>2. r.team = team_of[a]
  OBVIOUS
<1>3. /\ submissions' = Append(submissions, r)
      /\ UNCHANGED <<now, unlocks, team_of, pc, view, moved>>
  BY DEF Submit
<1> HIDE DEF r
<1>4. submissions' \in Seq(Row) /\ Len(submissions') = Len(submissions) + 1
      /\ Len(submissions) \in Nat
  BY <1>1, <1>3 DEF Shape
<1>5. view.subs \in Nat
  BY ViewFields DEF Shape
<1>6. view'.subs <= Len(submissions')
  BY <1>3, <1>4, <1>5 DEF Shape
<1>7. Shape'
  BY <1>3, <1>4, <1>6 DEF Shape
<1> QED  BY <1>1, <1>2, <1>3, <1>7

LEMMA UnlockStep ==
  ASSUME Shape, NEW t \in Teams, NEW at \in Stamps, UnlockHint(t, at)
  PROVE  /\ Shape'
         /\ UNCHANGED <<now, submissions, team_of, pc, view, moved>>
         /\ \E u \in Unlock : unlocks' = Append(unlocks, u)
<1> DEFINE u == [team |-> t, cost |-> HintCost, time |-> at]
<1>1. u \in Unlock
  BY ScoreboardAssumption DEF Unlock, Stamps, Shape
<1>2. /\ unlocks' = Append(unlocks, u)
      /\ UNCHANGED <<now, submissions, team_of, pc, view, moved>>
  BY DEF UnlockHint
<1> HIDE DEF u
<1>3. unlocks' \in Seq(Unlock)
  BY <1>1, <1>2 DEF Shape
<1>4. Shape'
  BY <1>2, <1>3 DEF Shape
<1> QED  BY <1>1, <1>2, <1>4

LEMMA SetTeamStep ==
  ASSUME Shape, NEW a \in Accounts, NEW t \in Teams, SetTeam(a, t)
  PROVE  /\ Shape'
         /\ UNCHANGED <<now, submissions, unlocks, pc, view>>
         /\ moved' = (pc # "idle")
<1>1. /\ team_of' = [team_of EXCEPT ![a] = t] /\ moved' = (pc # "idle")
      /\ UNCHANGED <<now, submissions, unlocks, pc, view>>
  BY DEF SetTeam
<1>2. team_of' \in [Accounts -> Teams \cup {NoTeam}] /\ moved' \in BOOLEAN
  BY <1>1 DEF Shape
<1> QED  BY <1>1, <1>2 DEF Shape

LEMMA TickStep ==
  ASSUME Shape, BoardTick
  PROVE  Shape' /\ UNCHANGED <<submissions, unlocks, team_of, pc, view, moved>>
<1>1. now' \in 0..MaxTime
  BY ScoreboardAssumption DEF BoardTick, Shape
<1>2. UNCHANGED <<submissions, unlocks, team_of, pc, view, moved>>
  BY DEF BoardTick
<1> QED  BY <1>1, <1>2 DEF Shape
-----------------------------------------------------------------------------
\* The steps of the request. The tables stay as they are.
Reads == UNCHANGED <<now, submissions, unlocks, team_of>>

LEMMA ReadTeamsStep ==
  ASSUME Shape, NEW shown \in Brackets \cup {Teams}, ReadTeams(shown)
  PROVE  /\ Shape' /\ Reads /\ moved' = moved
         /\ pc' = "members" /\ view'.members = <<>> /\ view'.board = <<>> /\ view'.stats = <<>>
<1>1. shown \in SUBSET Teams
  BY ScoreboardAssumption
<1>2. view' = [NoView EXCEPT !.shown = shown] /\ pc' = "members" /\ Reads /\ moved' = moved
  BY DEF ReadTeams, BoardGoto, tables, Reads
<1>3. /\ view' = [shown |-> shown, members |-> <<>>, subs |-> 0,
                  had |-> [t \in Teams |-> 0], board |-> <<>>, stats |-> <<>>]
  BY <1>2 DEF NoView
<1>4. view' \in View
  <2>1. /\ NoView.members = <<>> /\ NoView.board = <<>> /\ NoView.stats = <<>>
        /\ NoView.had = [t \in Teams |-> 0]
    BY DEF NoView
  <2>2. /\ <<>> \in UNION {[T -> SUBSET Accounts] : T \in SUBSET Teams}
        /\ <<>> \in UNION {[T -> ScoreboardEntry] : T \in SUBSET Teams}
        /\ <<>> \in UNION {[T -> SUBSET (Challenges \X Nat)] : T \in SUBSET Teams}
        /\ [t \in Teams |-> 0] \in [Teams -> Int]
    BY <2>1, NoViewTyped, ViewFields
  <2> QED  BY <1>1, <1>3, <2>2 DEF View
<1>5. view'.subs = 0 /\ Len(submissions) \in Nat
  BY <1>3 DEF Shape
<1> QED  BY <1>2, <1>3, <1>4, <1>5 DEF Shape, Reads, Steps

LEMMA ReadMembersStep ==
  ASSUME Shape, NEW t \in Teams, ReadMembers(t)
  PROVE  /\ Shape' /\ Reads /\ moved' = moved
         /\ pc = "members" /\ pc' \in {"members", "submissions"}
         /\ view' = [view EXCEPT !.members = view'.members]
         /\ DOMAIN view'.members = DOMAIN view.members \cup {t}
         /\ \A u \in DOMAIN view.members : view'.members[u] = view.members[u]
         /\ view'.members[t] = Members(t)
<1> DEFINE m == [u \in DOMAIN view.members \cup {t} |->
                   IF u = t THEN Members(t) ELSE view.members[u]]
<1>1. /\ t \notin DOMAIN view.members /\ view' = [view EXCEPT !.members = m]
      /\ pc = "members" /\ Reads /\ moved' = moved
      /\ pc' = IF DOMAIN view'.members = Teams THEN "submissions" ELSE "members"
  BY DEF ReadMembers, BoardGoto, tables, Reads
<1>2. view \in View /\ DOMAIN view.members \subseteq Teams
      /\ \A u \in DOMAIN view.members : view.members[u] \in SUBSET Accounts
  BY ViewDomains DEF Shape
<1>3. \A u \in DOMAIN view.members : m[u] = view.members[u]
  BY <1>1
<1>4. Members(t) \in SUBSET Accounts
  BY DEF Members
<1>5. m \in [DOMAIN view.members \cup {t} -> SUBSET Accounts] /\ m[t] = Members(t)
  BY <1>2, <1>4
<1> HIDE DEF m
<1>6. m \in UNION {[T -> SUBSET Accounts] : T \in SUBSET Teams}
  <2>1. DOMAIN view.members \cup {t} \in SUBSET Teams
    BY <1>2
  <2> QED  BY <1>5, <2>1
<1>7. view' \in View /\ view'.members = m /\ view'.subs = view.subs
  BY <1>1, <1>2, <1>6 DEF View
<1>8. Shape'
  BY <1>1, <1>7 DEF Shape, Reads, Steps
<1> QED  BY <1>1, <1>3, <1>5, <1>7, <1>8

LEMMA ReadSubmissionsStep ==
  ASSUME Shape, ReadSubmissions
  PROVE  /\ Shape' /\ Reads /\ moved' = moved
         /\ pc = "submissions" /\ pc' = "unlocks"
         /\ view' = [view EXCEPT !.subs = Len(submissions),
                                 !.had = [t \in Teams |-> Current(t).points]]
<1>1. /\ Reads /\ moved' = moved /\ pc = "submissions" /\ pc' = "unlocks"
      /\ view' = [view EXCEPT !.subs = Len(submissions),
                              !.had = [t \in Teams |-> Current(t).points]]
  BY DEF ReadSubmissions, BoardGoto, tables, Reads
<1>2. \A t \in Teams : Current(t).points \in Int
  <2>1. \A t \in Teams : Current(t) \in ScoreboardEntry
    BY EntryTyped DEF Current, Shape
  <2> QED  BY <2>1 DEF ScoreboardEntry
<1> DEFINE h == [t \in Teams |-> Current(t).points]
<1>3. h \in [Teams -> Int]
  BY <1>2
<1> HIDE DEF h
<1>4. Len(submissions) \in Nat /\ view \in View
  BY DEF Shape
<1>5. view' = [view EXCEPT !.subs = Len(submissions), !.had = h]
  BY <1>1 DEF h
<1>6. view' \in View /\ view'.subs = Len(submissions) /\ view'.members = view.members
  BY <1>3, <1>4, <1>5 DEF View
<1>7. Shape'
  BY <1>1, <1>4, <1>6 DEF Shape, Reads, Steps
<1> QED  BY <1>1, <1>7

\* The table as a request has read it.
LEMMA TableRead ==
  ASSUME Shape
  PROVE  /\ SubSeq(submissions, 1, view.subs) \in Seq(Row)
         /\ Len(SubSeq(submissions, 1, view.subs)) = view.subs
         /\ \A k \in DOMAIN SubSeq(submissions, 1, view.subs) :
              k \in DOMAIN submissions /\ SubSeq(submissions, 1, view.subs)[k] = submissions[k]
<1>1. view.subs \in Nat /\ view.subs <= Len(submissions) /\ submissions \in Seq(Row)
  BY ViewFields DEF Shape
<1> QED  BY <1>1

\* The entry of a team in the board a request is about to compute.
NewEntry(t) == Entry(SubSeq(submissions, 1, view.subs), unlocks, t, view.members[t])

LEMMA ReadUnlocksStep ==
  ASSUME Shape, ReadUnlocks
  PROVE  /\ Shape' /\ Reads /\ moved' = moved
         /\ pc = "unlocks" /\ pc' = "served"
         /\ view'.members = <<>> /\ view'.had = view.had /\ view'.stats = view.stats
         /\ view'.board = [t \in view.shown |-> NewEntry(t)]
         /\ \A t \in view.shown : t \in Teams /\ NewEntry(t).accuracy[2] > 0
<1> DEFINE b == [t \in view.shown |-> NewEntry(t)]
<1>1. /\ Reads /\ moved' = moved /\ pc = "unlocks" /\ pc' = "served"
      /\ view' = [view EXCEPT !.board = b, !.members = <<>>, !.subs = 0]
  BY DEF ReadUnlocks, BoardGoto, tables, Reads, NewEntry
<1>2. view \in View /\ view.shown \in SUBSET Teams
  BY ViewFields DEF Shape
<1>3. \A t \in Teams : NewEntry(t) \in ScoreboardEntry /\ NewEntry(t).accuracy[2] > 0
  BY TableRead, EntryTyped DEF NewEntry, Shape
<1>4. b \in UNION {[T -> ScoreboardEntry] : T \in SUBSET Teams} /\ DOMAIN b = view.shown
  <2>1. b \in [view.shown -> ScoreboardEntry]
    BY <1>2, <1>3
  <2> HIDE DEF b
  <2> QED  BY <1>2, <2>1
<1> HIDE DEF b
<1>5. <<>> \in UNION {[T -> SUBSET Accounts] : T \in SUBSET Teams}
  <2>1. NoView.members = <<>>
    BY DEF NoView
  <2> QED  BY <2>1, NoViewTyped, ViewFields
<1>6. /\ view' \in View /\ view'.members = <<>> /\ view'.board = b /\ view'.subs = 0
      /\ view'.had = view.had /\ view'.stats = view.stats /\ view'.shown = view.shown
  BY <1>1, <1>2, <1>4, <1>5 DEF View
<1>7. Shape'
  BY <1>1, <1>4, <1>6 DEF Shape, Reads, Steps
<1> QED  BY <1>1, <1>2, <1>3, <1>6, <1>7 DEF b

LEMMA ReadStatsStep ==
  ASSUME Shape, ReadStats
  PROVE  /\ Shape' /\ Reads /\ moved' = moved
         /\ pc = "served" /\ pc' = "exported"
         /\ view'.members = view.members /\ view'.had = view.had /\ view'.board = view.board
         /\ view'.stats = [t \in view.shown |-> TaskStats(submissions, t)]
         /\ DOMAIN view.board = view.shown
<1> DEFINE s == [t \in view.shown |-> TaskStats(submissions, t)]
<1>1. /\ Reads /\ moved' = moved /\ pc = "served" /\ pc' = "exported"
      /\ view' = [view EXCEPT !.stats = s]
  BY DEF ReadStats, BoardGoto, tables, Reads
<1>2. view \in View /\ view.shown \in SUBSET Teams /\ DOMAIN view.board = view.shown
  BY <1>1, ViewFields DEF Shape
<1>3. \A t \in Teams : TaskStats(submissions, t) \in SUBSET (Challenges \X Nat)
  <2>1. \A k \in DOMAIN submissions :
          submissions[k].challenge \in Challenges /\ submissions[k].time \in Nat
    <3>1. \A k \in DOMAIN submissions : submissions[k] \in Row
      BY DEF Shape
    <3> QED  BY <3>1 DEF Row
  <2> QED  BY <2>1 DEF TaskStats
<1>4. s \in UNION {[T -> SUBSET (Challenges \X Nat)] : T \in SUBSET Teams}
  <2>1. s \in [view.shown -> SUBSET (Challenges \X Nat)]
    BY <1>2, <1>3
  <2> HIDE DEF s
  <2> QED  BY <1>2, <2>1
<1> HIDE DEF s
<1>5. /\ view' \in View /\ view'.stats = s /\ view'.subs = view.subs
      /\ view'.members = view.members /\ view'.had = view.had /\ view'.board = view.board
  BY <1>1, <1>2, <1>4 DEF View
<1>6. Shape'
  BY <1>1, <1>5 DEF Shape, Reads, Steps
<1> QED  BY <1>1, <1>2, <1>5, <1>6 DEF s

LEMMA FinishStep ==
  ASSUME Shape, Finish
  PROVE  Shape' /\ Reads /\ pc' = "idle" /\ view' = NoView /\ moved' = FALSE
<1>1. Reads /\ pc' = "idle" /\ view' = NoView /\ moved' = FALSE
  BY DEF Finish, tables, Reads
<1>2. view' \in View /\ view'.subs = 0
  BY <1>1, NoViewTyped DEF NoView
<1>3. Len(submissions) \in Nat
  BY DEF Shape
<1>4. pc' \in Steps /\ moved' \in BOOLEAN /\ pc' \notin {"members", "submissions", "unlocks", "served"}
  BY <1>1 DEF Steps
<1>5. view'.subs <= Len(submissions')
  BY <1>1, <1>2, <1>3 DEF Reads
<1> QED  BY <1>1, <1>2, <1>4, <1>5 DEF Shape, Reads
LEMMA ShapeStep == Shape /\ [BoardNext]_board_vars => Shape'
<1> SUFFICES ASSUME Shape, [BoardNext]_board_vars
             PROVE  Shape'
  OBVIOUS
<1>1. ASSUME NEW shown \in Brackets \cup {Teams}, ReadTeams(shown)
      PROVE  Shape'
  BY <1>1, ReadTeamsStep
<1>2. ASSUME NEW t \in Teams, ReadMembers(t)
      PROVE  Shape'
  BY <1>2, ReadMembersStep
<1>3. CASE ReadSubmissions
  BY <1>3, ReadSubmissionsStep
<1>4. CASE ReadUnlocks
  BY <1>4, ReadUnlocksStep
<1>5. CASE ReadStats
  BY <1>5, ReadStatsStep
<1>6. CASE Finish
  BY <1>6, FinishStep
<1>7. ASSUME NEW a \in Accounts, NEW c \in Challenges, NEW f \in Flags, NEW at \in Stamps,
             Submit(a, c, f, at)
      PROVE  Shape'
  BY <1>7, SubmitStep
<1>8. ASSUME NEW t \in Teams, NEW at \in Stamps, UnlockHint(t, at)
      PROVE  Shape'
  BY <1>8, UnlockStep
<1>9. ASSUME NEW a \in Accounts, NEW t \in Teams, SetTeam(a, t)
      PROVE  Shape'
  BY <1>9, SetTeamStep
<1>10. CASE BoardTick
  BY <1>10, TickStep
<1>11. CASE UNCHANGED board_vars
  BY <1>11 DEF Shape, board_vars
<1> QED
  BY <1>1, <1>2, <1>3, <1>4, <1>5, <1>6, <1>7, <1>8, <1>9, <1>10, <1>11 DEF BoardNext

\* The fields of a view are those it starts with.
LEMMA ShapeTyped == Shape => BoardTypeOK
<1> SUFFICES ASSUME Shape
             PROVE  BoardTypeOK
  OBVIOUS
<1>1. view \in View
  BY DEF Shape
<1>2. DOMAIN view = DOMAIN NoView
  BY <1>1 DEF View, NoView
<1>3. \A t \in DOMAIN view.board : view.board[t] \in ScoreboardEntry
  BY <1>1, ViewDomains
<1> QED  BY <1>2, <1>3 DEF BoardTypeOK, Shape, Steps

\* Whatever lands while a board is computed, it is made of entries, and what the request
\* holds of the submissions is a part of the table as it now is.
THEOREM BoardTypeCorrect == BoardSpec => []BoardTypeOK
<1>1. BoardSpec => []Shape
  BY ShapeInit, ShapeStep, PTL DEF BoardSpec
<1> QED  BY <1>1, ShapeTyped, PTL
-----------------------------------------------------------------------------
\* ExportCovers. Each task of an entry has a correct row of the team in the table, for
\* good; the statistics are taken from such rows.
Covered(t) ==
  \A c \in view.board[t].solves :
    \E k \in DOMAIN submissions :
      submissions[k].challenge = c /\ submissions[k].team = t /\ submissions[k].correct

Covers ==
  /\ \A t \in DOMAIN view.board : Covered(t)
  /\ pc # "exported" => DOMAIN view.stats = {}
  /\ ExportCovers

\* A task that was scored has such a row.
LEMMA EntryCovered ==
  ASSUME Shape, NEW t, NEW c \in NewEntry(t).solves
  PROVE  \E k \in DOMAIN submissions :
           submissions[k].challenge = c /\ submissions[k].team = t /\ submissions[k].correct
<1> DEFINE read == SubSeq(submissions, 1, view.subs)
           s    == Unfrozen(read)
<1>1. NewEntry(t).solves = SolvedIds(s, t, view.members[t])
  BY DEF NewEntry, Entry
<1>2. PICK i \in DOMAIN Config[c].parts : Scored(s, t, view.members[t], c, i)
  <2> HIDE DEF s
  <2> QED  BY <1>1 DEF SolvedIds
<1>3. PICK k \in RowsFor(s, t, c, i) :
        k \in DOMAIN s /\ s[k].challenge = c /\ s[k].team = t /\ s[k].correct
  <2> HIDE DEF s
  <2> QED  BY <1>2, ScoredBy
<1>4. k \in DOMAIN read /\ s[k] = read[k]
  BY <1>3, UnfrozenAt
<1>5. k \in DOMAIN submissions /\ read[k] = submissions[k]
  BY <1>4, TableRead
<1> QED  BY <1>3, <1>4, <1>5

\* Rows stay where they are.
LEMMA AppendKeeps ==
  ASSUME NEW S, NEW rows \in Seq(S), NEW r \in S
  PROVE  /\ DOMAIN Append(rows, r) = DOMAIN rows \cup {Len(rows) + 1}
         /\ Len(rows) + 1 \notin DOMAIN rows
         /\ \A k \in DOMAIN rows : Append(rows, r)[k] = rows[k]
         /\ Append(rows, r)[Len(rows) + 1] = r
OBVIOUS

LEMMA AppendPrefix ==
  ASSUME NEW S, NEW rows \in Seq(S), NEW r \in S, NEW n \in Nat, n <= Len(rows)
  PROVE  SubSeq(Append(rows, r), 1, n) = SubSeq(rows, 1, n)
<1>1. SubSeq(rows, 1, n) \in Seq(S) /\ Len(SubSeq(rows, 1, n)) = n
  OBVIOUS
<1>2. /\ SubSeq(Append(rows, r), 1, n) \in Seq(S) /\ Len(SubSeq(Append(rows, r), 1, n)) = n
  OBVIOUS
<1>3. \A i \in 1..n : SubSeq(Append(rows, r), 1, n)[i] = SubSeq(rows, 1, n)[i]
  OBVIOUS
<1> DEFINE a == SubSeq(Append(rows, r), 1, n)
           b == SubSeq(rows, 1, n)
<1>4. a = [i \in 1..n |-> a[i]] /\ b = [i \in 1..n |-> b[i]]
  <2> HIDE DEF a, b
  <2> QED  BY <1>1, <1>2 DEF a, b
<1>5. \A i \in 1..n : a[i] = b[i]
  BY <1>3
<1> HIDE DEF a, b
<1>6. a = b
  BY <1>4, <1>5
<1> QED  BY <1>6 DEF a, b

LEMMA CoversStep == Shape /\ Covers /\ [BoardNext]_board_vars => Covers'
<1> SUFFICES ASSUME Shape, Covers, [BoardNext]_board_vars
             PROVE  Covers'
  OBVIOUS
<1>1. ASSUME UNCHANGED <<pc, view>>, UNCHANGED submissions \/ \E r \in Row : submissions' = Append(submissions, r)
      PROVE  Covers'
  <2>1. \A k \in DOMAIN submissions : k \in DOMAIN submissions' /\ submissions'[k] = submissions[k]
    BY <1>1, AppendKeeps DEF Shape
  <2>2. \A t \in DOMAIN view'.board : Covered(t)'
    BY <1>1, <2>1 DEF Covers, Covered
  <2> QED  BY <1>1, <2>2 DEF Covers, ExportCovers
<1>2. ASSUME view'.board = <<>>, view'.stats = <<>>
      PROVE  Covers'
  BY <1>2 DEF Covers, ExportCovers
<1>3. ASSUME UNCHANGED submissions, view'.board = view.board, view'.stats = view.stats,
             pc # "exported"
      PROVE  Covers'
  <2>1. DOMAIN view'.stats = {}
    BY <1>3 DEF Covers
  <2>2. \A t \in DOMAIN view'.board : Covered(t)'
    BY <1>3 DEF Covers, Covered
  <2> QED  BY <2>1, <2>2 DEF Covers, ExportCovers
<1>4. ASSUME NEW shown \in Brackets \cup {Teams}, ReadTeams(shown)
      PROVE  Covers'
  BY <1>2, <1>4, ReadTeamsStep
<1>5. ASSUME NEW t \in Teams, ReadMembers(t)
      PROVE  Covers'
  <2>1. /\ Reads /\ pc = "members" /\ view' = [view EXCEPT !.members = view'.members]
        /\ view \in View
    BY <1>5, ReadMembersStep DEF Shape
  <2>2. view'.board = view.board /\ view'.stats = view.stats
    BY <2>1 DEF View
  <2> QED  BY <1>3, <2>1, <2>2 DEF Reads
<1>6. CASE ReadSubmissions
  <2>1. /\ Reads /\ pc = "submissions" /\ view \in View
        /\ view' = [view EXCEPT !.subs = Len(submissions),
                                !.had = [t \in Teams |-> Current(t).points]]
    BY <1>6, ReadSubmissionsStep DEF Shape
  <2>2. view'.board = view.board /\ view'.stats = view.stats
    BY <2>1 DEF View
  <2> QED  BY <1>3, <2>1, <2>2 DEF Reads
<1>7. CASE ReadUnlocks
  <2>1. /\ Reads /\ pc = "unlocks" /\ view'.stats = view.stats
        /\ view'.board = [t \in view.shown |-> NewEntry(t)]
    BY <1>7, ReadUnlocksStep
  <2>2. DOMAIN view'.stats = {}
    BY <2>1 DEF Covers
  <2>3. ASSUME NEW t \in DOMAIN view'.board
        PROVE  Covered(t)'
    <3>1. view'.board[t] = NewEntry(t)
      BY <2>1
    <3>2. \A c \in NewEntry(t).solves : \E k \in DOMAIN submissions :
            submissions[k].challenge = c /\ submissions[k].team = t /\ submissions[k].correct
      BY EntryCovered
    <3> QED  BY <2>1, <3>1, <3>2 DEF Covered, Reads
  <2> QED  BY <2>2, <2>3 DEF Covers, ExportCovers
<1>8. CASE ReadStats
  <2>1. /\ Reads /\ pc' = "exported" /\ view'.board = view.board
        /\ view'.stats = [t \in view.shown |-> TaskStats(submissions, t)]
        /\ DOMAIN view.board = view.shown
    BY <1>8, ReadStatsStep
  <2>2. \A t \in DOMAIN view'.board : Covered(t)'
    BY <2>1 DEF Covers, Covered, Reads
  <2>3. ASSUME NEW t \in DOMAIN view'.stats, NEW c \in view'.board[t].solves
        PROVE  \E x \in view'.stats[t] : x[1] = c
    <3>1. t \in view.shown /\ view'.stats[t] = TaskStats(submissions, t) /\ t \in DOMAIN view.board
      BY <2>1
    <3>2. PICK k \in DOMAIN submissions :
            submissions[k].challenge = c /\ submissions[k].team = t /\ submissions[k].correct
      BY <2>1, <3>1 DEF Covers, Covered
    <3>3. <<submissions[k].challenge, submissions[k].time>> \in TaskStats(submissions, t)
      BY <3>2 DEF TaskStats
    <3> QED  BY <3>1, <3>2, <3>3
  <2> QED  BY <2>1, <2>2, <2>3 DEF Covers, ExportCovers
<1>9. CASE Finish
  <2>1. view' = NoView
    BY <1>9, FinishStep
  <2> QED  BY <1>2, <2>1 DEF NoView
<1>10. ASSUME NEW a \in Accounts, NEW c \in Challenges, NEW f \in Flags, NEW at \in Stamps,
              Submit(a, c, f, at)
       PROVE  Covers'
  BY <1>1, <1>10, SubmitStep
<1>11. ASSUME NEW t \in Teams, NEW at \in Stamps, UnlockHint(t, at)
       PROVE  Covers'
  BY <1>1, <1>11, UnlockStep
<1>12. ASSUME NEW a \in Accounts, NEW t \in Teams, SetTeam(a, t)
       PROVE  Covers'
  BY <1>1, <1>12, SetTeamStep
<1>13. CASE BoardTick
  BY <1>1, <1>13, TickStep
<1>14. CASE UNCHANGED board_vars
  BY <1>1, <1>14 DEF board_vars
<1> QED
  BY <1>4, <1>5, <1>6, <1>7, <1>8, <1>9, <1>10, <1>11, <1>12, <1>13, <1>14 DEF BoardNext

\* An export names every task a team is ranked for among its statistics, although it
\* reads the submissions twice.
THEOREM ExportsAlwaysCover == BoardSpec => []ExportCovers
<1>1. BoardSpec => []Shape
  BY ShapeInit, ShapeStep, PTL DEF BoardSpec
<1>2. BoardInit => Covers
  BY DEF BoardInit, NoView, Covers, ExportCovers
<1>3. Covers => ExportCovers
  BY DEF Covers
<1> QED  BY <1>1, <1>2, <1>3, CoversStep, PTL DEF BoardSpec
-----------------------------------------------------------------------------
\* BoardSortable. A factor that is not zero can be taken from both sides.
LEMMA Cancel ==
  ASSUME NEW m \in Nat, NEW n \in Nat, NEW k \in Nat, k > 0, m * k <= n * k
  PROVE  m <= n
<1>1. CASE m <= n
  BY <1>1
<1>2. CASE n + 1 <= m
  <2>1. (n + 1) * k <= m * k
    BY <1>2, TimesMore
  <2>2. (n + 1) * k = n * k + k
    OBVIOUS
  <2>3. n * k \in Nat /\ m * k \in Nat
    BY TimesNat
  <2> QED  BY <2>1, <2>2, <2>3
<1> QED  BY <1>1, <1>2

\* So fractions compared by their cross products are ordered.
LEMMA Fractions ==
  ASSUME NEW a \in Nat, NEW m \in Nat, NEW b \in Nat, NEW n \in Nat, NEW c \in Nat, NEW k \in Nat,
         n > 0, a * n <= b * m, b * k <= c * n
  PROVE  a * k <= c * m
<1>1. a * n \in Nat /\ b * m \in Nat /\ b * k \in Nat /\ c * n \in Nat /\ a * k \in Nat /\ c * m \in Nat
  BY TimesNat
<1>2. (a * n) * k <= (b * m) * k
  BY <1>1, TimesMore
<1>3. (b * k) * m <= (c * n) * m
  BY <1>1, TimesMore
<1>4. (a * n) * k = (a * k) * n /\ (b * m) * k = (b * k) * m /\ (c * n) * m = (c * m) * n
  OBVIOUS
<1>5. /\ (a * n) * k \in Nat /\ (b * m) * k \in Nat /\ (b * k) * m \in Nat /\ (c * n) * m \in Nat
  BY <1>1, TimesNat
<1> DEFINE x == (a * n) * k
           y == (b * m) * k
           z == (b * k) * m
           w == (c * n) * m
<1>6. x <= y /\ y = z /\ z <= w /\ x \in Nat /\ y \in Nat /\ z \in Nat /\ w \in Nat
  BY <1>2, <1>3, <1>4, <1>5
<1> HIDE DEF x, y, z, w
<1>7. x <= w
  BY <1>6
<1>8. (a * k) * n <= (c * m) * n
  BY <1>4, <1>7 DEF x, w
<1> QED  BY <1>1, <1>8, Cancel

\* An entry the board can order: it has accuracy to be compared by.
Sortable(e) == e \in ScoreboardEntry /\ e.accuracy[2] > 0

\* What an entry consists of.
LEMMA EntryFields ==
  ASSUME NEW e \in ScoreboardEntry
  PROVE  /\ e.points \in Int /\ e.last_solve_time \in Nat \cup {Never}
         /\ e.accuracy[1] \in Nat /\ e.accuracy[2] \in Nat
BY DEF ScoreboardEntry

\* The comparison of the board contradicts itself for no two entries, and for no three.
LEMMA AheadOrders ==
  ASSUME NEW e, NEW f, NEW g, Sortable(e), Sortable(f), Sortable(g)
  PROVE  /\ ~ (Ahead(e, f) /\ Ahead(f, e))
         /\ Ahead(e, g) => Ahead(e, f) \/ Ahead(f, g)
<1>1. /\ e.points \in Int /\ f.points \in Int /\ g.points \in Int
      /\ e.last_solve_time \in Nat \cup {Never} /\ f.last_solve_time \in Nat \cup {Never}
      /\ g.last_solve_time \in Nat \cup {Never}
  BY EntryFields DEF Sortable
<1>2. CASE ByAccuracy
  <2> DEFINE over(x, y) == x.accuracy[1] * y.accuracy[2] > y.accuracy[1] * x.accuracy[2]
  <2>1. \A x, y \in {e, f, g} :
          Ahead(x, y) <=> x.points > y.points \/ (x.points = y.points /\ over(x, y))
    BY <1>2 DEF Ahead
  <2>2. /\ e.accuracy[1] \in Nat /\ f.accuracy[1] \in Nat /\ g.accuracy[1] \in Nat
        /\ e.accuracy[2] \in Nat /\ f.accuracy[2] \in Nat /\ g.accuracy[2] \in Nat
        /\ f.accuracy[2] > 0
    BY EntryFields DEF Sortable
  <2>3. ~ (over(e, f) /\ over(f, e))
    <3> DEFINE x == e.accuracy[1] * f.accuracy[2]
               y == f.accuracy[1] * e.accuracy[2]
    <3>1. x \in Nat /\ y \in Nat
      BY <2>2, TimesNat
    <3>2. (over(e, f) <=> x > y) /\ (over(f, e) <=> y > x)
      OBVIOUS
    <3> HIDE DEF x, y, over
    <3> QED  BY <3>1, <3>2
  <2>4. over(e, g) => over(e, f) \/ over(f, g)
    <3> SUFFICES ASSUME ~ over(e, f), ~ over(f, g)
                 PROVE  ~ over(e, g)
      OBVIOUS
    <3> DEFINE a == e.accuracy[1]
               m == e.accuracy[2]
               b == f.accuracy[1]
               n == f.accuracy[2]
               c == g.accuracy[1]
               k == g.accuracy[2]
    <3>1. ~ (a * n > b * m) /\ ~ (b * k > c * n)
      OBVIOUS
    <3>2. over(e, g) <=> a * k > c * m
      OBVIOUS
    <3>3. a \in Nat /\ m \in Nat /\ b \in Nat /\ n \in Nat /\ c \in Nat /\ k \in Nat /\ n > 0
      BY <2>2
    <3> HIDE DEF a, m, b, n, c, k, over
    <3>4. a * n \in Nat /\ b * m \in Nat /\ b * k \in Nat /\ c * n \in Nat /\ a * k \in Nat /\ c * m \in Nat
      BY <3>3, TimesNat
    <3>5. a * n <= b * m /\ b * k <= c * n
      BY <3>1, <3>4
    <3>6. a * k <= c * m
      BY <3>3, <3>5, Fractions
    <3> QED  BY <3>2, <3>4, <3>6
  <2> HIDE DEF over
  <2> QED  BY <1>1, <2>1, <2>3, <2>4
<1>3. CASE ~ ByAccuracy
  <2>1. Never \notin Nat
    BY ScoreboardAssumption
  <2> QED  BY <1>1, <1>3, <2>1 DEF Ahead
<1> QED  BY <1>2, <1>3

Sorted == \A t \in DOMAIN view.board : Sortable(view.board[t])

LEMMA SortedStep == Shape /\ Sorted /\ [BoardNext]_board_vars => Sorted'
<1> SUFFICES ASSUME Shape, Sorted, [BoardNext]_board_vars
             PROVE  Sorted'
  OBVIOUS
<1>1. ASSUME view'.board = view.board
      PROVE  Sorted'
  BY <1>1 DEF Sorted
<1>2. ASSUME view'.board = <<>>
      PROVE  Sorted'
  BY <1>2 DEF Sorted
<1>3. ASSUME NEW shown \in Brackets \cup {Teams}, ReadTeams(shown)
      PROVE  Sorted'
  BY <1>2, <1>3, ReadTeamsStep
<1>4. ASSUME NEW t \in Teams, ReadMembers(t)
      PROVE  Sorted'
  <2>1. view' = [view EXCEPT !.members = view'.members] /\ view \in View
    BY <1>4, ReadMembersStep DEF Shape
  <2>2. view'.board = view.board
    BY <2>1 DEF View
  <2> QED  BY <1>1, <2>2
<1>5. CASE ReadSubmissions
  <2>1. /\ view' = [view EXCEPT !.subs = Len(submissions),
                                !.had = [t \in Teams |-> Current(t).points]]
        /\ view \in View
    BY <1>5, ReadSubmissionsStep DEF Shape
  <2>2. view'.board = view.board
    BY <2>1 DEF View
  <2> QED  BY <1>1, <2>2
<1>6. CASE ReadUnlocks
  <2>1. /\ view'.board = [t \in view.shown |-> NewEntry(t)]
        /\ \A t \in view.shown : t \in Teams /\ NewEntry(t).accuracy[2] > 0
    BY <1>6, ReadUnlocksStep
  <2>2. \A t \in Teams : NewEntry(t) \in ScoreboardEntry
    BY TableRead, EntryTyped DEF NewEntry, Shape
  <2> QED  BY <2>1, <2>2 DEF Sorted, Sortable
<1>7. CASE ReadStats
  BY <1>1, <1>7, ReadStatsStep
<1>8. CASE Finish
  <2>1. view' = NoView
    BY <1>8, FinishStep
  <2> QED  BY <1>2, <2>1 DEF NoView
<1>9. ASSUME NEW a \in Accounts, NEW c \in Challenges, NEW f \in Flags, NEW at \in Stamps,
             Submit(a, c, f, at)
      PROVE  Sorted'
  BY <1>1, <1>9, SubmitStep
<1>10. ASSUME NEW t \in Teams, NEW at \in Stamps, UnlockHint(t, at)
       PROVE  Sorted'
  BY <1>1, <1>10, UnlockStep
<1>11. ASSUME NEW a \in Accounts, NEW t \in Teams, SetTeam(a, t)
       PROVE  Sorted'
  BY <1>1, <1>11, SetTeamStep
<1>12. CASE BoardTick
  BY <1>1, <1>12, TickStep
<1>13. CASE UNCHANGED board_vars
  BY <1>1, <1>13 DEF board_vars
<1> QED
  BY <1>3, <1>4, <1>5, <1>6, <1>7, <1>8, <1>9, <1>10, <1>11, <1>12, <1>13 DEF BoardNext

LEMMA SortedSorts == Sorted => BoardSortable
<1> SUFFICES ASSUME Sorted
             PROVE  BoardSortable
  OBVIOUS
<1>1. ASSUME NEW t \in DOMAIN view.board, NEW u \in DOMAIN view.board, NEW v \in DOMAIN view.board
      PROVE  /\ ~ (Ahead(view.board[t], view.board[u]) /\ Ahead(view.board[u], view.board[t]))
             /\ Ahead(view.board[t], view.board[v]) =>
                  Ahead(view.board[t], view.board[u]) \/ Ahead(view.board[u], view.board[v])
  <2>1. Sortable(view.board[t]) /\ Sortable(view.board[u]) /\ Sortable(view.board[v])
    BY DEF Sorted
  <2> QED  BY <2>1, AheadOrders
<1> QED  BY <1>1 DEF BoardSortable

\* The order of every board a request computes is a strict weak one, ties included: by
\* accuracy because no entry has nothing in its denominator.
THEOREM BoardsAlwaysSort == BoardSpec => []BoardSortable
<1>1. BoardSpec => []Shape
  BY ShapeInit, ShapeStep, PTL DEF BoardSpec
<1>2. BoardInit => Sorted
  BY DEF BoardInit, NoView, Sorted
<1> QED  BY <1>1, <1>2, SortedStep, SortedSorts, PTL DEF BoardSpec
-----------------------------------------------------------------------------
\* NeverFlattered. The points of an entry.
LEMMA EntryPoints ==
  ASSUME NEW subs, NEW unl, NEW t, NEW members
  PROVE  Entry(subs, unl, t, members).points =
           Deducted(SolvePoints(Unfrozen(subs), t, members), TotalCost(Unfrozen(unl), t, NoTeam))
BY DEF Entry

\* What was stamped before the freeze stays; what was not adds nothing to it.
LEMMA UnfrozenAppend ==
  ASSUME NEW S, NEW rows \in Seq(S), NEW r \in S
  PROVE  /\ \A k \in DOMAIN Unfrozen(rows) :
              /\ k \in DOMAIN Unfrozen(Append(rows, r))
              /\ Unfrozen(Append(rows, r))[k] = Unfrozen(rows)[k]
         /\ ~ (r.time < Freeze) => Unfrozen(Append(rows, r)) = Unfrozen(rows)
<1> DEFINE new == Append(rows, r)
<1>1. /\ DOMAIN new = DOMAIN rows \cup {Len(rows) + 1}
      /\ \A k \in DOMAIN rows : new[k] = rows[k]
      /\ new[Len(rows) + 1] = r
  BY AppendKeeps
<1> HIDE DEF new
<1>2. ASSUME NEW k \in DOMAIN Unfrozen(rows)
      PROVE  k \in DOMAIN Unfrozen(new) /\ Unfrozen(new)[k] = Unfrozen(rows)[k]
  <2>1. k \in DOMAIN rows /\ rows[k].time < Freeze /\ Unfrozen(rows)[k] = rows[k]
    BY UnfrozenAt
  <2>2. k \in DOMAIN new /\ new[k] = rows[k]
    BY <1>1, <2>1
  <2>3. k \in DOMAIN Unfrozen(new)
    BY <2>1, <2>2 DEF Unfrozen
  <2> QED  BY <2>1, <2>2, <2>3, UnfrozenAt
<1>3. ASSUME ~ (r.time < Freeze)
      PROVE  Unfrozen(new) = Unfrozen(rows)
  <2>1. {k \in DOMAIN new : new[k].time < Freeze} = {k \in DOMAIN rows : rows[k].time < Freeze}
    BY <1>1, <1>3
  <2>2. \A k \in {j \in DOMAIN rows : rows[j].time < Freeze} : new[k] = rows[k]
    BY <1>1
  <2> QED  BY <2>1, <2>2 DEF Unfrozen
<1> QED  BY <1>2, <1>3 DEF new

\* One unlock more leaves a team no more points.
LEMMA EntryLess ==
  ASSUME NEW subs \in Seq(Row), NEW unl \in Seq(Unlock), NEW u \in Unlock, NEW t \in Teams,
         NEW members
  PROVE  Entry(subs, Append(unl, u), t, members).points <= Entry(subs, unl, t, members).points
<1> DEFINE new  == Append(unl, u)
           s    == SolvePoints(Unfrozen(subs), t, members)
           less == TotalCost(Unfrozen(unl), t, NoTeam)
           more == TotalCost(Unfrozen(new), t, NoTeam)
<1>1. new \in Seq(Unlock)
  OBVIOUS
<1>2. \A k \in DOMAIN Unfrozen(unl) :
        k \in DOMAIN Unfrozen(new) /\ Unfrozen(new)[k] = Unfrozen(unl)[k]
  BY UnfrozenAppend
<1> HIDE DEF new
<1>3. Priced(Unfrozen(unl)) /\ Priced(Unfrozen(new))
  BY <1>1, UnfrozenPriced
<1>4. less \in Nat /\ more \in Nat /\ less <= more
  BY <1>2, <1>3, FiniteCost, CostLess
<1>5. s \in Nat
  <2>1. IsFiniteSet(DOMAIN Unfrozen(subs))
    BY UnfrozenRows DEF Rows
  <2> QED  BY <2>1, FiniteScore
<1>6. /\ Entry(subs, unl, t, members).points = Deducted(s, less)
      /\ Entry(subs, new, t, members).points = Deducted(s, more)
  BY EntryPoints
<1> HIDE DEF s, less, more
<1> QED  BY <1>4, <1>5, <1>6, DeductedLess DEF new

\* As long as nobody changes team, the members a request has read are those of now, and
\* the entries it is about to compute are worth no more than when it read the solves.
Unmoved ==
  /\ ~ moved => \A t \in DOMAIN view.members : view.members[t] = Members(t)
  /\ ~ moved /\ pc = "unlocks" => \A t \in Teams : NewEntry(t).points <= view.had[t]
  /\ NeverFlattered

LEMMA UnmovedStep == Shape /\ Unmoved /\ [BoardNext]_board_vars => Unmoved'
<1> SUFFICES ASSUME Shape, Unmoved, [BoardNext]_board_vars
             PROVE  Unmoved'
  OBVIOUS
<1>1. ASSUME UNCHANGED <<unlocks, team_of, pc, view, moved>>,
             UNCHANGED submissions \/ \E r \in Row : submissions' = Append(submissions, r)
      PROVE  Unmoved'
  <2>1. SubSeq(submissions', 1, view.subs) = SubSeq(submissions, 1, view.subs)
    <3>1. view.subs \in Nat /\ view.subs <= Len(submissions) /\ submissions \in Seq(Row)
      BY ViewFields DEF Shape
    <3> DEFINE n == view.subs
    <3> HIDE DEF n
    <3>2. CASE UNCHANGED submissions
      BY <1>1, <3>2
    <3>3. ASSUME NEW r \in Row, submissions' = Append(submissions, r)
          PROVE  SubSeq(submissions', 1, n) = SubSeq(submissions, 1, n)
      <4>1. n \in Nat /\ n <= Len(submissions) /\ submissions \in Seq(Row)
        BY <3>1 DEF n
      <4>2. SubSeq(Append(submissions, r), 1, n) = SubSeq(submissions, 1, n)
        BY <4>1, AppendPrefix
      <4> QED  BY <3>3, <4>2, Zenon
    <3>4. view' = view
      BY <1>1
    <3> QED  BY <1>1, <3>2, <3>3, <3>4 DEF n
  <2>2. \A t \in Teams : NewEntry(t)' = NewEntry(t)
    BY <1>1, <2>1 DEF NewEntry
  <2>3. \A t : Members(t)' = Members(t)
    BY <1>1 DEF Members
  <2> QED  BY <1>1, <2>2, <2>3 DEF Unmoved, NeverFlattered
<1>2. ASSUME view'.members = <<>>, view'.board = <<>>, pc' # "unlocks"
      PROVE  Unmoved'
  BY <1>2 DEF Unmoved, NeverFlattered
<1>3. ASSUME NEW shown \in Brackets \cup {Teams}, ReadTeams(shown)
      PROVE  Unmoved'
  BY <1>2, <1>3, ReadTeamsStep
<1>4. ASSUME NEW t \in Teams, ReadMembers(t)
      PROVE  Unmoved'
  <2>1. /\ Reads /\ moved' = moved /\ pc' \in {"members", "submissions"}
        /\ view' = [view EXCEPT !.members = view'.members] /\ view \in View
        /\ DOMAIN view'.members = DOMAIN view.members \cup {t}
        /\ \A u \in DOMAIN view.members : view'.members[u] = view.members[u]
        /\ view'.members[t] = Members(t)
    BY <1>4, ReadMembersStep DEF Shape
  <2>2. view'.board = view.board /\ view'.had = view.had
    BY <2>1 DEF View
  <2>3. \A u : Members(u)' = Members(u)
    BY <2>1 DEF Members, Reads
  <2>4. ~ moved' => \A u \in DOMAIN view'.members : view'.members[u] = Members(u)'
    BY <2>1, <2>3 DEF Unmoved
  <2>5. NeverFlattered'
    BY <2>1, <2>2 DEF Unmoved, NeverFlattered
  <2> QED  BY <2>1, <2>4, <2>5 DEF Unmoved
<1>5. CASE ReadSubmissions
  <2>1. /\ Reads /\ moved' = moved /\ view \in View /\ DOMAIN view.members = Teams
        /\ view' = [view EXCEPT !.subs = Len(submissions),
                                !.had = [t \in Teams |-> Current(t).points]]
    BY <1>5, ReadSubmissionsStep DEF Shape
  <2>2. /\ view'.board = view.board /\ view'.members = view.members
        /\ view'.subs = Len(submissions) /\ view'.had = [t \in Teams |-> Current(t).points]
    BY <2>1 DEF View
  <2>3. \A t : Members(t)' = Members(t)
    BY <2>1 DEF Members, Reads
  <2>4. DOMAIN view.board = {}
    BY <1>5, ReadSubmissionsStep DEF Shape
  <2>5. SubSeq(submissions, 1, Len(submissions)) = submissions
    BY DEF Shape
  <2>6. ~ moved' => \A t \in Teams : NewEntry(t)' = Current(t)
    BY <2>1, <2>2, <2>5 DEF NewEntry, Current, Unmoved, Reads
  <2>7. \A t \in Teams : Current(t).points \in Int
    <3>1. \A t \in Teams : Current(t) \in ScoreboardEntry
      BY EntryTyped DEF Current, Shape
    <3> QED  BY <3>1, EntryFields
  <2>8. ~ moved' => \A t \in Teams : NewEntry(t)'.points <= view'.had[t]
    BY <2>2, <2>6, <2>7
  <2> QED  BY <2>1, <2>2, <2>3, <2>4, <2>8 DEF Unmoved, NeverFlattered
<1>6. CASE ReadUnlocks
  <2>1. /\ Reads /\ moved' = moved /\ pc = "unlocks" /\ pc' = "served"
        /\ view'.members = <<>> /\ view'.had = view.had
        /\ view'.board = [t \in view.shown |-> NewEntry(t)]
        /\ \A t \in view.shown : t \in Teams
    BY <1>6, ReadUnlocksStep
  <2>2. ~ moved' => \A t \in DOMAIN view'.board : view'.board[t].points <= view'.had[t]
    BY <2>1 DEF Unmoved
  <2> QED  BY <2>1, <2>2 DEF Unmoved, NeverFlattered
<1>7. CASE ReadStats
  <2>1. /\ Reads /\ moved' = moved /\ pc' = "exported"
        /\ view'.members = view.members /\ view'.had = view.had /\ view'.board = view.board
    BY <1>7, ReadStatsStep
  <2>2. \A t : Members(t)' = Members(t)
    BY <2>1 DEF Members, Reads
  <2> QED  BY <2>1, <2>2 DEF Unmoved, NeverFlattered
<1>8. CASE Finish
  <2>1. view' = NoView /\ pc' = "idle"
    BY <1>8, FinishStep
  <2> QED  BY <1>2, <2>1 DEF NoView
<1>9. ASSUME NEW a \in Accounts, NEW c \in Challenges, NEW f \in Flags, NEW at \in Stamps,
             Submit(a, c, f, at)
      PROVE  Unmoved'
  BY <1>1, <1>9, SubmitStep
<1>10. ASSUME NEW t \in Teams, NEW at \in Stamps, UnlockHint(t, at)
       PROVE  Unmoved'
  <2>1. /\ UNCHANGED <<now, submissions, team_of, pc, view, moved>>
        /\ \E u \in Unlock : unlocks' = Append(unlocks, u)
    BY <1>10, UnlockStep
  <2>2. PICK u \in Unlock : unlocks' = Append(unlocks, u)
    BY <2>1
  <2>3. \A v : Members(v)' = Members(v)
    BY <2>1 DEF Members
  <2>4. ASSUME NEW v \in Teams
        PROVE  /\ NewEntry(v).points \in Int /\ NewEntry(v)'.points \in Int
               /\ NewEntry(v)'.points <= NewEntry(v).points
    <3> DEFINE read == SubSeq(submissions, 1, view.subs)
    <3>1. read \in Seq(Row) /\ unlocks \in Seq(Unlock) /\ Append(unlocks, u) \in Seq(Unlock)
      BY TableRead DEF Shape
    <3>2. /\ NewEntry(v) = Entry(read, unlocks, v, view.members[v])
          /\ NewEntry(v)' = Entry(read, Append(unlocks, u), v, view.members[v])
      BY <2>1, <2>2 DEF NewEntry
    <3> HIDE DEF read
    <3>3. NewEntry(v) \in ScoreboardEntry /\ NewEntry(v)' \in ScoreboardEntry
      BY <3>1, <3>2, EntryTyped
    <3> QED  BY <3>1, <3>2, <3>3, EntryLess, EntryFields
  <2>5. ASSUME NEW v \in Teams
        PROVE  view.had[v] \in Int
    BY ViewFields DEF Shape
  <2>6. ~ moved' /\ pc' = "unlocks" => \A v \in Teams : NewEntry(v)'.points <= view'.had[v]
    <3> SUFFICES ASSUME ~ moved', pc' = "unlocks", NEW v \in Teams
                 PROVE  NewEntry(v)'.points <= view'.had[v]
      OBVIOUS
    <3>1. NewEntry(v).points <= view.had[v] /\ view'.had = view.had
      BY <2>1 DEF Unmoved
    <3> QED  BY <2>4, <2>5, <3>1
  <2> QED  BY <2>1, <2>3, <2>6 DEF Unmoved, NeverFlattered
<1>11. ASSUME NEW a \in Accounts, NEW t \in Teams, SetTeam(a, t)
       PROVE  Unmoved'
  <2>1. UNCHANGED <<pc, view>> /\ moved' = (pc # "idle")
    BY <1>11, SetTeamStep
  <2>2. pc = "idle" => view'.members = <<>> /\ view'.board = <<>>
    BY <2>1 DEF Shape, NoView
  <2> QED  BY <1>2, <2>1, <2>2 DEF Unmoved, NeverFlattered
<1>12. CASE BoardTick
  BY <1>1, <1>12, TickStep
<1>13. CASE UNCHANGED board_vars
  BY <1>1, <1>13 DEF board_vars
<1> QED
  BY <1>3, <1>4, <1>5, <1>6, <1>7, <1>8, <1>9, <1>10, <1>11, <1>12, <1>13 DEF BoardNext

\* No board shows a team more points than it had when the solves were read, whatever is
\* submitted and unlocked between the reads, unless someone changed team meanwhile.
THEOREM BoardsNeverFlatter == BoardSpec => []NeverFlattered
<1>1. BoardSpec => []Shape
  BY ShapeInit, ShapeStep, PTL DEF BoardSpec
<1>2. BoardInit => Unmoved
  BY DEF BoardInit, NoView, Unmoved, NeverFlattered
<1>3. Unmoved => NeverFlattered
  BY DEF Unmoved
<1> QED  BY <1>1, <1>2, <1>3, UnmovedStep, PTL DEF BoardSpec
-----------------------------------------------------------------------------
\* EarnedBySolving. The rows of a table with one more, where a team has scored.
LEMMA RowsForAppend ==
  ASSUME NEW subs \in Seq(Row), NEW r \in Row, NEW t, NEW c, NEW i
  PROVE  /\ RowsFor(subs, t, c, i) \subseteq RowsFor(Append(subs, r), t, c, i)
         /\ t # r.team => RowsFor(Append(subs, r), t, c, i) = RowsFor(subs, t, c, i)
         /\ AccountsIn(Append(subs, r), RowsFor(subs, t, c, i))
              = AccountsIn(subs, RowsFor(subs, t, c, i))
<1> DEFINE new == Append(subs, r)
<1>1. /\ DOMAIN new = DOMAIN subs \cup {Len(subs) + 1}
      /\ \A k \in DOMAIN subs : new[k] = subs[k]
      /\ new[Len(subs) + 1] = r
  BY AppendKeeps
<1> HIDE DEF new
<1>2. RowsFor(subs, t, c, i) \subseteq RowsFor(new, t, c, i)
  BY <1>1 DEF RowsFor, Solves
<1>3. ASSUME t # r.team
      PROVE  RowsFor(new, t, c, i) \subseteq RowsFor(subs, t, c, i)
  BY <1>1, <1>3 DEF RowsFor, Solves
<1>4. AccountsIn(new, RowsFor(subs, t, c, i)) = AccountsIn(subs, RowsFor(subs, t, c, i))
  <2>1. \A k \in RowsFor(subs, t, c, i) : new[k] = subs[k]
    BY <1>1 DEF RowsFor, Solves
  <2> QED  BY <2>1 DEF AccountsIn
<1> QED  BY <1>2, <1>3, <1>4 DEF new

\* Who has solved a challenge stays a solver; a row adds no one but who it is credited to.
LEMMA SolversAppend ==
  ASSUME NEW subs \in Seq(Row), NEW r \in Row, NEW c
  PROVE  /\ Solvers(subs, c) \subseteq Solvers(Append(subs, r), c)
         /\ Solvers(Append(subs, r), c) \subseteq Solvers(subs, c) \cup {Solver(r)}
<1> DEFINE new == Append(subs, r)
<1>1. /\ DOMAIN new = DOMAIN subs \cup {Len(subs) + 1}
      /\ \A k \in DOMAIN subs : new[k] = subs[k]
      /\ new[Len(subs) + 1] = r
  BY AppendKeeps
<1> HIDE DEF new
<1>2. ASSUME NEW s \in Solvers(subs, c)
      PROVE  s \in Solvers(new, c)
  <2>1. PICK k \in Solves(subs, c) : s = Solver(subs[k])
    BY DEF Solvers
  <2>2. k \in Solves(new, c) /\ new[k] = subs[k]
    BY <1>1 DEF Solves
  <2> QED  BY <2>1, <2>2 DEF Solvers
<1>3. ASSUME NEW s \in Solvers(new, c)
      PROVE  s \in Solvers(subs, c) \/ s = Solver(r)
  <2>1. PICK k \in Solves(new, c) : s = Solver(new[k])
    BY DEF Solvers
  <2>2. k \in DOMAIN new
    BY DEF Solves
  <2>3. CASE k \in DOMAIN subs
    <3>1. k \in Solves(subs, c) /\ new[k] = subs[k]
      BY <1>1, <2>3 DEF Solves
    <3> QED  BY <2>1, <3>1 DEF Solvers
  <2>4. CASE k = Len(subs) + 1
    BY <1>1, <2>1, <2>4
  <2> QED  BY <1>1, <2>2, <2>3, <2>4
<1> QED  BY <1>2, <1>3 DEF new

\* A row never lowers the score of its own team: where the team had scored already it was
\* a solver already, so that its row makes no challenge it has scored decay.
LEMMA OwnScore ==
  ASSUME NEW subs \in Seq(Row), NEW r \in Row, NEW t \in Teams, r.team = t, NEW members
  PROVE  SolvePoints(subs, t, members) <= SolvePoints(Append(subs, r), t, members)
<1> DEFINE new == Append(subs, r)
<1>1. new \in Seq(Row)
  OBVIOUS
<1>2. IsFiniteSet(DOMAIN subs) /\ IsFiniteSet(DOMAIN new)
  <2> HIDE DEF new
  <2> QED  BY <1>1, SeqFinite
<1>3. ASSUME NEW c \in Challenges, NEW i \in DOMAIN Config[c].parts, Scored(subs, t, members, c, i)
      PROVE  /\ Scored(new, t, members, c, i)
             /\ Cardinality(Solvers(new, c)) <= Cardinality(Solvers(subs, c))
  <2>1. /\ RowsFor(subs, t, c, i) \subseteq RowsFor(new, t, c, i)
        /\ AccountsIn(new, RowsFor(subs, t, c, i)) = AccountsIn(subs, RowsFor(subs, t, c, i))
    BY RowsForAppend
  <2>2. AccountsIn(subs, RowsFor(subs, t, c, i)) \subseteq AccountsIn(new, RowsFor(new, t, c, i))
    BY <2>1 DEF AccountsIn
  <2>3. Scored(new, t, members, c, i)
    BY <1>3, <2>1, <2>2 DEF Scored
  <2>4. PICK k \in RowsFor(subs, t, c, i) :
          k \in DOMAIN subs /\ subs[k].challenge = c /\ subs[k].team = t /\ subs[k].correct
    BY <1>3, ScoredBy
  <2>5. Solver(r) = t /\ t \in Solvers(subs, c)
    <3>1. t # NoTeam
      BY SubmissionsAssumption
    <3>2. Solver(r) = t /\ Solver(subs[k]) = t
      BY <2>4, <3>1 DEF Solver
    <3> QED  BY <2>4, <3>2 DEF Solvers, Solves
  <2>6. Solvers(new, c) \subseteq Solvers(subs, c)
    BY <2>5, SolversAppend
  <2>7. IsFiniteSet(Solvers(subs, c))
    BY <1>2, FiniteSolvers
  <2>8. Cardinality(Solvers(new, c)) <= Cardinality(Solvers(subs, c))
    BY <2>6, <2>7, FS_Subset
  <2> QED  BY <2>3, <2>8
<1> HIDE DEF new
<1>4. SolvePoints(subs, t, members) <= SolvePoints(new, t, members)
  BY <1>2, <1>3, ScoreLess
<1> QED  BY <1>4 DEF new

\* And never raises that of another.
LEMMA OthersScore ==
  ASSUME NEW subs \in Seq(Row), NEW r \in Row, NEW t \in Teams, r.team # t, NEW members
  PROVE  SolvePoints(Append(subs, r), t, members) <= SolvePoints(subs, t, members)
<1> DEFINE new == Append(subs, r)
<1>1. new \in Seq(Row)
  OBVIOUS
<1>2. IsFiniteSet(DOMAIN subs) /\ IsFiniteSet(DOMAIN new)
  <2> HIDE DEF new
  <2> QED  BY <1>1, SeqFinite
<1>3. ASSUME NEW c \in Challenges, NEW i \in DOMAIN Config[c].parts, Scored(new, t, members, c, i)
      PROVE  /\ Scored(subs, t, members, c, i)
             /\ Cardinality(Solvers(subs, c)) <= Cardinality(Solvers(new, c))
  <2>1. /\ RowsFor(new, t, c, i) = RowsFor(subs, t, c, i)
        /\ AccountsIn(new, RowsFor(subs, t, c, i)) = AccountsIn(subs, RowsFor(subs, t, c, i))
    BY RowsForAppend
  <2>2. Scored(subs, t, members, c, i)
    BY <1>3, <2>1 DEF Scored
  <2>3. Solvers(subs, c) \subseteq Solvers(new, c) /\ IsFiniteSet(Solvers(new, c))
    BY <1>2, SolversAppend, FiniteSolvers
  <2> QED  BY <2>2, <2>3, FS_Subset
<1> HIDE DEF new
<1>4. SolvePoints(new, t, members) <= SolvePoints(subs, t, members)
  BY <1>2, <1>3, ScoreLess
<1> QED  BY <1>4 DEF new

\* The row a submission lands is the last one.
LEMMA LandedAppend ==
  ASSUME NEW S, NEW rows \in Seq(S), NEW r \in S
  PROVE  Landed(rows, Append(rows, r)) = {r} /\ Landed(rows, rows) = {}
<1>1. Len(Append(rows, r)) = Len(rows) + 1 /\ Len(rows) \in Nat
  OBVIOUS
<1>2. Append(rows, r)[Len(rows) + 1] = r
  BY AppendKeeps
<1> QED  BY <1>1, <1>2 DEF Landed

\* What a step does to the tables: it adds a row to one, moves an account, or neither.
LEMMA TableSteps ==
  ASSUME Shape, [BoardNext]_board_vars
  PROVE  \/ UNCHANGED <<submissions, unlocks, team_of>>
         \/ /\ UNCHANGED <<unlocks, team_of>>
            /\ \E r \in Row : submissions' = Append(submissions, r)
         \/ /\ UNCHANGED <<submissions, team_of>>
            /\ \E u \in Unlock : unlocks' = Append(unlocks, u)
         \/ UNCHANGED <<submissions, unlocks>>
<1>1. ASSUME NEW shown \in Brackets \cup {Teams}, ReadTeams(shown)
      PROVE  Reads
  BY <1>1, ReadTeamsStep
<1>2. ASSUME NEW t \in Teams, ReadMembers(t)
      PROVE  Reads
  BY <1>2, ReadMembersStep
<1>3. ReadSubmissions => Reads
  BY ReadSubmissionsStep
<1>4. ReadUnlocks => Reads
  BY ReadUnlocksStep
<1>5. ReadStats => Reads
  BY ReadStatsStep
<1>6. Finish => Reads
  BY FinishStep
<1>7. UNCHANGED board_vars => Reads
  BY DEF board_vars, Reads
<1>8. ASSUME NEW a \in Accounts, NEW c \in Challenges, NEW f \in Flags, NEW at \in Stamps,
             Submit(a, c, f, at)
      PROVE  /\ UNCHANGED <<unlocks, team_of>>
             /\ \E r \in Row : submissions' = Append(submissions, r)
  BY <1>8, SubmitStep
<1>9. ASSUME NEW t \in Teams, NEW at \in Stamps, UnlockHint(t, at)
      PROVE  /\ UNCHANGED <<submissions, team_of>>
             /\ \E u \in Unlock : unlocks' = Append(unlocks, u)
  BY <1>9, UnlockStep
<1>10. ASSUME NEW a \in Accounts, NEW t \in Teams, SetTeam(a, t)
       PROVE  UNCHANGED <<submissions, unlocks>>
  BY <1>10, SetTeamStep
<1>11. BoardTick => UNCHANGED <<submissions, unlocks, team_of>>
  BY TickStep
<1> QED
  BY <1>1, <1>2, <1>3, <1>4, <1>5, <1>6, <1>7, <1>8, <1>9, <1>10, <1>11 DEF BoardNext, Reads

\* What EarnedBySolving says of a step.
Earns ==
  \A r \in Landed(submissions, submissions'), t \in Teams :
    LET before == SolvePoints(submissions, t, Members(t))
        after == SolvePoints(submissions', t, Members(t))
    IN  IF t = r.team THEN after >= before ELSE after <= before

LEMMA EarnsStep == Shape /\ [BoardNext]_board_vars => Earns
<1> SUFFICES ASSUME Shape, [BoardNext]_board_vars
             PROVE  Earns
  OBVIOUS
<1>1. submissions \in Seq(Row)
  BY DEF Shape
<1>2. CASE UNCHANGED submissions
  <2>1. Landed(submissions, submissions') = {}
    BY <1>1, <1>2 DEF Landed
  <2> QED  BY <2>1 DEF Earns
<1>3. ASSUME NEW r \in Row, submissions' = Append(submissions, r)
      PROVE  Earns
  <2>1. Landed(submissions, submissions') = {r}
    BY <1>1, <1>3, LandedAppend
  <2>2. ASSUME NEW t \in Teams
        PROVE  /\ SolvePoints(submissions, t, Members(t)) \in Nat
               /\ SolvePoints(submissions', t, Members(t)) \in Nat
               /\ t = r.team => SolvePoints(submissions, t, Members(t))
                                  <= SolvePoints(submissions', t, Members(t))
               /\ t # r.team => SolvePoints(submissions', t, Members(t))
                                  <= SolvePoints(submissions, t, Members(t))
    <3>1. submissions' \in Seq(Row)
      BY <1>1, <1>3
    <3>2. IsFiniteSet(DOMAIN submissions) /\ IsFiniteSet(DOMAIN submissions')
      BY <1>1, <3>1, SeqFinite
    <3>3. /\ SolvePoints(submissions, t, Members(t)) \in Nat
          /\ SolvePoints(submissions', t, Members(t)) \in Nat
      BY <3>2, FiniteScore
    <3>4. t = r.team => SolvePoints(submissions, t, Members(t))
                          <= SolvePoints(submissions', t, Members(t))
      BY <1>1, <1>3, OwnScore
    <3>5. t # r.team => SolvePoints(submissions', t, Members(t))
                          <= SolvePoints(submissions, t, Members(t))
      BY <1>1, <1>3, OthersScore
    <3> QED  BY <3>3, <3>4, <3>5
  <2> QED  BY <2>1, <2>2 DEF Earns
<1> QED  BY <1>2, <1>3, TableSteps

\* Submitting never lowers what a team has earned, however the challenge decays, and
\* never raises what another has.
THEOREM AlwaysEarnedBySolving == BoardSpec => EarnedBySolving
<1>1. BoardSpec => []Shape
  BY ShapeInit, ShapeStep, PTL DEF BoardSpec
<1>2. Shape /\ [BoardNext]_board_vars => [Earns]_submissions
  BY EarnsStep
<1>3. [][Earns]_submissions => EarnedBySolving
  BY DEF Earns, EarnedBySolving
<1> QED  BY <1>1, <1>2, <1>3, PTL DEF BoardSpec
-----------------------------------------------------------------------------
\* FrozenBoardMoves. Without team consensus an entry does not depend on who is in the team.
LEMMA MembersAside ==
  ASSUME ~ \E c \in Challenges : Config[c].consensus,
         NEW subs, NEW unl, NEW t, NEW before, NEW after
  PROVE  Entry(subs, unl, t, before) = Entry(subs, unl, t, after)
<1> DEFINE s     == Unfrozen(subs)
           parts == UNION {{c} \X DOMAIN Config[c].parts : c \in Challenges}
<1>1. \A c \in Challenges : \A i : Scored(s, t, before, c, i) <=> Scored(s, t, after, c, i)
  <2> HIDE DEF s
  <2> QED  BY DEF Scored
<1>2. \A x \in parts : x[1] \in Challenges
  OBVIOUS
<1> HIDE DEF s
<1>3. {x \in parts : Scored(s, t, before, x[1], x[2])} = {x \in parts : Scored(s, t, after, x[1], x[2])}
  <2> HIDE DEF parts
  <2> QED  BY <1>1, <1>2
<1>4. SolvePoints(s, t, before) = SolvePoints(s, t, after)
  <2>1. ScoredParts(s, t, before) = ScoredParts(s, t, after)
    BY <1>3 DEF ScoredParts
  <2>2. Worths(s, t, before) = Worths(s, t, after)
    BY <2>1 DEF Worths
  <2> QED  BY <2>2, PointsOfParts
<1>5. SolvedIds(s, t, before) = SolvedIds(s, t, after)
  BY <1>1 DEF SolvedIds
<1>6. ScoringRows(s, t, before) = ScoringRows(s, t, after)
  BY <1>3 DEF ScoringRows
<1>7. LastSolveTime(s, t, before) = LastSolveTime(s, t, after)
  BY <1>6 DEF LastSolveTime
<1> QED  BY <1>4, <1>5, <1>7 DEF Entry, s

\* What FrozenBoardMoves says of a step.
Thaws ==
  now >= Freeze /\ (\E t \in Teams : Current(t)' # Current(t)) =>
    \/ \E r \in Landed(submissions, submissions') \cup Landed(unlocks, unlocks') : r.time < Freeze
    \/ /\ \E t \in Teams : Members(t)' # Members(t)
       /\ \E c \in Challenges : Config[c].consensus

LEMMA ThawsStep == Shape /\ [BoardNext]_board_vars => Thaws
<1> SUFFICES ASSUME Shape, [BoardNext]_board_vars,
                    NEW t \in Teams, Current(t)' # Current(t)
             PROVE  \/ \E r \in Landed(submissions, submissions') \cup Landed(unlocks, unlocks') :
                         r.time < Freeze
                    \/ /\ \E u \in Teams : Members(u)' # Members(u)
                       /\ \E c \in Challenges : Config[c].consensus
  BY DEF Thaws
<1>1. submissions \in Seq(Row) /\ unlocks \in Seq(Unlock)
  BY DEF Shape
<1>2. /\ Current(t) = Entry(submissions, unlocks, t, Members(t))
      /\ Current(t)' = Entry(submissions', unlocks', t, Members(t)')
  BY DEF Current
<1>3. CASE UNCHANGED <<submissions, unlocks, team_of>>
  <2>1. Members(t)' = Members(t)
    BY <1>3 DEF Members
  <2> QED  BY <1>2, <1>3, <2>1
<1>4. ASSUME UNCHANGED <<unlocks, team_of>>, NEW r \in Row, submissions' = Append(submissions, r)
      PROVE  \E s \in Landed(submissions, submissions') : s.time < Freeze
  <2>1. Members(t)' = Members(t)
    BY <1>4 DEF Members
  <2>2. r.time < Freeze
    <3>1. Unfrozen(submissions') # Unfrozen(submissions)
      BY <1>2, <1>4, <2>1 DEF Entry
    <3> QED  BY <1>1, <1>4, <3>1, UnfrozenAppend
  <2> QED  BY <1>1, <1>4, <2>2, LandedAppend
<1>5. ASSUME UNCHANGED <<submissions, team_of>>, NEW u \in Unlock, unlocks' = Append(unlocks, u)
      PROVE  \E s \in Landed(unlocks, unlocks') : s.time < Freeze
  <2>1. Members(t)' = Members(t)
    BY <1>5 DEF Members
  <2>2. u.time < Freeze
    <3>1. Unfrozen(unlocks') # Unfrozen(unlocks)
      BY <1>2, <1>5, <2>1 DEF Entry
    <3> QED  BY <1>1, <1>5, <3>1, UnfrozenAppend
  <2> QED  BY <1>1, <1>5, <2>2, LandedAppend
<1>6. ASSUME UNCHANGED <<submissions, unlocks>>
      PROVE  /\ \E u \in Teams : Members(u)' # Members(u)
             /\ \E c \in Challenges : Config[c].consensus
  <2>1. Entry(submissions, unlocks, t, Members(t)') # Entry(submissions, unlocks, t, Members(t))
    BY <1>2, <1>6
  <2>2. Members(t)' # Members(t)
    BY <2>1
  <2>3. \E c \in Challenges : Config[c].consensus
    BY <2>1, MembersAside
  <2> QED  BY <2>2, <2>3
<1> QED  BY <1>3, <1>4, <1>5, <1>6, TableSteps

\* Past the freeze a board moves only for a row that was stamped before, or under team
\* consensus for a change of members.
THEOREM FrozenBoardsStay == BoardSpec => FrozenBoardMoves
<1>1. BoardSpec => []Shape
  BY ShapeInit, ShapeStep, PTL DEF BoardSpec
<1>2. Shape /\ [BoardNext]_board_vars => [Thaws]_tables
  BY ThawsStep
<1>3. [][Thaws]_tables => FrozenBoardMoves
  BY DEF Thaws, FrozenBoardMoves
<1> QED  BY <1>1, <1>2, <1>3, PTL DEF BoardSpec
=============================================================================
