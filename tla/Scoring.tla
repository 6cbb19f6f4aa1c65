------------------------------- MODULE Scoring -------------------------------
(***************************************************************************)
(* What a team has earned: the points of the challenges and their parts,    *)
(* and the score the scoreboard and the hint gate compute from the          *)
(* submissions table and the members a team has at that moment.             *)
(***************************************************************************)
EXTENDS Submissions

Folds == INSTANCE Folds

CONSTANTS
  Points,     \* what each challenge is worth: initially, at least, and how fast it decays
  Weights,    \* the weights of its parts, in hundredths
  Deduction   \* hint_deduction_mode

HintDeductionMode == {"None", "FloorZero", "AllowNegative", "Gate"}

\* PointValue and PointAttribution are worth the same however often solved.
ScoringMode == [initial : Nat, minimum : Nat, decay : Nat]

ASSUME ScoringAssumption ==
  /\ IsFiniteSet(Challenges)
  /\ Points \in [Challenges -> ScoringMode]
  /\ \A c \in Challenges :
       /\ Points[c].minimum <= Points[c].initial
       /\ Weights[c] \in Seq(Nat) /\ Len(Weights[c]) = Len(Config[c].parts)
  /\ Deduction \in HintDeductionMode
-----------------------------------------------------------------------------
\* n / d rounded to the nearest natural number, halves up, as f64::round does.
Rounded(n, d) == (2 * n + d) \div (2 * d)

\* calculate_dynamic_points: initial for the first solve, towards minimum after.
DynamicPoints(p, solves) ==
  IF solves <= 1 THEN p.initial
  ELSE LET x == (solves - 1) * (solves - 1)
           d == p.decay * p.decay
       IN  p.minimum + Rounded((p.initial - p.minimum) * d, d + x)

\* What part i of challenge c is worth; a flag that is not Multi is worth it all.
PartPoints(c, i, solves) ==
  IF Config[c].multi THEN Rounded(DynamicPoints(Points[c], solves) * Weights[c][i], 100)
  ELSE DynamicPoints(Points[c], solves)

\* The team's correct rows for part i. An instanced part is compared with the
\* row's own flag, so it accepts every row.
RowsFor(subs, t, c, i) ==
  {k \in Solves(subs, c) :
     /\ subs[k].team = t
     /\ Config[c].multi => Accepts(Config[c].parts[i], subs[k].flag, subs[k].flag)}

\* Under team consensus every current member needs a row.
Scored(subs, t, members, c, i) ==
  LET rows == RowsFor(subs, t, c, i)
  IN  IF Config[c].consensus
      THEN members # {} /\ members \subseteq AccountsIn(subs, rows)
      ELSE rows # {}

\* Iterator::sum, of what f has for each element of its domain.
SumOf(f) ==
  Folds!MapThenFoldSet(+, 0, LAMBDA x : f[x], LAMBDA S : CHOOSE x \in S : TRUE, DOMAIN f)

\* compute_team_solve_score.
SolvePoints(subs, t, members) ==
  LET scored == {x \in UNION {{c} \X DOMAIN Config[c].parts : c \in Challenges} :
                   Scored(subs, t, members, x[1], x[2])}
      worth(x) == PartPoints(x[1], x[2], Cardinality(Solvers(subs, x[1])))
  IN  SumOf([x \in scored |-> worth(x)])

\* total_hint_cost of a team, or with no team of an account's own unlocks.
Unlocker(u, team, account) ==
  u.team = team /\ (team = NoTeam => u.account = account)

TotalCost(unlocks, team, account) ==
  LET mine == {k \in DOMAIN unlocks : Unlocker(unlocks[k], team, account)}
  IN  SumOf([k \in mine |-> unlocks[k].cost])
=============================================================================
