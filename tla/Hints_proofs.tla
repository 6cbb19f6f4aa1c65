----------------------------- MODULE Hints_proofs -----------------------------
(***************************************************************************)
(* Proofs about overlapping unlocks, for any number of handlers, accounts,  *)
(* teams, challenges and hints, in every deduction mode. What a team has    *)
(* earned and spent are sums, which Scoring_proofs is about.                *)
(***************************************************************************)
EXTENDS Hints, Scoring_proofs

\* The table of submissions has finitely many solvers.
LEMMA SolversNat ==
  ASSUME NEW subs \in Seq(Submission), NEW c
  PROVE  Cardinality(Solvers(subs, c)) \in Nat
BY SeqFinite, FiniteSolvers

\* All that a team scores in it is worth natural numbers.
LEMMA WorthsNat ==
  ASSUME NEW subs \in Seq(Submission), NEW t, NEW members
  PROVE  Worths(subs, t, members) \in [ScoredParts(subs, t, members) -> Nat]
BY SeqFinite, FiniteWorths

\* And so is its score.
LEMMA SolvePointsNat ==
  ASSUME NEW subs \in Seq(Submission), NEW t, NEW members
  PROVE  SolvePoints(subs, t, members) \in Nat
BY SeqFinite, FiniteScore

\* The table of unlocks is one.
LEMMA CostOfRows ==
  ASSUME NEW rows \in Seq(HintUnlock), NEW t \in Teams, NEW a
  PROVE  /\ TotalCost(rows, t, a) = SumOf(ChargedCosts(rows, t))
         /\ TotalCost(rows, t, a) \in Nat
         /\ IsFiniteSet(Charged(rows, t))
         /\ ChargedCosts(rows, t) \in [Charged(rows, t) -> Nat]
<1>1. IsFiniteSet(DOMAIN rows)
  BY SeqFinite
<1>2. \A k \in DOMAIN rows : rows[k].cost \in Nat
  <2>1. \A k \in DOMAIN rows : rows[k] \in HintUnlock
    OBVIOUS
  <2> QED
    BY <2>1 DEF HintUnlock
<1> QED
  BY <1>1, <1>2, FiniteCost DEF Priced
-----------------------------------------------------------------------------
\* Where scores are steady, more rows never lower one and members do not count.
LEMMA ScoreGrows ==
  ASSUME Steady, NEW old \in Seq(Submission), NEW new \in Seq(Submission),
         \A k \in DOMAIN old : k \in DOMAIN new /\ new[k] = old[k],
         NEW t, NEW before, NEW after
  PROVE  SolvePoints(old, t, before) <= SolvePoints(new, t, after)
<1> DEFINE D == ScoredParts(new, t, after)
           E == ScoredParts(old, t, before)
           f == Worths(new, t, after)
           e == Worths(old, t, before)
<1>1. IsFiniteSet(D) /\ f \in [D -> Nat] /\ e \in [E -> Nat]
  BY ScoredFinite, WorthsNat
<1>2. E \in SUBSET D
  <2> SUFFICES ASSUME NEW x \in E
               PROVE  x \in D
    OBVIOUS
  <2>1. /\ x[1] \in Challenges /\ Scored(old, t, before, x[1], x[2])
        /\ x \in UNION {{c} \X DOMAIN Config[c].parts : c \in Challenges}
    BY ScoredFinite DEF ScoredParts
  <2>2. ~Config[x[1]].consensus
    BY <2>1 DEF Steady
  <2>3. RowsFor(old, t, x[1], x[2]) \subseteq RowsFor(new, t, x[1], x[2])
    BY DEF RowsFor, Solves
  <2>4. Scored(new, t, after, x[1], x[2])
    BY <2>1, <2>2, <2>3 DEF Scored
  <2> QED
    BY <2>1, <2>4 DEF ScoredParts
<1>3. ASSUME NEW x \in E
      PROVE  e[x] <= f[x]
  <2>1. x[1] \in Challenges /\ x[2] \in DOMAIN Config[x[1]].parts /\ x \in D
    BY <1>2, ScoredFinite
  <2>2. Points[x[1]].minimum = Points[x[1]].initial
    BY <2>1 DEF Steady
  <2>3. \A n \in Nat : PartPoints(x[1], x[2], n) = PartPoints(x[1], x[2], 1)
    BY <2>1, <2>2, PartNat
  <2>4. e[x] = PartPoints(x[1], x[2], 1) /\ f[x] = PartPoints(x[1], x[2], 1)
    BY <2>1, <2>3, SolversNat DEF Worths
  <2>5. e[x] \in Nat
    BY <1>1
  <2> QED
    BY <2>4, <2>5
<1> HIDE DEF D, E, f, e
<1>4. SumOf(e) <= SumOf(f)
  BY <1>1, <1>2, <1>3, SumLess
<1> QED
  BY <1>4, PointsOfParts DEF e, f

\* A new row costs its team what it says, and other teams nothing.
LEMMA CostOfAnother ==
  ASSUME NEW rows \in Seq(HintUnlock), NEW u \in HintUnlock, NEW t \in Teams, NEW a
  PROVE  TotalCost(Append(rows, u), t, a)
           = TotalCost(rows, t, a) + (IF u.team = t THEN u.cost ELSE 0)
<1> DEFINE new == Append(rows, u)
           n   == Len(rows) + 1
<1>1. /\ new \in Seq(HintUnlock) /\ n \notin DOMAIN rows /\ new[n] = u
      /\ DOMAIN new = DOMAIN rows \cup {n}
      /\ \A k \in DOMAIN rows : new[k] = rows[k]
  OBVIOUS
<1> HIDE DEF new, n
<1>2. u.cost \in Nat
  BY DEF HintUnlock
<1>3. CASE u.team = t
  <2>1. Charged(new, t) = Charged(rows, t) \cup {n} /\ n \notin Charged(rows, t)
    BY <1>1, <1>3 DEF Charged
  <2>2. Charged(new, t) \ {n} = Charged(rows, t) /\ n \in Charged(new, t)
    BY <2>1
  <2>3. [k \in Charged(new, t) \ {n} |-> ChargedCosts(new, t)[k]] = ChargedCosts(rows, t)
    BY <1>1, <2>1, <2>2 DEF ChargedCosts, Charged
  <2>4. ChargedCosts(new, t)[n] = u.cost
    BY <1>1, <2>2 DEF ChargedCosts
  <2>5. SumOf(ChargedCosts(new, t)) =
          ChargedCosts(new, t)[n] + SumOf([k \in Charged(new, t) \ {n} |-> ChargedCosts(new, t)[k]])
    <3>1. /\ IsFiniteSet(Charged(new, t))
          /\ ChargedCosts(new, t) \in [Charged(new, t) -> Nat]
      BY <1>1, CostOfRows
    <3> DEFINE among == Charged(new, t)
               costs == ChargedCosts(new, t)
    <3>2. n \in among /\ IsFiniteSet(among) /\ costs \in [among -> Nat]
      BY <2>2, <3>1
    <3> HIDE DEF among, costs
    <3>3. SumOf(costs) = costs[n] + SumOf([k \in among \ {n} |-> costs[k]])
      BY <3>2, SumTake, ZenonT(80)
    <3> QED
      BY <3>3 DEF among, costs
  <2>6. SumOf(ChargedCosts(new, t)) = u.cost + SumOf(ChargedCosts(rows, t))
    BY <2>3, <2>4, <2>5
  <2>7. TotalCost(new, t, a) = u.cost + TotalCost(rows, t, a) /\ TotalCost(rows, t, a) \in Nat
    BY <1>1, <2>6, CostOfRows
  <2> QED
    BY <1>2, <1>3, <2>7 DEF new
<1>4. CASE u.team # t
  <2>1. Charged(new, t) = Charged(rows, t)
    BY <1>1, <1>4 DEF Charged
  <2>2. ChargedCosts(new, t) = ChargedCosts(rows, t)
    BY <1>1, <2>1 DEF ChargedCosts, Charged
  <2>3. TotalCost(new, t, a) = TotalCost(rows, t, a) /\ TotalCost(rows, t, a) \in Nat
    BY <1>1, <2>2, CostOfRows
  <2> QED
    BY <1>4, <2>3 DEF new
<1> QED
  BY <1>3, <1>4
-----------------------------------------------------------------------------
Checked == {"existing", "team", "spent", "save"}

\* A request past its first check is for a hint that exists.
Shape ==
  /\ TypeOK
  /\ \A h \in Handlers :
       pc[h] \in Checked => req[h].hint \in DOMAIN Costs[req[h].challenge]

\* What a request is about stays the same while it runs.
Kept(r, s) ==
  /\ s.challenge = r.challenge /\ s.hint = r.hint
  /\ s.team = r.team /\ s.account = r.account

\* What a step does to a handler it leaves running, and to the unlocks.
Moved(h) ==
  \/ pc[h] = "idle" /\ pc'[h] = "submissions"
  \/ ReadSubmissions(h) \/ Charge(h) \/ ReadTeam(h) \/ PassGate(h)
  \/ pc'[h] = pc[h] /\ req'[h] = req[h]

\* What a handler read of the table is a table, and a beginning of it.
LEMMA SnapshotRead ==
  ASSUME submissions \in Seq(Submission), NEW h, req[h].all_subs \in Nat,
         req[h].all_subs <= Len(submissions)
  PROVE  /\ Snapshot(h) \in Seq(Submission)
         /\ \A k \in DOMAIN Snapshot(h) :
              k \in DOMAIN submissions /\ submissions[k] = Snapshot(h)[k]
BY DEF Snapshot

\* The tables and the locals of a handler stay well formed.
LEMMA ShapeStep == Shape /\ [Next]_vars => Shape'
<1> SUFFICES ASSUME Shape, [Next]_vars
             PROVE  Shape'
  OBVIOUS
<1> USE DEF Shape, TypeOK, Steps, Checked
<1>1. ASSUME NEW h \in Handlers, NEW a \in Accounts, NEW c \in Challenges,
             NEW n \in 1..Len(Costs[c]) + 1, Receive(h, a, c, n)
      PROVE  Shape'
  <2> DEFINE r == [challenge |-> c, hint |-> n, team |-> team_of[a], account |-> a,
                   all_subs |-> 0, cost |-> 0, solve_points |-> 0]
  <2>1. Len(Costs[c]) \in Nat
    BY HintsAssumption
  <2>2. r \in Request
    BY <2>1 DEF Request
  <2>3. req' = [req EXCEPT ![h] = r] /\ pc' = [pc EXCEPT ![h] = "submissions"]
        /\ UNCHANGED <<submissions, team_of, unlocks>>
    BY <1>1 DEF Receive, Goto
  <2>4. r.all_subs <= Len(submissions)
    OBVIOUS
  <2> HIDE DEF r
  <2> QED
    BY <2>2, <2>3, <2>4
<1>2. ASSUME NEW h \in Handlers, ReadSubmissions(h)
      PROVE  Shape'
  <2>1. Len(submissions) \in Nat
    OBVIOUS
  <2>2. req[h] \in Request
    BY <1>2 DEF ReadSubmissions, Goto
  <2> DEFINE r == [req[h] EXCEPT !.all_subs = Len(submissions)]
  <2>3. r \in Request
    BY <2>1, <2>2 DEF Request
  <2>4. r.challenge = req[h].challenge /\ r.hint = req[h].hint /\ r.all_subs = Len(submissions)
    BY <2>2 DEF Request
  <2>5. /\ req' = [req EXCEPT ![h] = r] /\ pc' = [pc EXCEPT ![h] = "existing"]
        /\ req[h].hint \in DOMAIN Costs[req[h].challenge]
        /\ UNCHANGED <<submissions, team_of, unlocks>>
    BY <1>2 DEF ReadSubmissions, Goto
  <2> HIDE DEF r
  <2>6. r.all_subs <= Len(submissions) /\ r.hint \in DOMAIN Costs[r.challenge]
    BY <2>1, <2>4, <2>5
  <2> QED
    BY <2>3, <2>5, <2>6
<1>3. ASSUME NEW h \in Handlers, Charge(h)
      PROVE  Shape'
  <2>1. PICK cost \in Costs[req[h].challenge][req[h].hint] :
          req' = [req EXCEPT ![h].cost = cost]
    BY <1>3 DEF Charge
  <2>2. req[h] \in Request
        /\ req[h].hint \in DOMAIN Costs[req[h].challenge]
    BY <1>3 DEF Charge
  <2>3. Costs[req[h].challenge] \in Seq(SUBSET Nat)
    BY <2>2, HintsAssumption DEF Request
  <2>4. cost \in Nat
    BY <2>1, <2>2, <2>3
  <2> DEFINE r == [req[h] EXCEPT !.cost = cost]
  <2>5. /\ r \in Request /\ r.challenge = req[h].challenge /\ r.hint = req[h].hint
        /\ r.all_subs = req[h].all_subs
    BY <2>2, <2>4 DEF Request
  <2>6. PICK next \in {"team", "save"} :
          /\ pc' = [pc EXCEPT ![h] = next] /\ pc[h] = "existing"
          /\ UNCHANGED <<submissions, team_of, unlocks>>
    BY <1>3 DEF Charge
  <2>7. req' = [req EXCEPT ![h] = r]
    BY <2>1
  <2> HIDE DEF r
  <2>8. r.hint \in DOMAIN Costs[r.challenge] /\ r.all_subs <= Len(submissions)
    BY <2>2, <2>5, <2>6
  <2> QED
    BY <2>5, <2>6, <2>7, <2>8
<1>4. ASSUME NEW h \in Handlers, ReadTeam(h)
      PROVE  Shape'
  <2> DEFINE score == SolvePoints(Snapshot(h), req[h].team, Members(req[h].team))
  <2>1. req' = [req EXCEPT ![h].solve_points = score]
    BY <1>4 DEF ReadTeam
  <2>2. req[h] \in Request /\ req[h].all_subs <= Len(submissions)
    BY <1>4 DEF ReadTeam, Goto
  <2>3. score \in Nat
    <3>1. submissions \in Seq(Submission) /\ req[h].all_subs \in Nat
      BY <2>2 DEF Request
    <3>2. Snapshot(h) \in Seq(Submission)
      BY <2>2, <3>1, SnapshotRead
    <3> QED
      BY <3>2, SolvePointsNat
  <2> HIDE DEF score
  <2>4. req'[h] = [req[h] EXCEPT !.solve_points = score]
    BY <2>1, <2>2
  <2>5. req'[h] \in Request /\ Kept(req[h], req'[h]) /\ req'[h].all_subs = req[h].all_subs
    BY <2>2, <2>3, <2>4 DEF Request, Kept
  <2> QED
    BY <1>4, <2>1, <2>5 DEF ReadTeam, Goto, Kept
<1>5. ASSUME NEW h \in Handlers, PassGate(h)
      PROVE  Shape'
  BY <1>5 DEF PassGate, Goto
<1>6. ASSUME NEW h \in Handlers, Save(h)
      PROVE  Shape'
  <2>1. req[h] \in Request
    BY <1>6 DEF Save
  <2>2. Row(req[h]) \in HintUnlock
    BY <2>1 DEF Row, HintUnlock, Request
  <2>3. unlocks' \in Seq(HintUnlock)
    BY <1>6, <2>2 DEF Save
  <2> QED
    BY <1>6, <2>3 DEF Save, Finish
<1>7. ASSUME NEW h \in Handlers, Return(h) \/ Abandon(h)
      PROVE  Shape'
  BY <1>7 DEF Return, Abandon, Finish
<1>8. ASSUME NEW a \in Accounts, NEW c \in Challenges, NEW f \in Flags, Submit(a, c, f)
      PROVE  Shape'
  <2>1. [challenge |-> c, team |-> team_of[a], account |-> a, flag |-> f,
         correct |-> FirstMatch(c, f, NoFlag) # 0, count |-> 0] \in Submission
    BY DEF Submission
  <2>2. submissions' \in Seq(Submission) /\ Len(submissions') = Len(submissions) + 1
    BY <1>8, <2>1 DEF Submit
  <2>3. \A g \in Handlers : pc'[g] # "idle" => req'[g] \in Request
                                                /\ req'[g].all_subs <= Len(submissions')
    <3>1. \A g \in Handlers : pc[g] # "idle" => req[g] \in Request
                                                 /\ req[g].all_subs <= Len(submissions)
      OBVIOUS
    <3>2. \A r \in Request : r.all_subs \in Nat
      BY DEF Request
    <3>3. Len(submissions) \in Nat /\ pc' = pc /\ req' = req
      BY <1>8 DEF Submit
    <3> QED
      BY <2>2, <3>1, <3>2, <3>3
  <2> QED
    BY <1>8, <2>2, <2>3 DEF Submit
<1>9. ASSUME NEW a \in Accounts, NEW t \in Teams \cup {NoTeam}, SetTeam(a, t)
      PROVE  Shape'
  BY <1>9 DEF SetTeam
<1>10. CASE UNCHANGED vars
  BY <1>10 DEF vars
<1> QED
  BY <1>1, <1>2, <1>3, <1>4, <1>5, <1>6, <1>7, <1>8, <1>9, <1>10 DEF Next

\* It starts so.
LEMMA ShapeInit == Init => Shape
BY DEF Init, Shape, TypeOK, Steps, Checked
-----------------------------------------------------------------------------
\* A running request is for what it was for, and each of its steps is one of
\* these; a finished one leaves its handler idle.
LEMMA Moves ==
  ASSUME Shape, [Next]_vars, NEW h \in Handlers, pc'[h] # "idle"
  PROVE  /\ Moved(h)
         /\ pc[h] # "idle" => Kept(req[h], req'[h])
<1> USE DEF Shape, TypeOK, Steps, Moved, Kept, Goto
<1>1. ASSUME NEW g \in Handlers, NEW a \in Accounts, NEW c \in Challenges,
             NEW n \in 1..Len(Costs[c]) + 1, Receive(g, a, c, n)
      PROVE  Moved(h) /\ (pc[h] # "idle" => Kept(req[h], req'[h]))
  BY <1>1 DEF Receive
<1>2. ASSUME NEW g \in Handlers, ReadSubmissions(g)
      PROVE  Moved(h) /\ Kept(req[h], req'[h])
  BY <1>2 DEF ReadSubmissions, Request
<1>3. ASSUME NEW g \in Handlers, Charge(g)
      PROVE  Moved(h) /\ Kept(req[h], req'[h])
  <2>1. CASE g = h
    <3>1. PICK cost : req' = [req EXCEPT ![h].cost = cost]
      BY <1>3, <2>1 DEF Charge
    <3>2. req[h] \in Request
      BY <1>3, <2>1 DEF Charge
    <3>3. Kept(req[h], req'[h])
      BY <3>1, <3>2 DEF Request
    <3> QED
      BY <1>3, <2>1, <3>3
  <2>2. CASE g # h
    BY <1>3, <2>2 DEF Charge
  <2> QED
    BY <2>1, <2>2
<1>4. ASSUME NEW g \in Handlers, ReadTeam(g)
      PROVE  Moved(h) /\ Kept(req[h], req'[h])
  BY <1>4 DEF ReadTeam, Request
<1>5. ASSUME NEW g \in Handlers, PassGate(g)
      PROVE  Moved(h) /\ Kept(req[h], req'[h])
  BY <1>5 DEF PassGate
<1>6. ASSUME NEW g \in Handlers, Save(g) \/ Return(g) \/ Abandon(g)
      PROVE  Moved(h) /\ Kept(req[h], req'[h])
  BY <1>6 DEF Save, Return, Abandon, Finish
<1>7. ASSUME NEW a \in Accounts, NEW c \in Challenges, NEW f \in Flags, Submit(a, c, f)
      PROVE  Moved(h) /\ Kept(req[h], req'[h])
  BY <1>7 DEF Submit
<1>8. ASSUME NEW a \in Accounts, NEW t \in Teams \cup {NoTeam}, SetTeam(a, t)
      PROVE  Moved(h) /\ Kept(req[h], req'[h])
  BY <1>8 DEF SetTeam
<1>9. CASE UNCHANGED vars
  BY <1>9 DEF vars
<1> QED
  BY <1>1, <1>2, <1>3, <1>4, <1>5, <1>6, <1>7, <1>8, <1>9 DEF Next

\* Only repos/pg/hints.rs:42 writes the unlocks, and submissions only grow.
LEMMA TablesMove ==
  ASSUME [Next]_vars
  PROVE  /\ unlocks' = unlocks \/ \E h \in Handlers : Save(h)
         /\ \/ submissions' = submissions
            \/ \E a \in Accounts, c \in Challenges, f \in Flags : Submit(a, c, f)
BY DEF Next, Receive, ReadSubmissions, Charge, ReadTeam, PassGate, Save, Return, Abandon,
       Submit, SetTeam, vars
-----------------------------------------------------------------------------
\* Two requests, or a request and a row, that are charged as one.
Same(r, s) ==
  /\ r.challenge = s.challenge /\ r.hint = s.hint
  /\ Unlocker(r, s.team, s.account)

Charging == {"team", "spent", "save"}

\* The requests for the hint of r that found no row and may still write one.
ChargingFor(r) == {h \in Handlers : pc[h] \in Charging /\ Same(req[h], r)}

\* services/hint.rs:118 looks for rows several awaits before it writes one, so
\* the bound must also count the handlers in between.
ChargeRoom ==
  \A r \in HintUnlock :
    Cardinality(ChargesFor(r)) + Cardinality(ChargingFor(r)) <= Cardinality(Handlers)

\* Both sets that are counted are finite.
LEMMA ChargesFinite ==
  ASSUME Shape, NEW r
  PROVE  /\ IsFiniteSet(ChargesFor(r)) /\ Cardinality(ChargesFor(r)) \in Nat
         /\ IsFiniteSet(ChargingFor(r)) /\ Cardinality(ChargingFor(r)) \in Nat
         /\ Cardinality(ChargingFor(r)) <= Cardinality(Handlers)
         /\ Cardinality(Handlers) \in Nat
<1>1. Len(unlocks) \in Nat /\ DOMAIN unlocks = 1..Len(unlocks)
  BY DEF Shape, TypeOK
<1>2. IsFiniteSet(DOMAIN unlocks)
  BY <1>1, FS_Interval
<1>3. ChargesFor(r) \subseteq DOMAIN unlocks /\ ChargingFor(r) \subseteq Handlers
  BY DEF ChargesFor, ChargingFor
<1> QED
  BY <1>2, <1>3, HintsAssumption, FS_Subset, FS_CardinalityType

\* Nothing is charged at first.
LEMMA ChargeInit == Init => ChargeRoom
<1> SUFFICES ASSUME Init, NEW r \in HintUnlock
             PROVE  Cardinality(ChargesFor(r)) + Cardinality(ChargingFor(r))
                      <= Cardinality(Handlers)
  BY DEF ChargeRoom
<1>1. ChargesFor(r) = {} /\ ChargingFor(r) = {}
  BY DEF Init, ChargesFor, ChargingFor, Charging
<1> QED
  BY <1>1, FS_EmptySet, HintsAssumption, FS_CardinalityType

\* A save turns a handler into a row; a handler starts charging while no row exists.
LEMMA ChargeStep == Shape /\ ChargeRoom /\ [Next]_vars => ChargeRoom'
<1> SUFFICES ASSUME Shape, ChargeRoom, [Next]_vars, NEW r \in HintUnlock
             PROVE  Cardinality(ChargesFor(r)') + Cardinality(ChargingFor(r)')
                      <= Cardinality(Handlers)
  BY DEF ChargeRoom
<1> DEFINE sum == Cardinality(ChargesFor(r)) + Cardinality(ChargingFor(r))
<1>0. Shape' /\ sum <= Cardinality(Handlers)
  BY ShapeStep DEF ChargeRoom
<1>1. ASSUME NEW h \in Handlers, Save(h)
      PROVE  Cardinality(ChargesFor(r)') + Cardinality(ChargingFor(r)')
               <= Cardinality(Handlers)
  <2>1. /\ pc[h] = "save" /\ pc' = [pc EXCEPT ![h] = "idle"]
        /\ unlocks' = Append(unlocks, Row(req[h]))
        /\ \A g \in Handlers : g # h => req'[g] = req[g]
    BY <1>1 DEF Save, Finish, Shape, TypeOK
  <2>2. ChargingFor(r)' = ChargingFor(r) \ {h}
    BY <2>1 DEF ChargingFor, Charging, Shape, TypeOK
  <2>3. /\ DOMAIN unlocks' = DOMAIN unlocks \cup {Len(unlocks) + 1}
        /\ Len(unlocks) + 1 \notin DOMAIN unlocks
        /\ \A i \in DOMAIN unlocks : unlocks'[i] = unlocks[i]
        /\ unlocks'[Len(unlocks) + 1] = Row(req[h])
    <3>1. Row(req[h]) \in HintUnlock
      BY <2>1 DEF Shape, TypeOK, Row, HintUnlock, Request
    <3> QED
      BY <2>1, <3>1 DEF Shape, TypeOK
  <2>4. CASE Same(req[h], r)
    <3>1. h \in ChargingFor(r)
      BY <2>1, <2>4 DEF ChargingFor, Charging
    <3>2. ChargesFor(r)' = ChargesFor(r) \cup {Len(unlocks) + 1}
          /\ Len(unlocks) + 1 \notin ChargesFor(r)
      BY <2>3, <2>4 DEF ChargesFor, Same, Row, Unlocker
    <3>3. Cardinality(ChargesFor(r)') = Cardinality(ChargesFor(r)) + 1
      BY <3>2, ChargesFinite, FS_AddElement
    <3>4. Cardinality(ChargingFor(r)') = Cardinality(ChargingFor(r)) - 1
      BY <2>2, <3>1, ChargesFinite, FS_RemoveElement
    <3> QED
      BY <3>3, <3>4, <1>0, ChargesFinite
  <2>5. CASE ~Same(req[h], r)
    <3>1. ChargesFor(r)' = ChargesFor(r)
      BY <2>3, <2>5 DEF ChargesFor, Same, Row, Unlocker
    <3>2. Cardinality(ChargingFor(r)') <= Cardinality(ChargingFor(r))
          /\ Cardinality(ChargingFor(r)') \in Nat
      BY <2>2, ChargesFinite, FS_Subset, FS_CardinalityType
    <3> QED
      BY <3>1, <3>2, <1>0, ChargesFinite
  <2> QED
    BY <2>4, <2>5
<1>2. ASSUME unlocks' = unlocks
      PROVE  Cardinality(ChargesFor(r)') + Cardinality(ChargingFor(r)')
               <= Cardinality(Handlers)
  <2>1. ChargesFor(r)' = ChargesFor(r)
    BY <1>2 DEF ChargesFor
  <2>2. \A h \in Handlers : h \in ChargingFor(r)' =>
          \/ h \in ChargingFor(r)
          \/ Charge(h) /\ Kept(req[h], req'[h]) /\ Same(req'[h], r)
    <3> SUFFICES ASSUME NEW h \in Handlers, h \in ChargingFor(r)', h \notin ChargingFor(r)
                 PROVE  Charge(h) /\ Kept(req[h], req'[h]) /\ Same(req'[h], r)
      OBVIOUS
    <3>1. pc'[h] \in Charging /\ Same(req'[h], r) /\ pc'[h] # "idle"
      BY DEF ChargingFor, Charging
    <3>2. Moved(h) /\ (pc[h] # "idle" => Kept(req[h], req'[h]))
      BY <3>1, Moves
    <3>3. pc[h] \in Charging => Same(req[h], r)
      BY <3>1, <3>2 DEF Kept, Same, Unlocker, Charging
    <3>4. pc[h] \notin Charging
      BY <3>3 DEF ChargingFor
    <3> QED
      BY <3>1, <3>2, <3>4
      DEF Moved, ReadSubmissions, ReadTeam, PassGate, Charge, Goto, Charging, Shape, TypeOK
  <2>3. CASE \E h \in Handlers : Charge(h) /\ Kept(req[h], req'[h]) /\ Same(req'[h], r)
    <3>1. PICK h \in Handlers : Charge(h) /\ Kept(req[h], req'[h]) /\ Same(req'[h], r)
      BY <2>3
    <3>2. ChargesFor(req[h]) = {} /\ Same(req[h], r)
      BY <3>1 DEF Charge, Kept, Same, Unlocker
    <3>3. ChargesFor(r) = {}
      BY <3>2 DEF ChargesFor, Same, Unlocker
    <3>4. Cardinality(ChargesFor(r)) = 0
      BY <3>3, FS_EmptySet
    <3>5. ChargingFor(r)' \subseteq Handlers
      BY DEF ChargingFor
    <3>6. Cardinality(ChargingFor(r)') <= Cardinality(Handlers)
          /\ Cardinality(ChargingFor(r)') \in Nat
      BY <3>5, HintsAssumption, FS_Subset, FS_CardinalityType
    <3> QED
      BY <2>1, <3>4, <3>6, ChargesFinite
  <2>4. CASE ~\E h \in Handlers : Charge(h) /\ Kept(req[h], req'[h]) /\ Same(req'[h], r)
    <3>1. ChargingFor(r)' \subseteq ChargingFor(r)
      BY <2>2, <2>4 DEF ChargingFor
    <3>2. Cardinality(ChargingFor(r)') <= Cardinality(ChargingFor(r))
          /\ Cardinality(ChargingFor(r)') \in Nat
      BY <3>1, ChargesFinite, FS_Subset, FS_CardinalityType
    <3> QED
      BY <2>1, <3>2, <1>0, ChargesFinite
  <2> QED
    BY <2>3, <2>4
<1> QED
  BY <1>1, <1>2, TablesMove

\* services/hint.rs:119-169: a hint is charged to a team, or to an account
\* without one, at most once for every request that overlaps.
THEOREM ChargesAlwaysBounded == Spec => []ChargesBounded
<1>1. Shape /\ ChargeRoom => ChargesBounded
  <2> SUFFICES ASSUME Shape, ChargeRoom, NEW i \in DOMAIN unlocks
               PROVE  Cardinality(ChargesFor(unlocks[i])) <= Cardinality(Handlers)
    BY DEF ChargesBounded
  <2>1. unlocks[i] \in HintUnlock
    BY DEF Shape, TypeOK
  <2> QED
    BY <2>1, ChargesFinite DEF ChargeRoom
<1> QED
  BY <1>1, ShapeInit, ShapeStep, ChargeInit, ChargeStep, PTL DEF Spec

\* services/hint.rs:119-169: with one request at a time a hint is charged as
\* locales/en-US/openapi.ftl:35 says, once: only overlapping requests can charge it again.
THEOREM ChargedOnceAlone ==
  ASSUME Cardinality(Handlers) = 1
  PROVE  Spec => []ChargedOnce
<1>1. ChargesBounded => ChargedOnce
  BY DEF ChargesBounded, ChargedOnce
<1> QED
  BY <1>1, ChargesAlwaysBounded, PTL
-----------------------------------------------------------------------------
\* What UnlocksEarned asks of a row, and of a request past its check.
Earned(subs, u) ==
  u.account \notin Admins =>
    /\ Config[u.challenge].visible
    /\ Config[u.challenge].requires \subseteq SolvedBy(subs, u)

EarnedKnown ==
  \A h \in Handlers : pc[h] \in Checked => Earned(submissions, req[h])

\* Only who is charged, and for which challenge, decides; more rows never hurt.
LEMMA EarnedStays ==
  ASSUME Shape, [Next]_vars, NEW r, NEW s, Earned(submissions, r),
         s.account = r.account, s.team = r.team, s.challenge = r.challenge
  PROVE  Earned(submissions', s)
<1>1. \A i \in DOMAIN submissions :
        i \in DOMAIN submissions' /\ submissions'[i] = submissions[i]
  <2>1. CASE submissions' = submissions
    BY <2>1
  <2>2. ASSUME NEW row, submissions' = Append(submissions, row)
        PROVE  \A i \in DOMAIN submissions :
                 i \in DOMAIN submissions' /\ submissions'[i] = submissions[i]
    BY <2>2 DEF Shape, TypeOK
  <2> QED
    BY <2>1, <2>2, TablesMove DEF Submit
<1>2. SolvedBy(submissions, r) \subseteq SolvedBy(submissions', s)
  BY <1>1 DEF SolvedBy, Unlocker
<1> QED
  BY <1>2 DEF Earned

\* The check is made on a table that only grows, and the row names who was checked.
LEMMA EarnedStep ==
  Shape /\ EarnedKnown /\ UnlocksEarned /\ [Next]_vars => EarnedKnown' /\ UnlocksEarned'
<1> SUFFICES ASSUME Shape, EarnedKnown, UnlocksEarned, [Next]_vars
             PROVE  EarnedKnown' /\ UnlocksEarned'
  OBVIOUS
<1>1. ASSUME NEW h \in Handlers, pc'[h] \in Checked
      PROVE  Earned(submissions', req'[h])
  <2>1. Moved(h) /\ (pc[h] # "idle" => Kept(req[h], req'[h]))
    BY <1>1, Moves DEF Checked
  <2>2. pc[h] # "idle" /\ (pc[h] \in Checked \/ ReadSubmissions(h))
    BY <1>1, <2>1 DEF Moved, Checked, ReadSubmissions, Charge, ReadTeam, PassGate, Goto
  <2>3. Earned(submissions, req[h])
    BY <2>2 DEF EarnedKnown, ReadSubmissions, Allowed, Earned
  <2> QED
    BY <2>1, <2>2, <2>3, EarnedStays DEF Kept
<1>2. ASSUME NEW i \in DOMAIN unlocks'
      PROVE  Earned(submissions', unlocks'[i])
  <2>1. CASE i \in DOMAIN unlocks /\ unlocks'[i] = unlocks[i]
    <3>1. Earned(submissions, unlocks[i])
      BY <2>1 DEF UnlocksEarned, Earned
    <3> QED
      BY <2>1, <3>1, EarnedStays
  <2>2. CASE \E h \in Handlers : Save(h) /\ unlocks'[i] = Row(req[h])
    <3>1. PICK h \in Handlers : Save(h) /\ unlocks'[i] = Row(req[h])
      BY <2>2
    <3>2. Earned(submissions, req[h])
      BY <3>1 DEF Save, EarnedKnown, Checked
    <3> QED
      <4>1. /\ Row(req[h]).account = req[h].account /\ Row(req[h]).team = req[h].team
            /\ Row(req[h]).challenge = req[h].challenge
        BY DEF Row
      <4> QED
        BY <3>1, <3>2, <4>1, EarnedStays
  <2>3. ASSUME NEW h \in Handlers, Save(h)
        PROVE  (i \in DOMAIN unlocks /\ unlocks'[i] = unlocks[i]) \/ unlocks'[i] = Row(req[h])
    <3>1. Row(req[h]) \in HintUnlock
      BY <2>3 DEF Save, Shape, TypeOK, Row, HintUnlock, Request
    <3> QED
      BY <2>3, <3>1, <1>2 DEF Save, Shape, TypeOK
  <2> QED
    BY <1>2, <2>1, <2>2, <2>3, TablesMove
<1> QED
  BY <1>1, <1>2 DEF EarnedKnown, UnlocksEarned, Earned

\* services/hint.rs:84-114: whatever overlaps, every hint a player unlocked was
\* visible, with its prerequisites solved by the very team or account charged.
THEOREM UnlocksAlwaysEarned == Spec => []UnlocksEarned
<1>1. Init => EarnedKnown /\ UnlocksEarned
  BY DEF Init, EarnedKnown, UnlocksEarned, Checked
<1> QED
  BY <1>1, ShapeInit, ShapeStep, EarnedStep, PTL DEF Spec
-----------------------------------------------------------------------------
\* The tables, the steps and the locals of every handler keep their types; a
\* score read at the gate is a natural number, whatever is summed.
THEOREM TypeCorrect == Spec => []TypeOK
<1>1. Shape => TypeOK
  BY DEF Shape
<1> QED
  BY <1>1, ShapeInit, ShapeStep, PTL DEF Spec
-----------------------------------------------------------------------------
\* What a team has earned and spent, and the requests that may still add to it.
Score(t) == SolvePoints(submissions, t, {})

Spent(t) == SumOf(ChargedCosts(unlocks, t))

SavingFor(t) == {h \in Handlers : pc[h] = "save" /\ req[h].team = t}

Limit(t, m) == Score(t) + (Cardinality(Handlers) - 1) * m

\* A request pays what its hint costs, and a score it was judged by still stands.
GateKnown ==
  \A h \in Handlers :
    /\ pc[h] \in Charging => req[h].cost \in Costs[req[h].challenge][req[h].hint]
    /\ Steady => \A t \in Teams :
         pc[h] = "spent" /\ req[h].team = t => req[h].solve_points <= Score(t)

\* Past the gate, one request was judged by what is spent now; each of the others
\* may add a hint more.
Room(t, m) ==
  \/ SavingFor(t) = {} /\ Spent(t) <= Limit(t, m)
  \/ \E h \in SavingFor(t) :
       Spent(t) + req[h].cost + (Cardinality(SavingFor(t)) - 1) * m <= Limit(t, m)

OverspendRoom ==
  Deduction = "Gate" /\ Steady =>
    \A t \in Teams, m \in Nat : Dearest(m) => Room(t, m)

\* A factor that is no larger makes a product that is no larger.
LEMMA TimesLess ==
  ASSUME NEW i \in Nat, NEW j \in Nat, i <= j, NEW m \in Nat
  PROVE  i * m <= j * m
<1>1. PICK k \in Nat : j = i + k
  <2>1. j - i \in Nat /\ j = i + (j - i)
    OBVIOUS
  <2> QED
    BY <2>1
<1>2. (i + k) * m = i * m + k * m /\ i * m \in Nat /\ k * m \in Nat
  BY TimesNat
<1> QED
  BY <1>1, <1>2

\* One factor less makes a product smaller by the other.
LEMMA TimesOneLess ==
  ASSUME NEW k \in Nat, k > 0, NEW m \in Nat
  PROVE  k * m = (k - 1) * m + m /\ (k - 1) * m \in Nat
<1>1. k - 1 \in Nat
  OBVIOUS
<1> QED
  BY <1>1, TimesNat

\* Of the requests of G, if any, one was judged by what is spent; each other may
\* add m.
Judged(G, cost, m, spent, limit) ==
  \/ G = {} /\ spent <= limit
  \/ \E i \in G : spent + cost[i] + (Cardinality(G) - 1) * m <= limit

\* When g, which pays no more than m, is done, another of the rest was the one judged.
LEMMA OneDone ==
  ASSUME NEW G, IsFiniteSet(G), NEW g \in G, NEW m \in Nat, NEW cost \in [G -> 0..m],
         NEW before \in Nat, NEW after \in Nat, after <= before + cost[g], NEW limit \in Nat,
         NEW h \in G, before + cost[h] + (Cardinality(G) - 1) * m <= limit
  PROVE  Judged(G \ {g}, cost, m, after, limit)
<1> USE DEF Judged
<1> DEFINE k == Cardinality(G) - 1
<1>1. IsFiniteSet(G \ {g})
  BY FS_RemoveElement
<1>2. Cardinality(G) \in Nat /\ Cardinality(G \ {g}) = k /\ k \in Nat
  <2>1. Cardinality(G \ {g}) = k
    BY FS_RemoveElement
  <2>2. Cardinality(G \ {g}) \in Nat /\ Cardinality(G) \in Nat
    BY <1>1, FS_CardinalityType
  <2> QED
    BY <2>1, <2>2
<1>3. \A i \in G : cost[i] \in Nat /\ cost[i] <= m
  OBVIOUS
<1>4. k * m \in Nat /\ before + cost[h] + k * m <= limit
  BY <1>2, TimesNat
<1> HIDE DEF k
<1>5. CASE G \ {g} = {}
  <2>1. h = g
    BY <1>5
  <2> QED
    BY <1>3, <1>4, <1>5, <2>1
<1>6. CASE G \ {g} # {}
  <2>1. k > 0
    <3>1. k # 0
      BY <1>1, <1>2, <1>6, FS_EmptySet, Zenon
    <3> QED
      BY <1>2, <3>1
  <2>2. k * m = (k - 1) * m + m /\ (k - 1) * m \in Nat
    BY <1>2, <2>1, TimesOneLess
  <2>3. PICK i \in G \ {g} : h # g => i = h
    BY <1>6
  <2>4. after + cost[i] <= before + cost[h] + m
    <3>1. CASE h = g
      BY <1>3, <2>3, <3>1
    <3>2. CASE h # g
      BY <1>3, <2>3, <3>2
    <3> QED
      BY <3>1, <3>2
  <2>5. after + cost[i] + (k - 1) * m <= limit
    <3>1. cost[i] \in Nat /\ cost[h] \in Nat
      BY <1>3
    <3> QED
      BY <1>4, <2>2, <2>4, <3>1
  <2> QED
    BY <1>2, <2>3, <2>5
<1> QED
  BY <1>5, <1>6

\* All of these are numbers, and some request can be running.
LEMMA RoomTyped ==
  ASSUME Shape, NEW t \in Teams, NEW m \in Nat
  PROVE  /\ Score(t) \in Nat /\ Spent(t) \in Nat /\ Limit(t, m) \in Nat
         /\ IsFiniteSet(SavingFor(t)) /\ Cardinality(SavingFor(t)) \in Nat
         /\ Cardinality(SavingFor(t)) <= Cardinality(Handlers)
         /\ Cardinality(Handlers) \in Nat /\ Cardinality(Handlers) > 0
         /\ (Cardinality(Handlers) - 1) * m \in Nat
<1>1. Score(t) \in Nat
  BY SolvePointsNat DEF Score, Shape, TypeOK
<1>2. Spent(t) \in Nat
  <2>1. unlocks \in Seq(HintUnlock)
    BY DEF Shape, TypeOK
  <2> QED
    BY <2>1, CostOfRows DEF Spent
<1>3. IsFiniteSet(Handlers) /\ Cardinality(Handlers) \in Nat
  BY HintsAssumption, FS_CardinalityType
<1>4. Cardinality(Handlers) # 0
  BY HintsAssumption, <1>3, FS_EmptySet
<1>5. /\ IsFiniteSet(SavingFor(t)) /\ Cardinality(SavingFor(t)) \in Nat
      /\ Cardinality(SavingFor(t)) <= Cardinality(Handlers)
  <2>1. SavingFor(t) \subseteq Handlers
    BY DEF SavingFor
  <2> QED
    BY <1>3, <2>1, FS_Subset, FS_CardinalityType
<1>6. (Cardinality(Handlers) - 1) * m \in Nat
  <2>1. Cardinality(Handlers) - 1 \in Nat
    BY <1>3, <1>4
  <2> QED
    BY <2>1, TimesNat
<1> QED
  BY <1>1, <1>2, <1>3, <1>4, <1>5, <1>6 DEF Limit

\* Rows are only appended, so a steady score never falls.
LEMMA ScoreRises ==
  ASSUME Shape, [Next]_vars, Steady, NEW t
  PROVE  Score(t) <= Score(t)'
<1>1. Shape'
  BY ShapeStep
<1>2. submissions \in Seq(Submission) /\ submissions' \in Seq(Submission)
  BY <1>1 DEF Shape, TypeOK
<1>3. \A k \in DOMAIN submissions :
        k \in DOMAIN submissions' /\ submissions'[k] = submissions[k]
  <2>1. CASE submissions' = submissions
    BY <2>1
  <2>2. ASSUME NEW row, submissions' = Append(submissions, row)
        PROVE  \A k \in DOMAIN submissions :
                 k \in DOMAIN submissions' /\ submissions'[k] = submissions[k]
    BY <1>2, <2>2
  <2> QED
    BY <2>1, <2>2, TablesMove DEF Submit
<1> QED
  BY <1>2, <1>3, ScoreGrows DEF Score
\* No request has passed the gate at first.
LEMMA GateInit == Init => GateKnown /\ OverspendRoom
<1> SUFFICES ASSUME Init
             PROVE  GateKnown /\ OverspendRoom
  OBVIOUS
<1>1. GateKnown
  BY DEF Init, GateKnown, Charging
<1>2. ASSUME NEW t \in Teams, NEW m \in Nat
      PROVE  Room(t, m)
  <2>1. SavingFor(t) = {}
    BY DEF Init, SavingFor
  <2>2. DOMAIN ChargedCosts(unlocks, t) = {}
    BY DEF Init, ChargedCosts, Charged
  <2>3. Spent(t) = 0
    BY <2>2, SumEmpty DEF Spent
  <2> QED
    BY <2>1, <2>3, ShapeInit, RoomTyped DEF Room
<1> QED
  BY <1>1, <1>2 DEF OverspendRoom

\* No step makes an old score too high, or changes what a charging request pays.
LEMMA GateStep == Shape /\ GateKnown /\ [Next]_vars => GateKnown'
<1> SUFFICES ASSUME Shape, GateKnown, [Next]_vars, NEW h \in Handlers
             PROVE  /\ pc'[h] \in Charging =>
                         req'[h].cost \in Costs[req'[h].challenge][req'[h].hint]
                    /\ Steady => \A t \in Teams :
                         pc'[h] = "spent" /\ req'[h].team = t => req'[h].solve_points <= Score(t)'
  BY DEF GateKnown
<1>0. CASE pc'[h] \notin Charging
  BY <1>0 DEF Charging
<1>1. CASE pc'[h] \in Charging /\ pc'[h] = pc[h] /\ req'[h] = req[h]
  <2>1. ASSUME Steady, NEW t \in Teams, pc'[h] = "spent", req'[h].team = t
        PROVE  req'[h].solve_points <= Score(t)'
    <3>1. req[h].solve_points <= Score(t)
      BY <1>1, <2>1 DEF GateKnown
    <3>2. Score(t) <= Score(t)'
      BY <2>1, ScoreRises
    <3>3. req[h].solve_points \in Nat
      BY <1>1, <2>1 DEF Shape, TypeOK, Request
    <3>4. Score(t) \in Nat /\ Score(t)' \in Nat
      <4>1. Shape'
        BY ShapeStep
      <4>2. submissions \in Seq(Submission) /\ submissions' \in Seq(Submission)
        BY <4>1 DEF Shape, TypeOK
      <4> QED
        BY <4>2, SolvePointsNat DEF Score
    <3> QED
      BY <1>1, <3>1, <3>2, <3>3, <3>4
  <2> QED
    BY <1>1, <2>1 DEF GateKnown
<1>2. CASE Charge(h)
  <2>1. req[h] \in Request
    BY <1>2 DEF Charge, Shape, TypeOK
  <2>2. PICK cost \in Costs[req[h].challenge][req[h].hint] :
          req' = [req EXCEPT ![h].cost = cost] /\ pc'[h] # "spent"
    BY <1>2 DEF Charge, Shape, TypeOK
  <2>3. req'[h] = [req[h] EXCEPT !.cost = cost]
    BY <2>2 DEF Shape, TypeOK
  <2>4. req'[h].cost = cost /\ Kept(req[h], req'[h])
    BY <2>1, <2>3 DEF Request, Kept
  <2> QED
    BY <2>2, <2>4 DEF Kept
<1>3. CASE ReadTeam(h)
  <2> DEFINE score == SolvePoints(Snapshot(h), req[h].team, Members(req[h].team))
  <2>1. /\ req' = [req EXCEPT ![h].solve_points = score]
        /\ submissions' = submissions
    BY <1>3 DEF ReadTeam
  <2>2. req[h] \in Request /\ req[h].all_subs <= Len(submissions) /\ pc[h] \in Charging
    BY <1>3 DEF ReadTeam, Goto, Shape, TypeOK, Charging
  <2> HIDE DEF score
  <2>3. req'[h] = [req[h] EXCEPT !.solve_points = score]
    BY <2>1 DEF Shape, TypeOK
  <2>4. /\ req'[h].cost = req[h].cost /\ Kept(req[h], req'[h])
        /\ req'[h].solve_points = score
    BY <2>2, <2>3 DEF Request, Kept
  <2>5. ASSUME Steady, NEW t \in Teams, req'[h].team = t
        PROVE  score <= Score(t)'
    <3>1. submissions \in Seq(Submission) /\ req[h].all_subs \in Nat /\ req[h].team = t
      BY <2>2, <2>4, <2>5 DEF Shape, TypeOK, Request, Kept
    <3>2. /\ Snapshot(h) \in Seq(Submission)
          /\ \A k \in DOMAIN Snapshot(h) :
               k \in DOMAIN submissions /\ submissions[k] = Snapshot(h)[k]
      BY <2>2, <3>1, SnapshotRead
    <3>3. score <= Score(t)
      BY <2>5, <3>1, <3>2, ScoreGrows DEF score, Score
    <3>4. Score(t)' = Score(t)
      BY <2>1 DEF Score
    <3> QED
      BY <3>3, <3>4
  <2>6. req[h].cost \in Costs[req[h].challenge][req[h].hint]
    BY <2>2 DEF GateKnown
  <2> QED
    BY <2>4, <2>5, <2>6 DEF Kept
<1>4. CASE PassGate(h)
  <2>1. pc[h] \in Charging /\ pc'[h] = "save" /\ req' = req
    BY <1>4 DEF PassGate, Goto, Charging, Shape, TypeOK
  <2> QED
    BY <2>1 DEF GateKnown
<1>5. CASE (pc[h] = "idle" /\ pc'[h] = "submissions") \/ ReadSubmissions(h)
  <2>1. pc'[h] \notin Charging
    BY <1>5 DEF ReadSubmissions, Goto, Charging, Shape, TypeOK
  <2> QED
    BY <2>1, <1>0
<1> QED
  <2>1. CASE pc'[h] \in Charging
    <3>1. Moved(h)
      BY <2>1, Moves DEF Charging
    <3> QED
      BY <2>1, <3>1, <1>1, <1>2, <1>3, <1>4, <1>5 DEF Moved
  <2> QED
    BY <2>1, <1>0
\* What an append does to what the teams have spent.
LEMMA SpentBySave ==
  ASSUME Shape, NEW h \in Handlers, Save(h), NEW t \in Teams
  PROVE  Spent(t)' = Spent(t) + (IF req[h].team = t THEN req[h].cost ELSE 0)
<1>1. unlocks \in Seq(HintUnlock) /\ Row(req[h]) \in HintUnlock
  BY DEF Save, Shape, TypeOK, Row, HintUnlock, Request
<1>2. unlocks' = Append(unlocks, Row(req[h])) /\ unlocks' \in Seq(HintUnlock)
  BY <1>1 DEF Save
<1>3. TotalCost(unlocks', t, NoTeam)
        = TotalCost(unlocks, t, NoTeam) + (IF Row(req[h]).team = t THEN Row(req[h]).cost ELSE 0)
  BY <1>1, <1>2, CostOfAnother
<1>4. TotalCost(unlocks, t, NoTeam) = Spent(t) /\ TotalCost(unlocks', t, NoTeam) = Spent(t)'
  BY <1>1, <1>2, CostOfRows DEF Spent
<1>5. Row(req[h]).team = req[h].team /\ Row(req[h]).cost = req[h].cost
  BY DEF Row
<1> QED
  BY <1>3, <1>4, <1>5

\* A request joins those past the gate as the one judged, or one of them is done.
LEMMA RoomStep ==
  ASSUME Deduction = "Gate", Steady, Shape, GateKnown, [Next]_vars,
         NEW t \in Teams, NEW m \in Nat, Dearest(m), Room(t, m)
  PROVE  Room(t, m)'
<1> DEFINE G == SavingFor(t)
<1>0. Shape'
  BY ShapeStep
<1>1. /\ Spent(t) \in Nat /\ Spent(t)' \in Nat
      /\ Limit(t, m) \in Nat /\ Limit(t, m)' \in Nat /\ Limit(t, m) <= Limit(t, m)'
  <2>1. /\ Score(t) \in Nat /\ Spent(t) \in Nat /\ Limit(t, m) \in Nat
        /\ (Cardinality(Handlers) - 1) * m \in Nat
    BY RoomTyped
  <2>2. Spent(t)' \in Nat
    <3>1. unlocks' \in Seq(HintUnlock)
      BY <1>0 DEF Shape, TypeOK
    <3> QED
      BY <3>1, CostOfRows DEF Spent
  <2>3. Score(t)' \in Nat
    BY <1>0, SolvePointsNat DEF Score, Shape, TypeOK
  <2>4. Score(t) <= Score(t)'
    BY ScoreRises
  <2>5. Limit(t, m)' = Score(t)' + (Cardinality(Handlers) - 1) * m
    BY DEF Limit
  <2> QED
    BY <2>1, <2>2, <2>3, <2>4, <2>5 DEF Limit
<1>2. \A h \in G : req[h].cost \in Nat /\ req[h].cost <= m
  <2> SUFFICES ASSUME NEW h \in G
               PROVE  req[h].cost \in Nat /\ req[h].cost <= m
    OBVIOUS
  <2>1. /\ h \in Handlers /\ req[h] \in Request /\ req[h].hint \in DOMAIN Costs[req[h].challenge]
        /\ req[h].cost \in Costs[req[h].challenge][req[h].hint]
    BY DEF SavingFor, Shape, TypeOK, Checked, GateKnown, Charging
  <2> QED
    BY <2>1 DEF Request, Dearest
\* The request g is done, and may have been charged.
<1>3. ASSUME NEW g \in G, SavingFor(t)' = G \ {g},
             \A h \in G \ {g} : req'[h] = req[h],
             Spent(t)' <= Spent(t) + req[g].cost
      PROVE  Room(t, m)'
  <2> DEFINE cost == [h \in G |-> req[h].cost]
  <2>1. cost \in [G -> 0..m]
    BY <1>2
  <2>2. PICK h \in G : Spent(t) + req[h].cost + (Cardinality(G) - 1) * m <= Limit(t, m)
    BY DEF Room
  <2>3. /\ IsFiniteSet(G) /\ Cardinality(G) \in Nat
        /\ Cardinality(G) # 0 /\ (Cardinality(G) - 1) * m \in Nat
    <3>1. IsFiniteSet(G) /\ Cardinality(G) \in Nat
      BY RoomTyped
    <3>2. Cardinality(G) # 0
      BY <3>1, FS_EmptySet
    <3> QED
      BY <3>1, <3>2, TimesNat
  <2>4. Spent(t) + cost[h] + (Cardinality(G) - 1) * m <= Limit(t, m)'
    BY <1>1, <1>2, <2>2, <2>3
  <2>5. Spent(t)' <= Spent(t) + cost[g]
    BY <1>3
  <2>6. Judged(G \ {g}, cost, m, Spent(t)', Limit(t, m)')
    <3> HIDE DEF cost, G
    <3> QED
      BY <1>1, <2>1, <2>3, <2>4, <2>5, OneDone, Zenon
  <2> QED
    BY <1>3, <2>6 DEF Room, Judged
\* A request passes the gate: it was judged by a score that still stands.
<1>4. ASSUME NEW h \in Handlers, PassGate(h), req[h].team = t
      PROVE  Room(t, m)'
  <2>1. /\ pc[h] = "spent" /\ SavingFor(t)' = G \cup {h} /\ req' = req
        /\ unlocks' = unlocks /\ req[h] \in Request
    BY <1>4 DEF PassGate, Goto, SavingFor, Shape, TypeOK
  <2>2. req[h].solve_points <= Score(t)
    BY <1>4, <2>1 DEF GateKnown
  <2>3. Spent(t) + req[h].cost <= req[h].solve_points
    <3>1. unlocks \in Seq(HintUnlock)
      BY DEF Shape, TypeOK
    <3>2. TotalCost(unlocks, t, req[h].account) = Spent(t)
      BY <3>1, CostOfRows DEF Spent
    <3> QED
      BY <1>1, <1>4, <2>1, <3>2 DEF PassGate, Affordable, Request
  <2>4. Spent(t)' = Spent(t)
    BY <2>1 DEF Spent
  <2>5. /\ Cardinality(SavingFor(t)') \in Nat /\ Cardinality(SavingFor(t)') # 0
        /\ Cardinality(SavingFor(t)') <= Cardinality(Handlers)
        /\ Cardinality(Handlers) \in Nat
    <3>1. SavingFor(t)' \subseteq Handlers /\ SavingFor(t)' # {}
      BY <2>1 DEF SavingFor
    <3>2. IsFiniteSet(Handlers)
      BY HintsAssumption
    <3>3. IsFiniteSet(SavingFor(t)') /\ Cardinality(SavingFor(t)') <= Cardinality(Handlers)
      BY <3>1, <3>2, FS_Subset, Zenon
    <3>4. Cardinality(SavingFor(t)') # 0
      BY <3>1, <3>3, FS_EmptySet, Zenon
    <3> QED
      BY <3>2, <3>3, <3>4, FS_CardinalityType
  <2>6. (Cardinality(SavingFor(t)') - 1) * m <= (Cardinality(Handlers) - 1) * m
        /\ (Cardinality(SavingFor(t)') - 1) * m \in Nat
    <3>1. /\ Cardinality(SavingFor(t)') - 1 \in Nat /\ Cardinality(Handlers) - 1 \in Nat
          /\ Cardinality(SavingFor(t)') - 1 <= Cardinality(Handlers) - 1
      BY <2>5
    <3> QED
      BY <3>1, TimesLess, TimesNat
  <2>7. Spent(t) + req[h].cost + (Cardinality(SavingFor(t)') - 1) * m <= Limit(t, m)
    <3>1. /\ Score(t) \in Nat /\ (Cardinality(Handlers) - 1) * m \in Nat
          /\ req[h].cost \in Nat /\ req[h].solve_points \in Nat
      BY <2>1, RoomTyped DEF Request
    <3> QED
      BY <1>1, <2>2, <2>3, <2>6, <3>1 DEF Limit
  <2>8. Spent(t)' + req'[h].cost + (Cardinality(SavingFor(t)') - 1) * m <= Limit(t, m)'
    <3>1. req[h].cost \in Nat
      BY <2>1 DEF Request
    <3> QED
      BY <1>1, <2>1, <2>4, <2>6, <2>7, <3>1
  <2>9. h \in SavingFor(t)'
    BY <2>1
  <2> QED
    BY <2>8, <2>9 DEF Room
\* Nothing happens to them.
<1>5. ASSUME SavingFor(t)' = G, \A h \in G : req'[h] = req[h], Spent(t)' = Spent(t)
      PROVE  Room(t, m)'
  <2>1. CASE G = {} /\ Spent(t) <= Limit(t, m)
    BY <1>1, <1>5, <2>1 DEF Room
  <2>2. CASE G # {}
    <3>1. PICK h \in G : Spent(t) + req[h].cost + (Cardinality(G) - 1) * m <= Limit(t, m)
      BY <2>2 DEF Room
    <3>2. (Cardinality(G) - 1) * m \in Nat
      <4>1. IsFiniteSet(G) /\ Cardinality(G) \in Nat
        BY RoomTyped
      <4>2. Cardinality(G) # 0
        BY <2>2, <4>1, FS_EmptySet
      <4> QED
        BY <4>1, <4>2, TimesNat
    <3>3. Spent(t)' + req'[h].cost + (Cardinality(G) - 1) * m <= Limit(t, m)'
      BY <1>1, <1>2, <1>5, <3>1, <3>2
    <3> QED
      BY <1>5, <3>3 DEF Room
  <2> QED
    BY <2>1, <2>2 DEF Room
<1>6. ASSUME NEW h \in Handlers, Save(h)
      PROVE  Room(t, m)'
  <2>1. /\ pc[h] = "save" /\ pc' = [pc EXCEPT ![h] = "idle"]
        /\ \A g \in Handlers : g # h => req'[g] = req[g]
    BY <1>6 DEF Save, Finish, Shape, TypeOK
  <2>2. Spent(t)' = Spent(t) + (IF req[h].team = t THEN req[h].cost ELSE 0)
    BY <1>6, SpentBySave
  <2>3. CASE req[h].team = t
    <3>1. h \in G /\ SavingFor(t)' = G \ {h} /\ \A g \in G \ {h} : req'[g] = req[g]
      BY <2>1, <2>3 DEF SavingFor, Shape, TypeOK
    <3>2. Spent(t)' <= Spent(t) + req[h].cost
      BY <1>1, <1>2, <2>2, <2>3, <3>1
    <3> QED
      BY <1>3, <3>1, <3>2
  <2>4. CASE req[h].team # t
    <3>1. SavingFor(t)' = G /\ \A g \in G : req'[g] = req[g]
      BY <2>1, <2>4 DEF SavingFor, Shape, TypeOK
    <3> QED
      BY <1>1, <1>5, <2>2, <2>4, <3>1
  <2> QED
    BY <2>3, <2>4
<1>7. ASSUME NEW h \in Handlers, Return(h) \/ Abandon(h)
      PROVE  Room(t, m)'
  <2>1. /\ pc' = [pc EXCEPT ![h] = "idle"] /\ unlocks' = unlocks
        /\ \A g \in Handlers : g # h => req'[g] = req[g]
    BY <1>7 DEF Return, Abandon, Finish, Shape, TypeOK
  <2>2. Spent(t)' = Spent(t)
    BY <2>1 DEF Spent
  <2>3. CASE h \in G
    <3>1. SavingFor(t)' = G \ {h} /\ \A g \in G \ {h} : req'[g] = req[g]
      BY <2>1 DEF SavingFor, Shape, TypeOK
    <3>2. Spent(t)' <= Spent(t) + req[h].cost
      BY <1>1, <1>2, <2>2, <2>3
    <3> QED
      BY <1>3, <2>3, <3>1, <3>2
  <2>4. CASE h \notin G
    <3>1. SavingFor(t)' = G /\ \A g \in G : req'[g] = req[g]
      BY <2>1, <2>4 DEF SavingFor, Shape, TypeOK
    <3> QED
      BY <1>5, <2>2, <3>1
  <2> QED
    BY <2>3, <2>4
<1>8. ASSUME unlocks' = unlocks, ~\E h \in Handlers : Return(h) \/ Abandon(h),
             ~\E h \in Handlers : PassGate(h) /\ req[h].team = t
      PROVE  Room(t, m)'
  <2>1. Spent(t)' = Spent(t)
    BY <1>8 DEF Spent
  <2>2. \A h \in Handlers : h \in SavingFor(t)' => h \in G /\ req'[h] = req[h]
    <3> SUFFICES ASSUME NEW h \in Handlers, pc'[h] = "save", req'[h].team = t
                 PROVE  h \in G /\ req'[h] = req[h]
      BY DEF SavingFor
    <3>1. Moved(h) /\ (pc[h] # "idle" => Kept(req[h], req'[h]))
      BY Moves
    <3>2. ~ReadSubmissions(h) /\ ~ReadTeam(h) /\ ~(pc[h] = "idle" /\ pc'[h] = "submissions")
      BY DEF ReadSubmissions, ReadTeam, Goto, Shape, TypeOK
    <3>3. ~PassGate(h)
      <4>1. PassGate(h) => req' = req
        BY DEF PassGate
      <4> QED
        BY <1>8, <4>1
    <3>4. ~Charge(h)
      <4>1. t # NoTeam
        BY SubmissionsAssumption
      <4>2. ASSUME Charge(h)
            PROVE  FALSE
        <5>1. pc[h] # "idle" /\ (req[h].team # NoTeam => pc'[h] = "team")
          BY <4>2 DEF Charge, Shape, TypeOK
        <5>2. req[h].team = t
          BY <3>1, <5>1 DEF Kept
        <5> QED
          BY <4>1, <5>1, <5>2
      <4> QED
        BY <4>2
    <3> QED
      BY <3>1, <3>2, <3>3, <3>4 DEF Moved, SavingFor
  <2>3. \A h \in G : h \in SavingFor(t)'
    <3> SUFFICES ASSUME NEW h \in G
                 PROVE  pc'[h] = "save" /\ req'[h].team = t
      BY DEF SavingFor
    <3>1. h \in Handlers /\ pc[h] = "save" /\ req[h].team = t
      BY DEF SavingFor
    <3>2. ~Save(h)
      <4>1. Len(unlocks) \in Nat
        BY DEF Shape, TypeOK
      <4>2. ASSUME Save(h)  PROVE Len(unlocks') = Len(unlocks) + 1
        <5>1. PICK row : unlocks' = Append(unlocks, row)
          BY <4>2 DEF Save
        <5>2. unlocks \in Seq(HintUnlock)
          BY DEF Shape, TypeOK
        <5> QED
          BY <5>1, <5>2
      <4> QED
        BY <1>8, <4>1, <4>2
    <3>3. pc'[h] = "save" /\ req'[h] = req[h]
      <4> USE DEF Shape, TypeOK
      <4>1. ASSUME NEW g \in Handlers, NEW a \in Accounts, NEW c \in Challenges,
                   NEW n \in 1..Len(Costs[c]) + 1, Receive(g, a, c, n)
            PROVE  pc'[h] = "save" /\ req'[h] = req[h]
        BY <3>1, <4>1 DEF Receive, Goto
      <4>2. ASSUME NEW g \in Handlers, ReadSubmissions(g) \/ Charge(g) \/ ReadTeam(g) \/ PassGate(g)
            PROVE  pc'[h] = "save" /\ req'[h] = req[h]
        BY <3>1, <4>2 DEF ReadSubmissions, Charge, ReadTeam, PassGate, Goto
      <4>3. ASSUME NEW g \in Handlers, Save(g)
            PROVE  pc'[h] = "save" /\ req'[h] = req[h]
        BY <3>1, <3>2, <4>3 DEF Save, Finish
      <4>4. CASE \/ \E a \in Accounts, c \in Challenges, f \in Flags : Submit(a, c, f)
                 \/ \E a \in Accounts, s \in Teams \cup {NoTeam} : SetTeam(a, s)
                 \/ UNCHANGED vars
        BY <3>1, <4>4 DEF Submit, SetTeam, vars
      <4> QED
        BY <1>8, <4>1, <4>2, <4>3, <4>4 DEF Next
    <3> QED
      BY <3>1, <3>3
  <2>4. SavingFor(t)' = G
    <3>1. SavingFor(t)' \subseteq Handlers /\ G \subseteq Handlers
      BY DEF SavingFor
    <3> QED
      BY <2>2, <2>3, <3>1
  <2>5. \A h \in G : req'[h] = req[h]
    BY <2>2, <2>4 DEF SavingFor
  <2> QED
    BY <1>5, <2>1, <2>4, <2>5
<1> QED
  BY <1>4, <1>6, <1>7, <1>8, TablesMove

\* services/hint.rs:138-158: where scores never fall, a team under Gate spends
\* more than it has by at most the dearest hint for each overlapping request but one.
THEOREM OverspendAlwaysBounded == Spec => []OverspendBounded
<1>1. OverspendRoom /\ Shape /\ GateKnown /\ [Next]_vars => OverspendRoom'
  <2> SUFFICES ASSUME OverspendRoom, Shape, GateKnown, [Next]_vars,
                      Deduction = "Gate", Steady, NEW t \in Teams, NEW m \in Nat, Dearest(m)
               PROVE  Room(t, m)'
    BY DEF OverspendRoom
  <2>1. Room(t, m)
    BY DEF OverspendRoom
  <2> QED
    BY <2>1, RoomStep
<1>2. Shape /\ OverspendRoom => OverspendBounded
  <2> SUFFICES ASSUME Shape, OverspendRoom, Deduction = "Gate", Steady, NEW t \in Teams,
                      NEW a \in Accounts,
                      NEW m \in UNION {UNION {Costs[c][n] : n \in DOMAIN Costs[c]} : c \in Challenges},
                      Dearest(m)
               PROVE  TotalCost(unlocks, t, a) <= SolvePoints(submissions, t, Members(t))
                                                    + (Cardinality(Handlers) - 1) * m
    BY DEF OverspendBounded
  <2>1. m \in Nat
    BY HintsAssumption
  <2>2. unlocks \in Seq(HintUnlock) /\ submissions \in Seq(Submission)
    BY DEF Shape, TypeOK
  <2>3. TotalCost(unlocks, t, a) = Spent(t)
    BY <2>2, CostOfRows DEF Spent
  <2>4. Score(t) <= SolvePoints(submissions, t, Members(t))
    BY <2>2, ScoreGrows DEF Score
  <2>5. SolvePoints(submissions, t, Members(t)) \in Nat
    BY <2>2, SolvePointsNat
  <2>6. /\ Score(t) \in Nat /\ Spent(t) \in Nat /\ Limit(t, m) \in Nat
        /\ IsFiniteSet(SavingFor(t)) /\ Cardinality(SavingFor(t)) \in Nat
        /\ (Cardinality(Handlers) - 1) * m \in Nat
    BY <2>1, RoomTyped
  <2>7. Spent(t) <= Limit(t, m)
    <3>1. Room(t, m)
      BY <2>1 DEF OverspendRoom
    <3>2. ASSUME NEW h \in SavingFor(t),
                 Spent(t) + req[h].cost + (Cardinality(SavingFor(t)) - 1) * m <= Limit(t, m)
          PROVE  Spent(t) <= Limit(t, m)
      <4>1. req[h].cost \in Nat
        BY DEF SavingFor, Shape, TypeOK, Request
      <4>2. Cardinality(SavingFor(t)) # 0
        BY <2>6, <3>2, FS_EmptySet
      <4>3. (Cardinality(SavingFor(t)) - 1) * m \in Nat
        <5>1. Cardinality(SavingFor(t)) - 1 \in Nat
          BY <2>6, <4>2
        <5> QED
          BY <2>1, <5>1, TimesNat
      <4> QED
        BY <2>6, <3>2, <4>1, <4>3
    <3> QED
      BY <3>1, <3>2 DEF Room
  <2> QED
    BY <2>3, <2>4, <2>5, <2>6, <2>7 DEF Limit
<1> QED
  BY <1>1, <1>2, ShapeInit, ShapeStep, GateInit, GateStep, PTL DEF Spec
=============================================================================
