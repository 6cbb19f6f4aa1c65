-------------------------- MODULE Membership_proofs --------------------------
(***************************************************************************)
(* Proofs about accounts and teams, for any number of handlers, accounts,   *)
(* teams and CTFtime users, whatever fails or is abandoned on the way.      *)
(***************************************************************************)
EXTENDS Membership, TLAPS

\* services/auth.rs:185-215: the two steps that deal with the user's CTFtime
\* team are only reached by a request that has a user.
UserKnown == \A h \in Handlers : pc[h] \in {"origin", "save_team"} => req[h].user \in Users

\* The rows that exist stay well typed when a team_id is written.
LEMMA SetTeamTyped ==
  ASSUME TypeOK, NEW a, NEW t \in Teams \cup {NoTeam}, SetTeam(a, t)
  PROVE  /\ DOMAIN accounts' = DOMAIN accounts
         /\ \A x \in DOMAIN accounts :
              /\ accounts'[x] \in Account
              /\ accounts'[x].user = accounts[x].user
              /\ accounts'[x].team = IF x = a THEN t ELSE accounts[x].team
BY DEF SetTeam, TypeOK, Account

\* The same when an account is inserted.
LEMMA InsertTyped ==
  ASSUME TypeOK, NEW r \in Request, InsertAccount(r)
  PROVE  /\ DOMAIN accounts' = DOMAIN accounts \cup {r.account}
         /\ \A x \in DOMAIN accounts' : accounts'[x] \in Account
         /\ accounts'[r.account].user = r.user /\ accounts'[r.account].team = r.team
         /\ \A x \in DOMAIN accounts : x # r.account => accounts'[x] = accounts[x]
         /\ r.account \in Accounts
BY DEF InsertAccount, TypeOK, Account, Request

\* The same when a team loses its members.
LEMMA ClearTyped ==
  ASSUME TypeOK, NEW h \in Handlers, Clear(h)
  PROVE  /\ DOMAIN accounts' = DOMAIN accounts
         /\ \A x \in DOMAIN accounts :
              /\ accounts'[x] \in Account
              /\ accounts'[x].user = accounts[x].user
              /\ accounts'[x].team \in {NoTeam, accounts[x].team}
BY DEF Clear, TypeOK, Account, TeamOf

\* What the types say of the handlers.
LocalsTyped ==
  /\ pc \in [Handlers -> Steps]
  /\ req \in [Handlers -> Request \cup {NoRequest}]
  /\ \A h \in Handlers : pc[h] # "idle" => req[h] \in Request

LEMMA FinishTyped ==
  ASSUME TypeOK, UserKnown, NEW h \in Handlers, Finish(h)
  PROVE  LocalsTyped' /\ UserKnown'
BY DEF Finish, TypeOK, LocalsTyped, UserKnown, Steps

LEMMA GoneOnTyped ==
  ASSUME TypeOK, UserKnown, NEW h \in Handlers, NEW to \in Steps, NEW r \in Request,
         pc' = [pc EXCEPT ![h] = to], req' = [req EXCEPT ![h] = r],
         to \in {"origin", "save_team"} => r.user \in Users
  PROVE  LocalsTyped' /\ UserKnown'
BY DEF TypeOK, LocalsTyped, UserKnown, Steps

LEMMA TypeInit == Init => TypeOK /\ UserKnown
<1> SUFFICES ASSUME Init
             PROVE  TypeOK /\ UserKnown
  OBVIOUS
<1>1. PICK u \in Users, t \in Teams :
        /\ Origin[u] # NoOrigin
        /\ accounts = [a \in {Founder} |-> [team |-> t, user |-> u, name |-> <<NameOf[u], 0>>]]
        /\ teams = [s \in {t} |-> [captain |-> Founder, origin |-> Origin[u]]]
  BY DEF Init
<1>2. Founder \in Accounts /\ NameOf[u] \in BaseNames /\ Origin[u] \in Origins /\ 0 \in 0..MaxSuffix
  BY <1>1, MembershipAssumption
<1>3. [team |-> t, user |-> u, name |-> <<NameOf[u], 0>>] \in Account
  BY <1>2 DEF Account, Username
<1>4. [captain |-> Founder, origin |-> Origin[u]] \in Team
  BY <1>2 DEF Team
<1> QED
  BY <1>1, <1>2, <1>3, <1>4 DEF Init, TypeOK, UserKnown, Steps

LEMMA TypeStep == TypeOK /\ UserKnown /\ [Next]_vars => TypeOK' /\ UserKnown'
<1> SUFFICES ASSUME TypeOK, UserKnown, [Next]_vars
             PROVE  TypeOK' /\ UserKnown'
  OBVIOUS
<1> DEFINE Rows ==
             /\ DOMAIN accounts \subseteq Accounts
             /\ \A a \in DOMAIN accounts : accounts[a] \in Account
           TeamRows ==
             /\ DOMAIN teams \subseteq Teams
             /\ \A t \in DOMAIN teams : teams[t] \in Team
             /\ invites \subseteq invited /\ invited \subseteq DOMAIN teams
           Answers == joined \in [Accounts -> Teams \cup {NoTeam}]
<1>0. /\ Rows /\ TeamRows /\ Answers
      /\ TypeOK' <=> Rows' /\ TeamRows' /\ Answers' /\ LocalsTyped'
      /\ \A h \in Handlers : pc[h] # "idle" => req[h] \in Request
      /\ UNCHANGED accounts => Rows'
      /\ UNCHANGED <<teams, invites, invited>> => TeamRows'
      /\ UNCHANGED joined => Answers'
  BY DEF TypeOK, LocalsTyped
<1>1. ASSUME NEW h \in Handlers, NEW a \in FreshAccounts, NEW name \in Username,
             Register(h, a, name)
      PROVE  TypeOK' /\ UserKnown'
  <2> DEFINE r == [join |-> FALSE, account |-> a, user |-> NoUser, name |-> name,
                   team |-> NoTeam, left |-> {}]
  <2>1. r \in Request /\ "register" \in Steps
    BY DEF Request, FreshAccounts, Steps
  <2>2. pc' = [pc EXCEPT ![h] = "register"] /\ req' = [req EXCEPT ![h] = r]
    BY <1>1 DEF Register, Start
  <2> QED
    BY <1>0, <1>1, <2>1, <2>2, GoneOnTyped DEF Register
<1>2. ASSUME NEW h \in Handlers, SaveRegistered(h)
      PROVE  TypeOK' /\ UserKnown'
  <2>1. Rows'
    <3>1. CASE Insertable(req[h])
      <4>1. InsertAccount(req[h]) /\ req[h] \in Request
        BY <1>0, <1>2, <3>1 DEF SaveRegistered
      <4>2. /\ DOMAIN accounts' = DOMAIN accounts \cup {req[h].account}
            /\ req[h].account \in Accounts
            /\ \A x \in DOMAIN accounts' : accounts'[x] \in Account
        BY <4>1, InsertTyped
      <4> QED
        BY <1>0, <4>2
    <3> QED
      BY <1>0, <1>2, <3>1 DEF SaveRegistered
  <2> QED
    BY <1>0, <1>2, <2>1, FinishTyped DEF SaveRegistered
<1>3. ASSUME NEW h \in Handlers, NEW u \in Users, NEW a \in FreshAccounts,
             NEW name \in Username, Callback(h, u, a, name)
      PROVE  TypeOK' /\ UserKnown'
  <2> DEFINE r == [join |-> FALSE, account |-> a, user |-> u, name |-> name,
                   team |-> NoTeam, left |-> {}]
             to == IF Origin[u] = NoOrigin THEN "save_account" ELSE "origin"
  <2>1. r \in Request /\ to \in Steps /\ r.user \in Users
    BY DEF Request, FreshAccounts, Steps
  <2>2. pc' = [pc EXCEPT ![h] = to] /\ req' = [req EXCEPT ![h] = r]
    BY <1>3 DEF Callback, Start
  <2> HIDE DEF r, to
  <2> QED
    BY <1>0, <1>3, <2>1, <2>2, GoneOnTyped DEF Callback
<1>4. ASSUME NEW h \in Handlers, FindOrigin(h)
      PROVE  TypeOK' /\ UserKnown'
  <2>1. pc[h] = "origin" /\ req[h] \in Request /\ req[h].user \in Users
    BY <1>0, <1>4 DEF FindOrigin, UserKnown
  <2>2. CASE TeamsFrom(Origin[req[h].user]) = {}
    <3>1. pc' = [pc EXCEPT ![h] = "save_team"] /\ req' = [req EXCEPT ![h] = req[h]]
      BY <1>4, <2>2 DEF FindOrigin, TypeOK
    <3> QED
      BY <1>0, <1>4, <2>1, <3>1, GoneOnTyped DEF FindOrigin, Steps
  <2>3. ASSUME NEW t \in TeamsFrom(Origin[req[h].user]),
               pc' = [pc EXCEPT ![h] = "save_account"], req' = [req EXCEPT ![h].team = t]
        PROVE  TypeOK' /\ UserKnown'
    <3>1. [req[h] EXCEPT !.team = t] \in Request
      BY <1>0, <2>1 DEF Request, TeamsFrom
    <3>2. req' = [req EXCEPT ![h] = [req[h] EXCEPT !.team = t]]
      BY <2>3
    <3> QED
      BY <1>0, <1>4, <2>3, <3>1, <3>2, GoneOnTyped DEF FindOrigin, Steps
  <2> QED
    BY <1>4, <2>2, <2>3 DEF FindOrigin
<1>5. ASSUME NEW h \in Handlers, NEW t \in FreshTeams, SaveTeam(h, t)
      PROVE  TypeOK' /\ UserKnown'
  <2>1. pc[h] = "save_team" /\ req[h] \in Request /\ req[h].user \in Users /\ t \in Teams
    BY <1>0, <1>5 DEF SaveTeam, UserKnown, FreshTeams
  <2>2. CASE TeamsFrom(Origin[req[h].user]) = {}
    <3>1. [req[h] EXCEPT !.team = t] \in Request
      BY <2>1 DEF Request
    <3>2. /\ pc' = [pc EXCEPT ![h] = "save_account"]
          /\ req' = [req EXCEPT ![h] = [req[h] EXCEPT !.team = t]]
      BY <1>5, <2>2 DEF SaveTeam
    <3>3. [captain |-> req[h].account, origin |-> Origin[req[h].user]] \in Team
      BY <2>1, MembershipAssumption DEF Request, Team
    <3>4. TeamRows'
      BY <1>0, <1>5, <2>1, <2>2, <3>3 DEF SaveTeam
    <3> QED
      BY <1>0, <1>5, <3>1, <3>2, <3>4, GoneOnTyped DEF SaveTeam, Steps
  <2>3. CASE TeamsFrom(Origin[req[h].user]) # {}
    BY <1>0, <1>5, <2>3, FinishTyped DEF SaveTeam
  <2> QED
    BY <2>2, <2>3
<1>6. ASSUME NEW h \in Handlers, SaveAccount(h)
      PROVE  TypeOK' /\ UserKnown'
  <2>1. pc[h] = "save_account" /\ req[h] \in Request
    BY <1>0, <1>6 DEF SaveAccount
  <2>2. Rows'
    <3>1. CASE Insertable(req[h])
      <4>1. InsertAccount(req[h]) /\ req[h] \in Request
        BY <1>0, <1>6, <3>1 DEF SaveAccount
      <4>2. /\ DOMAIN accounts' = DOMAIN accounts \cup {req[h].account}
            /\ req[h].account \in Accounts
            /\ \A x \in DOMAIN accounts' : accounts'[x] \in Account
        BY <4>1, InsertTyped
      <4> QED
        BY <1>0, <4>2
    <3> QED
      BY <1>0, <1>6, <3>1 DEF SaveAccount
  <2>3. LocalsTyped' /\ UserKnown'
    <3>1. CASE Finish(h)
      BY <3>1, FinishTyped
    <3>2. CASE pc' = [pc EXCEPT ![h] = "reread"] /\ UNCHANGED req
      <4>1. req' = [req EXCEPT ![h] = req[h]]
        BY <3>2 DEF TypeOK
      <4> QED
        BY <2>1, <3>2, <4>1, GoneOnTyped DEF Steps
    <3> QED
      BY <1>6, <3>1, <3>2 DEF SaveAccount
  <2> QED
    BY <1>0, <1>6, <2>2, <2>3 DEF SaveAccount
<1>7. ASSUME NEW h \in Handlers, Reread(h)
      PROVE  TypeOK' /\ UserKnown'
  <2>1. req[h] \in Request
    BY <1>0, <1>7 DEF Reread
  <2>2. CASE Finish(h)
    BY <1>0, <1>7, <2>2, FinishTyped DEF Reread
  <2> DEFINE left == Members(req[h].team) \cup {req[h].account}
  <2>3. CASE pc' = [pc EXCEPT ![h] = "clear"] /\ req' = [req EXCEPT ![h].left = left]
    <3>1. left \in SUBSET Accounts
      BY <1>0, <2>1 DEF Members, Request
    <3> HIDE DEF left
    <3>2. [req[h] EXCEPT !.left = left] \in Request
      BY <2>1, <3>1 DEF Request
    <3>3. req' = [req EXCEPT ![h] = [req[h] EXCEPT !.left = left]]
      BY <2>3
    <3> QED
      BY <1>0, <1>7, <2>3, <3>2, <3>3, GoneOnTyped DEF Reread, Steps
  <2> QED
    BY <1>7, <2>2, <2>3 DEF Reread
<1>8. ASSUME NEW a \in Accounts, NEW t \in Teams, CreateInvite(a, t)
      PROVE  TypeOK' /\ UserKnown'
  BY <1>0, <1>8 DEF CreateInvite, LocalsTyped, TypeOK, UserKnown
<1>9. ASSUME NEW t \in Teams, ExpireInvite(t)
      PROVE  TypeOK' /\ UserKnown'
  BY <1>0, <1>9 DEF ExpireInvite, LocalsTyped, TypeOK, UserKnown
<1>10. ASSUME NEW h \in Handlers, NEW a \in Accounts, NEW t \in Teams, Join(h, a, t)
       PROVE  TypeOK' /\ UserKnown'
  <2> DEFINE r == [join |-> TRUE, account |-> a, user |-> NoUser, name |-> accounts[a].name,
                   team |-> t, left |-> Members(t)]
  <2>1. r \in Request
    <3>1. accounts[a].name \in Username
      BY <1>0, <1>10 DEF Join, Account
    <3>2. Members(t) \in SUBSET Accounts
      BY <1>0 DEF Members
    <3> QED
      BY <3>1, <3>2 DEF Request
  <2>2. pc' = [pc EXCEPT ![h] = "account"] /\ req' = [req EXCEPT ![h] = r]
    BY <1>10 DEF Join, Start
  <2> HIDE DEF r
  <2> QED
    BY <1>0, <1>10, <2>1, <2>2, GoneOnTyped DEF Join, Steps
<1>11. ASSUME NEW h \in Handlers, CheckBracket(h)
       PROVE  TypeOK' /\ UserKnown'
  <2>1. CASE Finish(h)
    BY <1>0, <1>11, <2>1, FinishTyped DEF CheckBracket
  <2>2. CASE pc' = [pc EXCEPT ![h] = "enter"] /\ UNCHANGED req
    <3>1. req' = [req EXCEPT ![h] = req[h]] /\ req[h] \in Request
      BY <1>0, <1>11, <2>2 DEF CheckBracket, TypeOK
    <3> QED
      BY <1>0, <1>11, <2>2, <3>1, GoneOnTyped DEF CheckBracket, Steps
  <2> QED
    BY <1>11, <2>1, <2>2 DEF CheckBracket
<1>12. ASSUME NEW h \in Handlers, Answer(h), pc[h] # "idle"
       PROVE  Answers' /\ LocalsTyped' /\ UserKnown'
  <2>1. req[h].account \in Accounts /\ req[h].team \in Teams \cup {NoTeam}
    BY <1>0, <1>12 DEF Request
  <2> QED
    BY <1>0, <1>12, <2>1, FinishTyped DEF Answer
<1>13. ASSUME NEW h \in Handlers, Enter(h)
       PROVE  TypeOK' /\ UserKnown'
  <2>1. /\ req[h] \in Request /\ req[h].account \in Accounts
        /\ req[h].team \in Teams \cup {NoTeam} /\ pc[h] # "idle"
    BY <1>0, <1>13 DEF Enter, Request
  <2>2. Rows'
    BY <1>0, <1>13, <2>1, SetTeamTyped DEF Enter
  <2>3. CASE Answer(h)
    BY <1>0, <1>12, <1>13, <2>1, <2>2, <2>3 DEF Enter
  <2> DEFINE left == req[h].left \cup {req[h].account}
  <2>4. CASE /\ pc' = [pc EXCEPT ![h] = "clear"]
             /\ req' = [req EXCEPT ![h].left = @ \cup {req[h].account}]
             /\ UNCHANGED joined
    <3>1. left \in SUBSET Accounts
      BY <2>1 DEF Request
    <3>2. req' = [req EXCEPT ![h] = [req[h] EXCEPT !.left = left]]
      BY <2>4
    <3> HIDE DEF left
    <3>3. [req[h] EXCEPT !.left = left] \in Request
      BY <2>1, <3>1 DEF Request
    <3> QED
      BY <1>0, <1>13, <2>2, <2>4, <3>2, <3>3, GoneOnTyped DEF Enter, Steps
  <2> QED
    BY <1>13, <2>3, <2>4 DEF Enter
<1>14. ASSUME NEW h \in Handlers, Clear(h)
       PROVE  TypeOK' /\ UserKnown'
  <2>1. Rows'
    BY <1>0, <1>14, ClearTyped
  <2>2. /\ pc' = [pc EXCEPT ![h] = "refill"] /\ req' = [req EXCEPT ![h] = req[h]]
        /\ req[h] \in Request
    BY <1>0, <1>14 DEF Clear, Goto, TypeOK
  <2> QED
    BY <1>0, <1>14, <2>1, <2>2, GoneOnTyped DEF Clear, Steps
<1>15. ASSUME NEW h \in Handlers, NEW a \in Accounts, Refill(h, a)
       PROVE  TypeOK' /\ UserKnown'
  <2>1. req[h] \in Request /\ req[h].team \in Teams \cup {NoTeam} /\ pc[h] = "refill"
    BY <1>0, <1>15 DEF Refill, Request
  <2>2. Rows'
    BY <1>0, <1>15, <2>1, SetTeamTyped DEF Refill
  <2> DEFINE left == req[h].left \ {a}
  <2>3. CASE req' = [req EXCEPT ![h].left = @ \ {a}] /\ UNCHANGED <<pc, joined>>
    <3>1. pc' = [pc EXCEPT ![h] = "refill"]
      BY <2>1, <2>3 DEF TypeOK
    <3>2. req' = [req EXCEPT ![h] = [req[h] EXCEPT !.left = left]]
      BY <2>3
    <3>3. left \in SUBSET Accounts
      BY <2>1 DEF Request
    <3> HIDE DEF left
    <3>4. [req[h] EXCEPT !.left = left] \in Request
      BY <2>1, <3>3 DEF Request
    <3> QED
      BY <1>0, <1>15, <2>2, <2>3, <3>1, <3>2, <3>4, GoneOnTyped DEF Refill, Steps
  <2>4. CASE Answer(h)
    BY <1>0, <1>12, <1>15, <2>1, <2>2, <2>4 DEF Refill
  <2>5. CASE Finish(h) /\ UNCHANGED joined
    BY <1>0, <1>15, <2>2, <2>5, FinishTyped DEF Refill
  <2> QED
    BY <1>15, <2>3, <2>4, <2>5 DEF Refill
<1>16. ASSUME NEW h \in Handlers, FailUpdate(h) \/ Abandon(h)
       PROVE  TypeOK' /\ UserKnown'
  BY <1>0, <1>12, <1>16, FinishTyped DEF FailUpdate, Abandon
<1>17. CASE UNCHANGED vars
  BY <1>0, <1>17 DEF vars, LocalsTyped, TypeOK, UserKnown
<1> HIDE DEF Rows, TeamRows, Answers
<1> QED
  BY <1>1, <1>2, <1>3, <1>4, <1>5, <1>6, <1>7, <1>8, <1>9, <1>10, <1>11, <1>13, <1>14,
     <1>15, <1>16, <1>17 DEF Next

\* services/auth.rs and api/teams.rs never put a value outside its type into a
\* table or a handler's locals; a team is saved with the CTFtime team of a user.
THEOREM TypeCorrect == Spec => []TypeOK
BY TypeInit, TypeStep, PTL DEF Spec
-----------------------------------------------------------------------------
\* The accounts and the teams they may be in.
Allowed ==
  {p \in (DOMAIN accounts) \X (DOMAIN teams) :
     \/ p[2] \in invited /\ p[1] \notin Barred
     \/ accounts[p[1]].user # NoUser /\ Origin[accounts[p[1]].user] = teams[p[2]].origin}

\* The steps of a request whose account has an id but no row yet.
Inserting == {"register", "origin", "save_team", "save_account"}

\* A handler only holds teams and members it may still write: the checks of
\* api/teams.rs:107-168 and services/auth.rs:185-215 lie several calls back, and
\* nothing they read is undone in between.
HandlerEntitled(h) ==
  LET r == req[h]
  IN  /\ pc[h] \in Inserting => r.account \notin DOMAIN accounts
      /\ pc[h] = "register" => r.team = NoTeam
      /\ pc[h] = "save_account" /\ r.team # NoTeam =>
           r.user \in Users /\ r.team \in TeamsFrom(Origin[r.user])
      /\ pc[h] = "reread" => <<r.account, r.team>> \in Allowed
      /\ pc[h] \in {"account", "enter"} => r.account \in DOMAIN accounts /\ r.team \in invited
      /\ pc[h] = "enter" => r.account \notin Barred
      /\ pc[h] \in {"account", "enter", "clear", "refill"} =>
           \A a \in r.left : <<a, r.team>> \in Allowed

MembersAllowed == \A a \in DOMAIN accounts : TeamOf(a) # NoTeam => <<a, TeamOf(a)>> \in Allowed

\* No two requests insert under one id.
IdsDistinct ==
  \A g, h \in Handlers :
    g # h /\ pc[g] \in Inserting /\ pc[h] \in Inserting => req[g].account # req[h].account

Entitlements ==
  /\ MembersAllowed
  /\ \A h \in Handlers : HandlerEntitled(h)
  /\ IdsDistinct

Known == TypeOK /\ UserKnown

\* What it takes to be let in, now and after a step.
LEMMA AllowedMeans ==
  /\ \A a, t : <<a, t>> \in Allowed <=>
       /\ a \in DOMAIN accounts /\ t \in DOMAIN teams
       /\ \/ t \in invited /\ a \notin Barred
          \/ accounts[a].user # NoUser /\ Origin[accounts[a].user] = teams[t].origin
  /\ \A a, t : <<a, t>> \in Allowed' <=>
       /\ a \in DOMAIN accounts' /\ t \in DOMAIN teams'
       /\ \/ t \in invited' /\ a \notin Barred
          \/ accounts'[a].user # NoUser /\ Origin[accounts'[a].user] = teams'[t].origin
BY DEF Allowed

\* The calls that write the accounts table.
LEMMA AccountsMove ==
  ASSUME [Next]_vars
  PROVE  \/ accounts' = accounts
         \/ \E h \in Handlers : Clear(h)
         \/ \E h \in Handlers : (SaveRegistered(h) \/ SaveAccount(h)) /\ InsertAccount(req[h])
         \/ \E h \in Handlers : Enter(h)
         \/ \E h \in Handlers, a \in Accounts : Refill(h, a)
BY DEF Next, Register, Callback, SaveTeam, Join, SaveRegistered, FindOrigin,
       SaveAccount, Reread, CheckBracket, FailUpdate, Abandon, CreateInvite, ExpireInvite, vars

\* The step of a handler, or nothing that touches its locals.
Acts(h) ==
  \/ \E a \in FreshAccounts, name \in Username : Register(h, a, name)
  \/ \E u \in Users, a \in FreshAccounts, name \in Username : Callback(h, u, a, name)
  \/ \E t \in FreshTeams : SaveTeam(h, t)
  \/ \E a \in Accounts, t \in Teams : Join(h, a, t)
  \/ \E a \in Accounts : Refill(h, a)
  \/ SaveRegistered(h) \/ FindOrigin(h) \/ SaveAccount(h) \/ Reread(h)
  \/ CheckBracket(h) \/ Enter(h) \/ Clear(h) \/ FailUpdate(h) \/ Abandon(h)

LEMMA OthersStay ==
  ASSUME Known, NEW g \in Handlers, Acts(g), NEW h \in Handlers, h # g
  PROVE  pc'[h] = pc[h] /\ req'[h] = req[h]
<1> USE DEF Known, TypeOK, Start, Goto, Finish, Answer
<1>1. CASE \/ \E a \in FreshAccounts, name \in Username : Register(g, a, name)
           \/ \E u \in Users, a \in FreshAccounts, name \in Username : Callback(g, u, a, name)
           \/ \E a \in Accounts, t \in Teams : Join(g, a, t)
  BY <1>1 DEF Register, Callback, Join
<1>2. CASE (\E t \in FreshTeams : SaveTeam(g, t)) \/ FindOrigin(g) \/ SaveRegistered(g)
  BY <1>2 DEF SaveTeam, FindOrigin, SaveRegistered
<1>3. CASE SaveAccount(g) \/ Reread(g) \/ CheckBracket(g) \/ FailUpdate(g) \/ Abandon(g)
  BY <1>3 DEF SaveAccount, Reread, CheckBracket, FailUpdate, Abandon
<1>4. CASE (\E a \in Accounts : Refill(g, a)) \/ Enter(g) \/ Clear(g)
  BY <1>4 DEF Refill, Enter, Clear
<1> QED
  BY <1>1, <1>2, <1>3, <1>4 DEF Acts

LEMMA ActsOrStays ==
  ASSUME Known, [Next]_vars, NEW h \in Handlers
  PROVE  Acts(h) \/ (pc'[h] = pc[h] /\ req'[h] = req[h])
<1>1. \/ \E g \in Handlers : Acts(g)
      \/ \E a \in Accounts, t \in Teams : CreateInvite(a, t)
      \/ \E t \in Teams : ExpireInvite(t)
      \/ UNCHANGED vars
  BY DEF Next, Acts
<1> QED
  BY <1>1, OthersStay DEF CreateInvite, ExpireInvite, vars

\* Nothing that entitles an account is ever undone: rows stay, with their
\* CTFtime user or team, and an invite once minted was minted.
LEMMA EntitlementKept ==
  ASSUME Known, Entitlements, [Next]_vars
  PROVE  /\ DOMAIN accounts \subseteq DOMAIN accounts'
         /\ \A a \in DOMAIN accounts : accounts'[a].user = accounts[a].user
         /\ DOMAIN teams \subseteq DOMAIN teams'
         /\ \A t \in DOMAIN teams : teams'[t] = teams[t]
         /\ invited \subseteq invited'
<1>1. /\ DOMAIN accounts \subseteq DOMAIN accounts'
      /\ \A a \in DOMAIN accounts : accounts'[a].user = accounts[a].user
  <2>1. CASE \E h \in Handlers : Clear(h)
    BY <2>1, ClearTyped DEF Known
  <2>2. ASSUME NEW h \in Handlers, SaveRegistered(h) \/ SaveAccount(h), InsertAccount(req[h])
        PROVE  /\ DOMAIN accounts \subseteq DOMAIN accounts'
               /\ \A a \in DOMAIN accounts : accounts'[a].user = accounts[a].user
    <3>1. pc[h] \in Inserting /\ req[h] \in Request
      BY <2>2 DEF SaveRegistered, SaveAccount, Inserting, Known, TypeOK
    <3>2. req[h].account \notin DOMAIN accounts
      BY <3>1 DEF Entitlements, HandlerEntitled
    <3> QED
      BY <2>2, <3>1, <3>2, InsertTyped DEF Known
  <2>3. ASSUME NEW h \in Handlers, NEW a, SetTeam(a, req[h].team), req[h] \in Request
        PROVE  /\ DOMAIN accounts \subseteq DOMAIN accounts'
               /\ \A x \in DOMAIN accounts : accounts'[x].user = accounts[x].user
    <3>1. req[h].team \in Teams \cup {NoTeam}
      BY <2>3 DEF Request
    <3> QED
      BY <2>3, <3>1, SetTeamTyped DEF Known
  <2>4. CASE \E h \in Handlers : Enter(h)
    BY <2>3, <2>4 DEF Enter, Known, TypeOK
  <2>5. CASE \E h \in Handlers, a \in Accounts : Refill(h, a)
    BY <2>3, <2>5 DEF Refill, Known, TypeOK
  <2> QED
    BY <2>1, <2>2, <2>4, <2>5, AccountsMove
<1>2. /\ DOMAIN teams \subseteq DOMAIN teams'
      /\ \A t \in DOMAIN teams : teams'[t] = teams[t]
  <2>1. ASSUME NEW h \in Handlers, NEW t \in FreshTeams, SaveTeam(h, t)
        PROVE  /\ DOMAIN teams \subseteq DOMAIN teams'
               /\ \A s \in DOMAIN teams : teams'[s] = teams[s]
    <3>1. t \notin DOMAIN teams
      BY DEF FreshTeams
    <3>2. \/ teams' = teams
          \/ \E rec : teams' = [s \in DOMAIN teams \cup {t} |-> IF s = t THEN rec ELSE teams[s]]
      BY <2>1 DEF SaveTeam
    <3> QED
      BY <3>1, <3>2
  <2>2. teams' = teams \/ \E h \in Handlers, t \in FreshTeams : SaveTeam(h, t)
    BY DEF Next, Register, Callback, Join, SaveRegistered, FindOrigin, SaveAccount, Reread,
       CheckBracket, Enter, Clear, Refill, FailUpdate, Abandon, CreateInvite, ExpireInvite, vars
  <2> QED
    BY <2>1, <2>2
<1>3. invited \subseteq invited'
  BY DEF Next, Register, Callback, SaveTeam, Join, SaveRegistered, FindOrigin, SaveAccount,
     Reread, CheckBracket, Enter, Clear, Refill, FailUpdate, Abandon, CreateInvite,
     ExpireInvite, vars
<1> QED
  BY <1>1, <1>2, <1>3

LEMMA AllowedStays ==
  ASSUME Known, Entitlements, [Next]_vars, NEW a, NEW t, <<a, t>> \in Allowed
  PROVE  <<a, t>> \in Allowed'
BY EntitlementKept, AllowedMeans

\* Whoever is about to insert an account started with a fresh id and keeps it.
LEMMA InsertingMoves ==
  ASSUME Known, Entitlements, [Next]_vars, NEW h \in Handlers, pc'[h] \in Inserting
  PROVE  \/ pc[h] \in Inserting /\ req'[h].account = req[h].account
         \/ req'[h].account \in FreshAccounts /\ accounts' = accounts /\ Acts(h)
<1> USE DEF Known, TypeOK, Start, Goto, Finish, Answer, Inserting
<1>1. CASE \/ \E a \in FreshAccounts, name \in Username : Register(h, a, name)
           \/ \E u \in Users, a \in FreshAccounts, name \in Username : Callback(h, u, a, name)
  BY <1>1 DEF Register, Callback, Acts
<1>2. CASE (\E t \in FreshTeams : SaveTeam(h, t)) \/ FindOrigin(h)
  <2>1. req[h] \in Request /\ h \in DOMAIN req /\ pc[h] \in Inserting
    BY <1>2 DEF SaveTeam, FindOrigin
  <2>2. \/ req' = req
        \/ \E t : req' = [req EXCEPT ![h].team = t]
        \/ pc' = [pc EXCEPT ![h] = "idle"]
    BY <1>2 DEF SaveTeam, FindOrigin
  <2>3. h \in DOMAIN pc
    BY DEF Known, TypeOK
  <2>4. pc' # [pc EXCEPT ![h] = "idle"]
    BY <2>3
  <2>5. CASE req' = req
    BY <2>1, <2>5
  <2>6. ASSUME NEW t, req' = [req EXCEPT ![h].team = t]
        PROVE  req'[h].account = req[h].account
    BY <2>1, <2>6 DEF Request
  <2> QED
    BY <2>1, <2>2, <2>4, <2>5, <2>6
<1>3. CASE \/ SaveRegistered(h) \/ SaveAccount(h) \/ Reread(h) \/ CheckBracket(h)
           \/ FailUpdate(h) \/ Abandon(h) \/ \E a \in Accounts, t \in Teams : Join(h, a, t)
  BY <1>3 DEF SaveRegistered, SaveAccount, Reread, CheckBracket, FailUpdate, Abandon, Join
<1>4. CASE (\E a \in Accounts : Refill(h, a)) \/ Enter(h) \/ Clear(h)
  BY <1>4 DEF Refill, Enter, Clear
<1> QED
  BY <1>1, <1>2, <1>3, <1>4, ActsOrStays DEF Acts

LEMMA IdsStep == Known /\ Entitlements /\ [Next]_vars => IdsDistinct'
<1> SUFFICES ASSUME Known, Entitlements, [Next]_vars,
                    NEW g \in Handlers, NEW h \in Handlers, g # h,
                    pc'[g] \in Inserting, pc'[h] \in Inserting
             PROVE  req'[g].account # req'[h].account
  BY DEF IdsDistinct
<1>1. ASSUME NEW x \in Handlers, NEW y \in Handlers, x # y,
             pc'[x] \in Inserting, Acts(y), req'[y].account \in FreshAccounts
      PROVE  req'[x].account # req'[y].account
  <2>1. pc'[x] = pc[x] /\ req'[x] = req[x]
    BY <1>1, OthersStay
  <2>2. x \in Running
    BY <1>1, <2>1 DEF Running, Inserting
  <2> QED
    BY <1>1, <2>1, <2>2 DEF FreshAccounts
<1> QED
  BY <1>1, InsertingMoves DEF Entitlements, IdsDistinct

\* An id that is about to be inserted is not inserted by anybody else.
LEMMA IdStaysFree ==
  ASSUME Known, Entitlements, [Next]_vars, NEW h \in Handlers, pc'[h] \in Inserting
  PROVE  req'[h].account \notin DOMAIN accounts'
<1>1. CASE req'[h].account \in FreshAccounts /\ accounts' = accounts
  BY <1>1 DEF FreshAccounts
<1>2. CASE pc[h] \in Inserting /\ req'[h].account = req[h].account
  <2>1. req[h].account \notin DOMAIN accounts
    BY <1>2 DEF Entitlements, HandlerEntitled
  <2>2. ASSUME NEW g \in Handlers, SaveRegistered(g) \/ SaveAccount(g), InsertAccount(req[g])
        PROVE  req[h].account \notin DOMAIN accounts'
    <3>1. pc[g] \in Inserting /\ req[g] \in Request
      BY <2>2 DEF SaveRegistered, SaveAccount, Inserting, Known, TypeOK
    <3>2. pc'[g] \notin Inserting
      BY <2>2 DEF SaveRegistered, SaveAccount, Finish, Inserting, Known, TypeOK
    <3>3. req[g].account # req[h].account
      BY <1>2, <3>1, <3>2 DEF Entitlements, IdsDistinct
    <3>4. DOMAIN accounts' = DOMAIN accounts \cup {req[g].account}
      BY <2>2 DEF InsertAccount
    <3> QED
      BY <2>1, <3>3, <3>4
  <2>3. ASSUME NEW g \in Handlers, Clear(g)
        PROVE  req[h].account \notin DOMAIN accounts'
    BY <2>1, <2>3, ClearTyped DEF Known
  <2>4. ASSUME NEW a, NEW t, SetTeam(a, t)
        PROVE  req[h].account \notin DOMAIN accounts'
    BY <2>1, <2>4 DEF SetTeam
  <2> QED
    BY <1>2, <2>1, <2>2, <2>3, <2>4, AccountsMove DEF Enter, Refill
<1> QED
  BY <1>1, <1>2, InsertingMoves

\* What a handler holds while another one moves stays right.
LEMMA StandsStill ==
  ASSUME Known, Entitlements, [Next]_vars, NEW h \in Handlers,
         pc'[h] = pc[h], req'[h] = req[h]
  PROVE  HandlerEntitled(h)'
<1> DEFINE r == req[h]
<1>1. HandlerEntitled(h)
  BY DEF Entitlements
<1>2. pc[h] \in Inserting => r.account \notin DOMAIN accounts'
  BY IdStaysFree
<1>3. pc[h] = "save_account" /\ r.team # NoTeam =>
        r.user \in Users /\ r.team \in DOMAIN teams' /\ teams'[r.team].origin = Origin[r.user]
  BY <1>1, EntitlementKept DEF HandlerEntitled, TeamsFrom
<1>4. pc[h] = "reread" => <<r.account, r.team>> \in Allowed'
  BY <1>1, AllowedStays DEF HandlerEntitled
<1>5. pc[h] \in {"account", "enter"} => r.account \in DOMAIN accounts' /\ r.team \in invited'
  BY <1>1, EntitlementKept DEF HandlerEntitled
<1>6. pc[h] \in {"account", "enter", "clear", "refill"} =>
        \A a \in r.left : <<a, r.team>> \in Allowed'
  BY <1>1, AllowedStays DEF HandlerEntitled
<1> QED
  BY <1>1, <1>2, <1>3, <1>4, <1>5, <1>6 DEF HandlerEntitled, TeamsFrom

LEMMA HandlerStep ==
  ASSUME Known, Entitlements, [Next]_vars, NEW h \in Handlers
  PROVE  HandlerEntitled(h)'
<1> DEFINE r == req[h]
<1>1. HandlerEntitled(h) /\ h \in DOMAIN pc /\ h \in DOMAIN req
  BY DEF Entitlements, Known, TypeOK
<1>2. pc[h] # "idle" => r \in Request
  BY DEF Known, TypeOK
<1>3. CASE pc'[h] = "idle"
  BY <1>3 DEF HandlerEntitled, Inserting
<1>4. ASSUME NEW a \in FreshAccounts, NEW name \in Username, Register(h, a, name)
      PROVE  HandlerEntitled(h)'
  <2>1. pc'[h] = "register" /\ req'[h].team = NoTeam
    BY <1>1, <1>4 DEF Register, Start
  <2> QED
    BY <2>1, IdStaysFree DEF HandlerEntitled, Inserting
<1>5. ASSUME NEW u \in Users, NEW a \in FreshAccounts, NEW name \in Username,
             Callback(h, u, a, name)
      PROVE  HandlerEntitled(h)'
  <2>1. pc'[h] \in {"origin", "save_account"} /\ req'[h].team = NoTeam
    BY <1>1, <1>5 DEF Callback, Start
  <2> QED
    BY <2>1, IdStaysFree DEF HandlerEntitled, Inserting
<1>6. ASSUME FindOrigin(h)
      PROVE  HandlerEntitled(h)'
  <2>1. r \in Request /\ r.user \in Users /\ pc'[h] \in {"save_team", "save_account"}
    BY <1>1, <1>2, <1>6 DEF FindOrigin, Known, UserKnown
  <2>2. pc'[h] = "save_account" =>
          \E t \in TeamsFrom(Origin[r.user]) : req' = [req EXCEPT ![h].team = t]
    BY <1>1, <1>6 DEF FindOrigin
  <2>3. pc'[h] = "save_account" =>
          req'[h].user = r.user /\ req'[h].team \in TeamsFrom(Origin[r.user])
    BY <1>1, <2>1, <2>2 DEF Request
  <2>4. pc'[h] = "save_account" =>
          /\ req'[h].team \in DOMAIN teams'
          /\ teams'[req'[h].team].origin = Origin[req'[h].user]
    BY <2>3, EntitlementKept DEF TeamsFrom
  <2> QED
    BY <2>1, <2>3, <2>4, IdStaysFree DEF HandlerEntitled, Inserting, TeamsFrom
<1>7. ASSUME NEW t \in FreshTeams, SaveTeam(h, t), pc'[h] # "idle"
      PROVE  HandlerEntitled(h)'
  <2>1. r \in Request /\ r.user \in Users
    BY <1>2, <1>7 DEF SaveTeam, Known, UserKnown
  <2>2. /\ teams' = [s \in DOMAIN teams \cup {t} |->
                       IF s = t THEN [captain |-> r.account, origin |-> Origin[r.user]]
                       ELSE teams[s]]
        /\ pc'[h] = "save_account"
        /\ req' = [req EXCEPT ![h].team = t]
    BY <1>1, <1>7 DEF SaveTeam, Finish
  <2>3. req'[h].user = r.user /\ req'[h].team = t
    BY <1>1, <2>1, <2>2 DEF Request
  <2>4. t \in DOMAIN teams' /\ teams'[t].origin = Origin[r.user]
    BY <2>2
  <2> QED
    BY <2>1, <2>2, <2>3, <2>4, IdStaysFree DEF HandlerEntitled, Inserting, TeamsFrom
<1>8. ASSUME SaveAccount(h), pc'[h] # "idle"
      PROVE  HandlerEntitled(h)'
  <2>1. /\ pc[h] = "save_account" /\ r \in Request /\ r.team # NoTeam
        /\ InsertAccount(r) /\ pc'[h] = "reread" /\ req'[h] = r
    BY <1>1, <1>2, <1>8 DEF SaveAccount, Finish
  <2>2. /\ r.user \in Users /\ r.user # NoUser
        /\ r.team \in DOMAIN teams' /\ teams'[r.team].origin = Origin[r.user]
    BY <1>1, <2>1, EntitlementKept, MembershipAssumption DEF HandlerEntitled, TeamsFrom
  <2>3. r.account \in DOMAIN accounts' /\ accounts'[r.account].user = r.user
    BY <2>1, InsertTyped DEF Known
  <2>4. <<r.account, r.team>> \in Allowed'
    BY <2>2, <2>3, AllowedMeans
  <2> QED
    BY <2>1, <2>4 DEF HandlerEntitled, Inserting
<1>9. ASSUME Reread(h), pc'[h] # "idle"
      PROVE  HandlerEntitled(h)'
  <2> DEFINE left == Members(r.team) \cup {r.account}
  <2>1. /\ pc[h] = "reread" /\ r \in Request /\ pc'[h] = "clear"
        /\ req' = [req EXCEPT ![h].left = left]
    BY <1>1, <1>2, <1>9 DEF Reread, Finish
  <2>2. req'[h].team = r.team /\ req'[h].left = left
    BY <1>1, <2>1 DEF Request
  <2>3. <<r.account, r.team>> \in Allowed
    BY <1>1, <2>1 DEF HandlerEntitled
  <2>4. r.team # NoTeam
    BY <2>3, MembershipAssumption, AllowedMeans DEF Known, TypeOK
  <2>5. \A a \in left : <<a, r.team>> \in Allowed
    BY <2>3, <2>4 DEF Members, Entitlements, MembersAllowed
  <2> HIDE DEF left
  <2> QED
    BY <2>1, <2>2, <2>5, AllowedStays DEF HandlerEntitled, Inserting
<1>10. ASSUME NEW a \in Accounts, NEW t \in Teams, Join(h, a, t)
       PROVE  HandlerEntitled(h)'
  <2>1. /\ pc'[h] = "account" /\ req'[h].account = a /\ req'[h].team = t
        /\ req'[h].left = Members(t)
        /\ a \in DOMAIN accounts /\ t \in invited
    BY <1>1, <1>10 DEF Join, Start, Known, TypeOK
  <2>2. \A x \in Members(t) : <<x, t>> \in Allowed
    BY MembershipAssumption DEF Members, Entitlements, MembersAllowed
  <2> QED
    BY <2>1, <2>2, AllowedStays, EntitlementKept DEF HandlerEntitled, Inserting
<1>11. ASSUME CheckBracket(h), pc'[h] # "idle"
       PROVE  HandlerEntitled(h)'
  <2>1. pc[h] = "account" /\ r.account \notin Barred /\ pc'[h] = "enter" /\ req'[h] = r
    BY <1>1, <1>11 DEF CheckBracket, Finish
  <2> QED
    BY <1>1, <2>1, AllowedStays, EntitlementKept DEF HandlerEntitled, Inserting
<1>12. ASSUME Enter(h), pc'[h] # "idle"
       PROVE  HandlerEntitled(h)'
  <2> DEFINE left == r.left \cup {r.account}
  <2>1. /\ pc[h] = "enter" /\ r \in Request /\ pc'[h] = "clear"
        /\ req' = [req EXCEPT ![h].left = left]
    BY <1>1, <1>2, <1>12 DEF Enter, Answer, Finish
  <2>2. req'[h].team = r.team /\ req'[h].left = left
    BY <1>1, <2>1 DEF Request
  <2>3. \A a \in left : <<a, r.team>> \in Allowed
    BY <1>1, <2>1, AllowedMeans DEF HandlerEntitled, Known, TypeOK
  <2> HIDE DEF left
  <2> QED
    BY <2>1, <2>2, <2>3, AllowedStays DEF HandlerEntitled, Inserting
<1>13. ASSUME Clear(h)
       PROVE  HandlerEntitled(h)'
  <2>1. pc[h] = "clear" /\ pc'[h] = "refill" /\ req'[h] = r
    BY <1>1, <1>13 DEF Clear, Goto
  <2> QED
    BY <1>1, <2>1, AllowedStays DEF HandlerEntitled, Inserting
<1>14. ASSUME NEW a \in Accounts, Refill(h, a), pc'[h] # "idle"
       PROVE  HandlerEntitled(h)'
  <2>1. /\ pc[h] = "refill" /\ r \in Request /\ pc'[h] = "refill"
        /\ req' = [req EXCEPT ![h].left = @ \ {a}]
    BY <1>1, <1>2, <1>14 DEF Refill, Answer, Finish
  <2>2. req'[h].team = r.team /\ req'[h].left \subseteq r.left
    BY <1>1, <2>1 DEF Request
  <2> QED
    BY <1>1, <2>1, <2>2, AllowedStays DEF HandlerEntitled, Inserting
<1>15. ASSUME SaveRegistered(h) \/ FailUpdate(h) \/ Abandon(h)
       PROVE  pc'[h] = "idle"
  BY <1>1, <1>15 DEF SaveRegistered, FailUpdate, Abandon, Answer, Finish
<1>16. CASE pc'[h] = pc[h] /\ req'[h] = req[h]
  BY <1>16, StandsStill
<1> QED
  BY <1>3, <1>4, <1>5, <1>6, <1>7, <1>8, <1>9, <1>10, <1>11, <1>12, <1>13, <1>14, <1>15,
     <1>16, ActsOrStays DEF Acts

\* Whatever writes a team_id writes one its account is entitled to.
LEMMA MembersStep == Known /\ Entitlements /\ [Next]_vars => MembersAllowed'
<1> SUFFICES ASSUME Known, Entitlements, [Next]_vars,
                    NEW a \in DOMAIN accounts', accounts'[a].team # NoTeam
             PROVE  <<a, accounts'[a].team>> \in Allowed'
  BY DEF MembersAllowed, TeamOf
<1>1. ASSUME a \in DOMAIN accounts, accounts'[a].team = accounts[a].team
      PROVE  <<a, accounts'[a].team>> \in Allowed'
  <2>1. <<a, accounts[a].team>> \in Allowed
    BY <1>1 DEF Entitlements, MembersAllowed, TeamOf
  <2> QED
    BY <1>1, <2>1, AllowedStays
<1>2. ASSUME NEW h \in Handlers, Clear(h)
      PROVE  <<a, accounts'[a].team>> \in Allowed'
  BY <1>1, <1>2, ClearTyped DEF Known
<1>3. ASSUME NEW h \in Handlers, SaveRegistered(h) \/ SaveAccount(h), InsertAccount(req[h])
      PROVE  <<a, accounts'[a].team>> \in Allowed'
  <2>1. /\ req[h] \in Request /\ HandlerEntitled(h)
        /\ pc[h] \in {"register", "save_account"}
    BY <1>3 DEF SaveRegistered, SaveAccount, Known, TypeOK, Entitlements
  <2>2. /\ a \in DOMAIN accounts \cup {req[h].account}
        /\ accounts'[req[h].account].team = req[h].team
        /\ accounts'[req[h].account].user = req[h].user
        /\ a \in DOMAIN accounts /\ a # req[h].account => accounts'[a] = accounts[a]
    BY <1>3, <2>1, InsertTyped DEF Known
  <2>3. CASE a = req[h].account
    <3>1. req[h].team # NoTeam /\ pc[h] = "save_account"
      BY <2>1, <2>2, <2>3 DEF HandlerEntitled
    <3>2. /\ req[h].user \in Users
          /\ req[h].team \in DOMAIN teams'
          /\ teams'[req[h].team].origin = Origin[req[h].user]
      BY <2>1, <3>1, EntitlementKept DEF HandlerEntitled, TeamsFrom
    <3> QED
      BY <2>2, <2>3, <3>2, MembershipAssumption, AllowedMeans
  <2>4. CASE a # req[h].account
    BY <1>1, <2>2, <2>4
  <2> QED
    BY <2>3, <2>4
<1>4. ASSUME NEW h \in Handlers, NEW x, SetTeam(x, req[h].team), req[h] \in Request,
             <<x, req[h].team>> \in Allowed
      PROVE  <<a, accounts'[a].team>> \in Allowed'
  <2>1. req[h].team \in Teams \cup {NoTeam}
    BY <1>4 DEF Request
  <2>2. /\ a \in DOMAIN accounts
        /\ accounts'[a].team = IF a = x THEN req[h].team ELSE accounts[a].team
    BY <1>4, <2>1, SetTeamTyped DEF Known
  <2>3. CASE a = x
    <3>1. <<x, req[h].team>> \in Allowed'
      BY <1>4, AllowedStays
    <3> QED
      BY <2>2, <2>3, <3>1
  <2>4. CASE a # x
    BY <1>1, <2>2, <2>4
  <2> QED
    BY <2>3, <2>4
<1>5. ASSUME NEW h \in Handlers, Enter(h)
      PROVE  <<a, accounts'[a].team>> \in Allowed'
  <2>1. /\ SetTeam(req[h].account, req[h].team) /\ req[h] \in Request /\ pc[h] = "enter"
        /\ HandlerEntitled(h)
    BY <1>5 DEF Enter, Known, TypeOK, Entitlements
  <2>2. <<req[h].account, req[h].team>> \in Allowed
    BY <2>1, AllowedMeans DEF HandlerEntitled, Known, TypeOK
  <2> QED
    BY <1>4, <2>1, <2>2
<1>6. ASSUME NEW h \in Handlers, NEW x \in Accounts, Refill(h, x)
      PROVE  <<a, accounts'[a].team>> \in Allowed'
  <2>1. /\ SetTeam(x, req[h].team) /\ req[h] \in Request /\ pc[h] = "refill"
        /\ x \in req[h].left /\ HandlerEntitled(h)
    BY <1>6 DEF Refill, Known, TypeOK, Entitlements
  <2>2. <<x, req[h].team>> \in Allowed
    BY <2>1 DEF HandlerEntitled
  <2> QED
    BY <1>4, <2>1, <2>2
<1>7. CASE accounts' = accounts
  BY <1>1, <1>7
<1> QED
  BY <1>2, <1>3, <1>5, <1>6, <1>7, AccountsMove

LEMMA EntitlementsInit == Init => Entitlements
<1> SUFFICES ASSUME Init
             PROVE  Entitlements
  OBVIOUS
<1>1. PICK u \in Users, t \in Teams :
        /\ Origin[u] # NoOrigin
        /\ accounts = [a \in {Founder} |-> [team |-> t, user |-> u, name |-> <<NameOf[u], 0>>]]
        /\ teams = [s \in {t} |-> [captain |-> Founder, origin |-> Origin[u]]]
  BY DEF Init
<1>2. u # NoUser
  BY MembershipAssumption
<1>3. MembersAllowed
  BY <1>1, <1>2, AllowedMeans DEF MembersAllowed, TeamOf
<1>4. \A h \in Handlers : pc[h] = "idle"
  BY DEF Init
<1> QED
  BY <1>3, <1>4 DEF Entitlements, HandlerEntitled, IdsDistinct, Inserting

LEMMA EntitlementsStep == Known /\ Entitlements /\ [Next]_vars => Entitlements'
BY MembersStep, HandlerStep, IdsStep DEF Entitlements

\* api/teams.rs:107-168 and services/auth.rs:185-215: however joins, callbacks
\* and the clear-and-refill of team_repo.update interleave, fail or are left
\* half done, nobody is ever in a team they were not let into.
THEOREM MembersAlwaysEntitled == Spec => []MembersEntitled
<1>1. Entitlements => MembersEntitled
  BY AllowedMeans DEF Entitlements, MembersAllowed, MembersEntitled
<1> QED
  BY <1>1, TypeInit, TypeStep, EntitlementsInit, EntitlementsStep, PTL DEF Spec, Known
=============================================================================
