------------------------------ MODULE Membership ------------------------------
(***************************************************************************)
(* Accounts and teams: registration, CTFtime OAuth callbacks, and joining a *)
(* team with an invite token. The handlers run concurrently and every store *)
(* call is one step. Membership lives in accounts.team_id alone; updating a *)
(* team clears it for all its members and writes it back one by one from    *)
(* the list read before.                                                    *)
(***************************************************************************)
EXTENDS Naturals, FiniteSets

CONSTANTS
  Handlers,    \* requests served at the same time
  Accounts,    \* account uuids
  Teams,       \* team uuids
  Users,       \* CTFtime users
  Origins,     \* CTFtime teams
  BaseNames,   \* usernames as players or CTFtime give them
  MaxSuffix,   \* bound: the largest number appended to a username
  Origin,      \* the CTFtime team of a user, or NoOrigin
  NameOf,      \* the username of a CTFtime user
  Barred,      \* the accounts the bracket's rhai ACL turns away
  Founder,     \* an account that has a team of its own at the start
  Faults,      \* "abandon": a handler may stop; "store": team_repo.update may fail
  NoTeam, NoUser, NoOrigin, NoRequest

ASSUME MembershipAssumption ==
  /\ Origin \in [Users -> Origins \cup {NoOrigin}]
  /\ NameOf \in [Users -> BaseNames]
  /\ Founder \in Accounts /\ Barred \subseteq Accounts
  /\ Faults \subseteq {"abandon", "store"}
  /\ MaxSuffix \in Nat
  /\ NoTeam \notin Teams /\ NoUser \notin Users /\ NoOrigin \notin Origins

VARIABLES
  accounts,  \* the accounts table
  teams,     \* the teams table
  invites,   \* teams an unexpired invite token exists for
  invited,   \* teams an invite token was ever minted for
  joined,    \* the team an account was last told it has joined
  pc,        \* next store call of each handler
  req        \* the locals of each handler

vars == <<accounts, teams, invites, invited, joined, pc, req>>

\* A username is a base name and the number appended to it, 0 for none.
Username == BaseNames \X (0..MaxSuffix)

Account ==
  [team : Teams \cup {NoTeam}, user : Users \cup {NoUser}, name : Username]

Team == [captain : Accounts, origin : Origins \cup {NoOrigin}]

Steps == {"idle", "register", "name", "origin", "save_team", "save_account", "reread",
          "account", "enter", "clear", "refill"}

\* left: the members still to be written back, read before the clear.
Request ==
  [join : BOOLEAN, account : Accounts, user : Users \cup {NoUser}, name : Username,
   team : Teams \cup {NoTeam}, left : SUBSET Accounts]

TypeOK ==
  /\ DOMAIN accounts \subseteq Accounts
  /\ \A a \in DOMAIN accounts : accounts[a] \in Account
  /\ DOMAIN teams \subseteq Teams
  /\ \A t \in DOMAIN teams : teams[t] \in Team
  /\ invites \subseteq invited /\ invited \subseteq DOMAIN teams
  /\ joined \in [Accounts -> Teams \cup {NoTeam}]
  /\ pc \in [Handlers -> Steps]
  /\ req \in [Handlers -> Request \cup {NoRequest}]
  /\ \A h \in Handlers : pc[h] # "idle" => req[h] \in Request

TeamOf(a) == accounts[a].team

Members(t) == {a \in DOMAIN accounts : TeamOf(a) = t}

UsernamesTaken == {accounts[a].name : a \in DOMAIN accounts}

TeamsFrom(o) == {t \in DOMAIN teams : teams[t].origin = o}

Running == {h \in Handlers : pc[h] # "idle"}

\* Ids that neither a row nor a running request holds.
FreshAccounts == Accounts \ (DOMAIN accounts \cup {req[h].account : h \in Running}
                             \cup {teams[t].captain : t \in DOMAIN teams})

FreshTeams == Teams \ DOMAIN teams

\* The founder came through CTFtime with a team; nobody else is known yet.
Init ==
  /\ \E u \in Users, t \in Teams :
       /\ Origin[u] # NoOrigin
       /\ accounts = [a \in {Founder} |-> [team |-> t, user |-> u, name |-> <<NameOf[u], 0>>]]
       /\ teams = [s \in {t} |-> [captain |-> Founder, origin |-> Origin[u]]]
  /\ invites = {} /\ invited = {}
  /\ joined = [a \in Accounts |-> NoTeam]
  /\ pc = [h \in Handlers |-> "idle"]
  /\ req = [h \in Handlers |-> NoRequest]
-----------------------------------------------------------------------------
Start(h, to, r) ==
  /\ pc[h] = "idle"
  /\ pc' = [pc EXCEPT ![h] = to]
  /\ req' = [req EXCEPT ![h] = r]

Goto(h, from, to) ==
  /\ pc[h] = from
  /\ pc' = [pc EXCEPT ![h] = to]

Finish(h) ==
  /\ pc' = [pc EXCEPT ![h] = "idle"]
  /\ req' = [req EXCEPT ![h] = NoRequest]

\* UPDATE accounts SET team_id WHERE id: no row, no effect.
SetTeam(a, t) ==
  accounts' = [x \in DOMAIN accounts |->
                 IF x = a THEN [accounts[x] EXCEPT !.team = t] ELSE accounts[x]]

\* The unique username and ctftime_id columns let a new account in.
Insertable(r) ==
  /\ r.name \notin UsernamesTaken
  /\ r.user # NoUser => r.user \notin {accounts[a].user : a \in DOMAIN accounts}

InsertAccount(r) ==
  accounts' = [a \in DOMAIN accounts \cup {r.account} |->
    IF a = r.account THEN [team |-> r.team, user |-> r.user, name |-> r.name]
    ELSE accounts[a]]

\* The first of base, base1, base2, ... that no account has.
FreeName(base, name) ==
  /\ name[1] = base /\ name \notin UsernamesTaken
  /\ \A n \in 0..MaxSuffix : n < name[2] => <<base, n>> \in UsernamesTaken
-----------------------------------------------------------------------------
\* Registration looks the username up and inserts the account in a later call,
\* which fails if the name was taken in between.
Register(h, a, name) ==
  /\ name \notin UsernamesTaken
  /\ Start(h, "register", [join |-> FALSE, account |-> a, user |-> NoUser, name |-> name,
                           team |-> NoTeam, left |-> {}])
  /\ UNCHANGED <<accounts, teams, invites, invited, joined>>

SaveRegistered(h) ==
  /\ pc[h] = "register"
  /\ IF Insertable(req[h]) THEN InsertAccount(req[h]) ELSE UNCHANGED accounts
  /\ Finish(h)
  /\ UNCHANGED <<teams, invites, invited, joined>>
-----------------------------------------------------------------------------
\* A CTFtime user comes back from authorizing; a known one is simply let in. A
\* new one gets an id and a free username.
Callback(h, u, a, name) ==
  /\ u \notin {accounts[x].user : x \in DOMAIN accounts}
  /\ FreeName(NameOf[u], name)
  /\ Start(h, IF Origin[u] = NoOrigin THEN "save_account" ELSE "origin",
           [join |-> FALSE, account |-> a, user |-> u, name |-> name, team |-> NoTeam,
            left |-> {}])
  /\ UNCHANGED <<accounts, teams, invites, invited, joined>>

M_FindOrigin(h) ==
  /\ pc[h] = "origin"
  /\ pc' = [pc EXCEPT ![h] = "save_account"]
  /\ req' = [req EXCEPT ![h].team = Origin[req[h].user]]
  /\ UNCHANGED <<accounts, teams, invites, invited, joined>>

\* Look for the user's CTFtime team; if there is none it has to be saved.
FindOrigin(h) ==
  /\ pc[h] = "origin"
  /\ LET found == TeamsFrom(Origin[req[h].user])
     IN  IF found = {}
         THEN pc' = [pc EXCEPT ![h] = "save_team"] /\ UNCHANGED req
         ELSE \E t \in found : /\ pc' = [pc EXCEPT ![h] = "save_account"]
                              /\ req' = [req EXCEPT ![h].team = t]
  /\ UNCHANGED <<accounts, teams, invites, invited, joined>>

\* The team is inserted before its captain's account, whose row the following
\* UPDATE of the members does not find. A team that was saved meanwhile makes
\* the insert fail, and the callback with it.
SaveTeam(h, t) ==
  /\ pc[h] = "save_team"
  /\ IF TeamsFrom(Origin[req[h].user]) = {}
     THEN /\ teams' = [s \in DOMAIN teams \cup {t} |->
                         IF s = t THEN [captain |-> req[h].account,
                                        origin |-> Origin[req[h].user]]
                         ELSE teams[s]]
          /\ pc' = [pc EXCEPT ![h] = "save_account"]
          /\ req' = [req EXCEPT ![h].team = t]
     ELSE UNCHANGED teams /\ Finish(h)
  /\ UNCHANGED <<accounts, invites, invited, joined>>

SaveAccount(h) ==
  /\ pc[h] = "save_account"
  /\ IF Insertable(req[h])
     THEN /\ InsertAccount(req[h])
          /\ IF req[h].team = NoTeam THEN Finish(h)
             ELSE pc' = [pc EXCEPT ![h] = "reread"] /\ UNCHANGED req
     ELSE UNCHANGED accounts /\ Finish(h)
  /\ UNCHANGED <<teams, invites, invited, joined>>

\* The team is read back; a user missing from it is added by updating the team.
Reread(h) ==
  /\ pc[h] = "reread"
  /\ LET members == Members(req[h].team)
     IN  IF req[h].account \in members THEN Finish(h)
         ELSE /\ pc' = [pc EXCEPT ![h] = "clear"]
              /\ req' = [req EXCEPT ![h].left = members \cup {req[h].account}]
  /\ UNCHANGED <<accounts, teams, invites, invited, joined>>
-----------------------------------------------------------------------------
\* The captain mints a token, valid until its lifespan is over.
CreateInvite(a, t) ==
  /\ a \in DOMAIN accounts
  /\ t \in DOMAIN teams /\ teams[t].captain = a
  /\ invites' = invites \cup {t} /\ invited' = invited \cup {t}
  /\ UNCHANGED <<accounts, teams, joined, pc, req>>

ExpireInvite(t) ==
  /\ t \in invites
  /\ invites' = invites \ {t}
  /\ UNCHANGED <<accounts, teams, invited, joined, pc, req>>

\* A token is verified and the team read with its members.
Join(h, a, t) ==
  /\ a \in DOMAIN accounts /\ t \in invites
  /\ Start(h, "account", [join |-> TRUE, account |-> a, user |-> NoUser,
                          name |-> accounts[a].name, team |-> t, left |-> Members(t)])
  /\ UNCHANGED <<accounts, teams, invites, invited, joined>>

M_CheckBracket(h) ==
  /\ Goto(h, "account", "enter")
  /\ UNCHANGED <<accounts, teams, invites, invited, joined, req>>

\* The account is read and the bracket's script decides.
CheckBracket(h) ==
  /\ pc[h] = "account"
  /\ IF req[h].account \in Barred THEN Finish(h)
     ELSE pc' = [pc EXCEPT ![h] = "enter"] /\ UNCHANGED req
  /\ UNCHANGED <<accounts, teams, invites, invited, joined>>

\* The answer to a join.
Answer(h) ==
  /\ joined' = [joined EXCEPT ![req[h].account] = req[h].team]
  /\ Finish(h)

\* The account's row is written with its new team; if it was not among the
\* members read, the team is updated as well.
Enter(h) ==
  /\ pc[h] = "enter"
  /\ SetTeam(req[h].account, req[h].team)
  /\ IF req[h].account \in req[h].left THEN Answer(h)
     ELSE /\ pc' = [pc EXCEPT ![h] = "clear"]
          /\ req' = [req EXCEPT ![h].left = @ \cup {req[h].account}]
          /\ UNCHANGED joined
  /\ UNCHANGED <<teams, invites, invited>>
-----------------------------------------------------------------------------
\* team_repo.update: the team loses all its members, then gets them back one by
\* one in the order of the list, the newcomer last.
Clear(h) ==
  /\ Goto(h, "clear", "refill")
  /\ accounts' = [a \in DOMAIN accounts |->
       IF TeamOf(a) = req[h].team THEN [accounts[a] EXCEPT !.team = NoTeam] ELSE accounts[a]]
  /\ UNCHANGED <<teams, invites, invited, joined, req>>

Refill(h, a) ==
  /\ pc[h] = "refill"
  /\ a \in req[h].left
  /\ a = req[h].account => req[h].left = {a}
  /\ SetTeam(a, req[h].team)
  /\ IF req[h].left # {a}
     THEN req' = [req EXCEPT ![h].left = @ \ {a}] /\ UNCHANGED <<pc, joined>>
     ELSE IF req[h].join THEN Answer(h) ELSE Finish(h) /\ UNCHANGED joined
  /\ UNCHANGED <<teams, invites, invited>>

\* An update that fails part way: a join ignores the error.
FailUpdate(h) ==
  /\ "store" \in Faults
  /\ pc[h] \in {"clear", "refill"}
  /\ IF req[h].join THEN Answer(h) ELSE Finish(h) /\ UNCHANGED joined
  /\ UNCHANGED <<accounts, teams, invites, invited>>

\* The client hangs up, or a store call fails: the rest is never done.
Abandon(h) ==
  /\ "abandon" \in Faults
  /\ pc[h] # "idle"
  /\ Finish(h)
  /\ UNCHANGED <<accounts, teams, invites, invited, joined>>

Next ==
  \/ \E h \in Handlers :
       \/ \E a \in FreshAccounts, name \in Username : Register(h, a, name)
       \/ \E u \in Users, a \in FreshAccounts, name \in Username : Callback(h, u, a, name)
       \/ \E t \in FreshTeams : SaveTeam(h, t)
       \/ \E a \in Accounts, t \in Teams : Join(h, a, t)
       \/ \E a \in Accounts : Refill(h, a)
       \/ SaveRegistered(h) \/ FindOrigin(h) \/ SaveAccount(h) \/ Reread(h)
       \/ CheckBracket(h) \/ Enter(h) \/ Clear(h) \/ FailUpdate(h) \/ Abandon(h)
  \/ \E a \in Accounts, t \in Teams : CreateInvite(a, t)
  \/ \E t \in Teams : ExpireInvite(t)

Spec == Init /\ [][Next]_vars
-----------------------------------------------------------------------------
\* api/teams.rs:107-168 and services/auth.rs:185-215: whatever a stale refill
\* writes back, an account is in a team only if the team's bracket lets it in
\* and its captain once minted an invite, or if CTFtime says it is in that team.
MembersEntitled ==
  \A a \in DOMAIN accounts : TeamOf(a) # NoTeam =>
    LET t == TeamOf(a)
    IN  \/ t \in invited /\ a \notin Barred
        \/ accounts[a].user # NoUser /\ Origin[accounts[a].user] = teams[t].origin

\* locales/en-US/openapi.ftl:71 answers a join with "Joined": once nothing is
\* running, an account is in the team it was last told it has joined.
JoinedStays ==
  (\A h \in Handlers : pc[h] = "idle") =>
    \A a \in DOMAIN accounts : joined[a] # NoTeam => TeamOf(a) = joined[a]

\* locales/en-US/errors.ftl:50 leaves invites to the captain: once nothing is
\* running, the captain of every team is a registered account.
CaptainExists ==
  (\A h \in Handlers : pc[h] = "idle") =>
    \A t \in DOMAIN teams : teams[t].captain \in DOMAIN accounts
=============================================================================
