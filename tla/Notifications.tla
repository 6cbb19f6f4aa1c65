---------------------------- MODULE Notifications ----------------------------
(***************************************************************************)
(* Announcements and the live stream. An announcement is resolved, saved    *)
(* and then sent through a broadcast channel that keeps the last messages;  *)
(* solves are sent and not saved. A client opens the stream and then lists  *)
(* what was saved; both requests read the viewer's team for themselves, the *)
(* stream once for all its life.                                            *)
(***************************************************************************)
EXTENDS Naturals, Sequences, FiniteSets, Players

CONSTANTS
  NoAccount,
  Targets,        \* the targets an admin may post
  RequireAuth,    \* config.require_auth
  Buffer,         \* capacity of the channel
  Listed,         \* rows list_recent returns at most
  Announcements,  \* announcements; each is made once
  Clients,        \* clients; each opens one stream and lists once
  LastSecond,     \* bound: the clock stops here
  MaxSent,        \* bound: no solve is announced once this much was sent
  MaxSolves,      \* bound: solves of the challenge the filter asks for
  NoViewer

Resolved ==
  [kind : {"Everyone"}] \cup
  [kind : {"Teams"}, ids : SUBSET Teams] \cup
  [kind : {"Accounts"}, ids : SUBSET Accounts]

\* There is one filter: that the challenge is in the recipient's solved set.
Target == Resolved \cup [kind : {"Filter"}]

ASSUME NotificationsAssumption ==
  /\ Targets \subseteq Target
  /\ NoAccount \notin Accounts /\ "solve" \notin Announcements
  /\ Buffer \in Nat \ {0} /\ Listed \in Nat /\ LastSecond \in Nat

VARIABLES
  now,      \* seconds
  was,      \* history: the teams each account has been in
  solves,   \* correct submissions of the challenge the filter asks for
  request,  \* the locals of each create_notification
  table,    \* the notifications table
  sent,     \* all messages ever sent through the channel
  client    \* what each client is, was sent and has listed

notice_vars == <<now, team_of, was, solves, request, table, sent, client>>

\* by: the announcement, or "solve" for the notification of a solve.
Notification == [by : Announcements \cup {"solve"}, target : Resolved, at : 0..LastSecond]

\* teams: the accounts as a filter read them, or nothing for an error.
Pending ==
  [step : {"new", "accounts", "done"}] \cup
  [step : {"solves"}, teams : [Accounts -> Teams \cup {NoTeam}] \cup {<<>>}] \cup
  [step : {"save", "send"}, notification : Notification]

Viewer == [account : Accounts \cup {NoAccount}, team : Teams \cup {NoTeam}]

\* step: the request a client is about to make or waits for. stream, list: the
\* viewer the stream and the list are filtered for. next: the receiver's place in
\* sent; got: what it passed on.
Client ==
  [step : {"open", "subscribe", "list", "rows", "done"},
   stream : Viewer \cup {NoViewer}, list : Viewer \cup {NoViewer},
   start : Nat, next : Nat, got : SUBSET Nat, listed : SUBSET Notification]

NoticesInit ==
  /\ now = 0
  /\ team_of \in [Accounts -> Teams \cup {NoTeam}]
  /\ was = [a \in Accounts |-> {team_of[a]}]
  /\ solves = {}
  /\ request = [h \in Announcements |-> [step |-> "new"]]
  /\ table = {} /\ sent = <<>>
  /\ client = [c \in Clients |->
       [step |-> "open", stream |-> NoViewer, list |-> NoViewer, start |-> 0, next |-> 0,
        got |-> {}, listed |-> {}]]

\* target_visible; a filter was resolved before it was saved.
Visible(target, v) ==
  \/ target.kind = "Everyone"
  \/ target.kind = "Accounts" /\ v.account \in target.ids
  \/ target.kind = "Teams" /\ v.team \in target.ids
-----------------------------------------------------------------------------
M_Announce(h, target) ==
  /\ request[h].step = "new"
  /\ request' = [request EXCEPT ![h] =
       [step |-> "save", notification |-> [by |-> h, target |-> target, at |-> now]]]
  /\ UNCHANGED <<now, team_of, was, solves, table, sent, client>>

\* create_notification; other targets than a filter are left as they are.
Announce(h, target) ==
  /\ request[h].step = "new"
  /\ request' = [request EXCEPT ![h] =
       IF target.kind = "Filter" THEN [step |-> "accounts"]
       ELSE [step |-> "save", notification |-> [by |-> h, target |-> target, at |-> now]]]
  /\ UNCHANGED <<now, team_of, was, solves, table, sent, client>>

\* resolve_target reads the accounts, and then the submissions.
ReadAccounts(h) ==
  /\ request[h].step = "accounts"
  /\ \E teams \in OrDefault(team_of, <<>>) :
       request' = [request EXCEPT ![h] = [step |-> "solves", teams |-> teams]]
  /\ UNCHANGED <<now, team_of, was, solves, table, sent, client>>

M_Matched(teams, rows) == {a \in DOMAIN teams : \E s \in rows : s.team = teams[a]}

\* The accounts that the filter holds for, by the teams read first.
Matched(teams, rows) ==
  {a \in DOMAIN teams :
     \E s \in rows : IF teams[a] = NoTeam THEN s.account = a ELSE s.team = teams[a]}

ReadSolves(h) ==
  /\ request[h].step = "solves"
  /\ \E rows \in OrDefault(solves, {}) :
       LET target == [kind |-> "Accounts", ids |-> Matched(request[h].teams, rows)]
       IN  request' = [request EXCEPT ![h] =
             [step |-> "save", notification |-> [by |-> h, target |-> target, at |-> now]]]
  /\ UNCHANGED <<now, team_of, was, solves, table, sent, client>>

\* announce.
SaveRow(h) ==
  /\ request[h].step = "save"
  /\ table' = table \cup {request[h].notification}
  /\ request' = [request EXCEPT ![h].step = "send"]
  /\ UNCHANGED <<now, team_of, was, solves, sent, client>>

Send(h) ==
  /\ request[h].step = "send"
  /\ sent' = Append(sent, request[h].notification)
  /\ request' = [request EXCEPT ![h] = [step |-> "done"]]
  /\ UNCHANGED <<now, team_of, was, solves, table, client>>

\* The save fails, done or not, or the admin hangs up.
GiveUp(h) ==
  /\ "store" \in Faults
  /\ request[h].step \notin {"new", "done"}
  /\ request' = [request EXCEPT ![h] = [step |-> "done"]]
  /\ UNCHANGED <<now, team_of, was, solves, table, sent, client>>

\* A solve, and the notification of it or of another one.
Solve(a) ==
  /\ Cardinality(solves) < MaxSolves
  /\ solves' = solves \cup {[account |-> a, team |-> team_of[a]]}
  /\ UNCHANGED <<now, team_of, was, request, table, sent, client>>

Broadcast ==
  /\ Len(sent) < MaxSent
  /\ sent' = Append(sent, [by |-> "solve", target |-> [kind |-> "Everyone"], at |-> now])
  /\ UNCHANGED <<now, team_of, was, solves, request, table, client>>
-----------------------------------------------------------------------------
\* viewer_identity: an error is no team.
Identity(a) ==
  IF a = NoAccount THEN {[account |-> a, team |-> NoTeam]}
  ELSE {[account |-> a, team |-> team] : team \in OrDefault(team_of[a], NoTeam)}

Open(c, a) ==
  /\ client[c].step = "open"
  /\ RequireAuth => a # NoAccount
  /\ \E v \in Identity(a) :
       client' = [client EXCEPT ![c].step = "subscribe", ![c].stream = v]
  /\ UNCHANGED <<now, team_of, was, solves, request, table, sent>>

\* A receiver gets what is sent from now on.
Subscribe(c) ==
  /\ client[c].step = "subscribe"
  /\ client' = [client EXCEPT ![c].step = "list", ![c].start = Len(sent) + 1,
                              ![c].next = Len(sent) + 1]
  /\ UNCHANGED <<now, team_of, was, solves, request, table, sent>>

\* The next message that is still kept; the error that tells of the others is
\* dropped.
Receive(c) ==
  LET oldest == IF Len(sent) >= Buffer THEN Len(sent) + 1 - Buffer ELSE 1
      p == IF client[c].next < oldest THEN oldest ELSE client[c].next
  IN  /\ client[c].step \in {"list", "rows", "done"}
      /\ p <= Len(sent)
      /\ client' = [client EXCEPT ![c].next = p + 1,
                      ![c].got = @ \cup {i \in {p} : Visible(sent[i].target, client[c].stream)}]
      /\ UNCHANGED <<now, team_of, was, solves, request, table, sent>>

\* list_notifications, of the same account.
List(c) ==
  /\ client[c].step = "list"
  /\ \E v \in Identity(client[c].stream.account) :
       client' = [client EXCEPT ![c].step = "rows", ![c].list = v]
  /\ UNCHANGED <<now, team_of, was, solves, request, table, sent>>

M_Recent(rows) ==
  Cardinality(rows) = (IF Cardinality(table) < Listed THEN Cardinality(table) ELSE Listed)

\* ORDER BY created_at DESC LIMIT: which of the rows of one second is open.
Recent(rows) ==
  /\ Cardinality(rows) = (IF Cardinality(table) < Listed THEN Cardinality(table) ELSE Listed)
  /\ \A n \in rows, m \in table \ rows : n.at >= m.at

ReadRows(c) ==
  /\ client[c].step = "rows"
  /\ \E rows \in SUBSET table :
       /\ Recent(rows)
       /\ client' = [client EXCEPT ![c].step = "done",
                       ![c].listed = {n \in rows : Visible(n.target, client[c].list)}]
  /\ UNCHANGED <<now, team_of, was, solves, request, table, sent>>
-----------------------------------------------------------------------------
ChangeTeam(a, t) ==
  /\ team_of' = [team_of EXCEPT ![a] = t]
  /\ was' = [was EXCEPT ![a] = @ \cup {t}]
  /\ UNCHANGED <<now, solves, request, table, sent, client>>

Pass ==
  /\ now < LastSecond
  /\ now' = now + 1
  /\ UNCHANGED <<team_of, was, solves, request, table, sent, client>>

NoticesNext ==
  \/ \E h \in Announcements :
       \/ \E target \in Targets : Announce(h, target)
       \/ ReadAccounts(h) \/ ReadSolves(h) \/ SaveRow(h) \/ Send(h) \/ GiveUp(h)
  \/ \E c \in Clients :
       \/ \E a \in Accounts \cup {NoAccount} : Open(c, a)
       \/ Subscribe(c) \/ Receive(c) \/ List(c) \/ ReadRows(c)
  \/ \E a \in Accounts : Solve(a) \/ \E t \in Teams \cup {NoTeam} : ChangeTeam(a, t)
  \/ Broadcast \/ Pass

NoticesSpec == NoticesInit /\ [][NoticesNext]_notice_vars
-----------------------------------------------------------------------------
NoticesTypeOK ==
  /\ now \in 0..LastSecond
  /\ team_of \in [Accounts -> Teams \cup {NoTeam}]
  /\ was \in [Accounts -> SUBSET (Teams \cup {NoTeam})]
  /\ solves \subseteq [account : Accounts, team : Teams \cup {NoTeam}]
  /\ request \in [Announcements -> Pending]
  /\ table \subseteq Notification
  /\ sent \in Seq(Notification)
  /\ client \in [Clients -> Client]
  /\ \A c \in Clients :
       client[c].step \in {"list", "rows", "done"} =>
         client[c].start <= client[c].next /\ client[c].next <= Len(sent) + 1

\* services/notifications.rs:45: what was sent before a client subscribed is
\* saved by then, and what is saved after it has listed is sent to it later. So
\* an announcement that is for the viewer of both requests reaches the client,
\* unless a full buffer was sent after it, or as many rows as are listed are as
\* young as it is.
NothingMissed ==
  \A c \in Clients, p \in DOMAIN sent :
    LET n == sent[p]
        young == {m \in table \ {n} : m.at >= n.at}
    IN  /\ client[c].step = "done"
        /\ n.by # "solve"
        /\ Visible(n.target, client[c].stream) /\ Visible(n.target, client[c].list)
        => \/ p >= client[c].next
           \/ p \in client[c].got
           \/ n \in client[c].listed
           \/ IF p >= client[c].start THEN Len(sent) - p >= Buffer
                                      ELSE Cardinality(young) >= Listed

\* api/notifications.rs:84-118: the accounts and the submissions a filter is
\* resolved by are read one after the other. It still reaches only accounts that
\* solved the challenge, or whose team at some time did.
FilterEarned ==
  \A n \in table : n.target.kind = "Accounts" /\ n.target \notin Targets =>
    \A a \in n.target.ids :
      \E s \in solves : s.account = a \/ s.team \in was[a] \ {NoTeam}
=============================================================================
