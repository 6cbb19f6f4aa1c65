# TLA+ models of cctf.rs

cctf.rs is a capture-the-flag server: an axum HTTP API over PostgreSQL, with
flag submission and scoring, teams and CTFtime accounts, hints, notifications,
files, e-mail, and a Kubernetes instancer. All requests run concurrently on
tokio. The code uses no transactions and few unique indexes, so almost every
rule it enforces is a read in one store call and a write in a later one, with
other requests in between. That is what these models are about: each awaited
call is one step, and a request may stop at any of them.

Line references are to `src/libs/` unless they start elsewhere.

## Inventory

| Component | State | Operations | Correct when |
|---|---|---|---|
| Flag submission (`services/solve.rs`, `api/solve.rs`, `types/flags.rs`) | `submissions`, read-only challenge settings, live instance flags | `submit_flag`, `maybe_broadcast_solve` | caps, dedup and prerequisites hold for the table, a solve is priced from the solves before it, a first blood is the first |
| Rate limiter (`api/extract.rs`) | a map of timestamps per key under a mutex | `check_limit` before submit, login, register | a window never admits more than the limit |
| Accounts and teams (`services/auth.rs`, `api/teams.rs`, `repos/pg/{accounts,teams}.rs`) | `accounts` (with `team_id`), `teams`, invite tokens | register, CTFtime callback, invite, join | nobody is in a team they are not entitled to; nobody who joined is put out; a team has its captain |
| Instancer (`services/instancer.rs`) | pods and services in the cluster, `challenge_instances`, sleeping tasks | spawn, renew, destroy, start-up scan, reaping | an instance lives as long as its row says and everything spawned is removed |
| Hints (`services/hint.rs`, `repos/pg/hints.rs`) | `hint_unlocks` | `unlock_hint` | a hint is charged once; in `Gate` mode never more than the team has |
| Scoreboard (`services/scoreboard.rs`) | none; reads all tables | `get_scoreboard`, `export_ctftime` | points are earned, costs are charged, the order is total, a frozen board does not follow later submissions |
| Challenge administration and views (`api/challenges.rs`, `repos/pg/challenges.rs`) | `challenges` | create, patch, delete, list, get | a patch takes effect, a delete takes what it says |
| Notifications (`services/notifications.rs`, `api/notifications.rs`) | `notifications`, a broadcast channel of 256 | announce, stream, list | who may see one gets it, nobody else does |
| Files (`services/files.rs`, `services/storage.rs`) | blobs, `files` rows | upload, download (`delete` has no caller) | a link that was given out leads to the whole file |
| E-mail (`services/email/*`) | SMTP dialogue, catcher mailboxes | `send_email`, catchers | a mail reported as sent is delivered once and unchanged; credentials leave only through TLS; a send ends |
| Authentication (`crypto/jwt.rs`, extractors) | none | issue, decode, extract | pure functions over a signature library |
| Configuration (`services/config.rs`) | one row | get, update; read once by `main` | - |
| Persistence (`repos/*`) | the tables | one statement per call, few multi-statement ones | unique and foreign keys hold |
| Proxy (`api/proxy.rs`), router, OpenAPI, locales, start-up | none | forwarding and wiring | - |

How they meet. `submit_flag` passes the rate limiter twice, reads the account
and its team, the challenge, the instancer's live flag, and the whole
submissions table (several times), appends a row and then broadcasts a
notification. Joining a team and the CTFtime callback change `team_id` under a
running submission. The instancer inserts and deletes the rows submission
reads. Deleting a challenge cascades to instances. The hint gate and the
scoreboard recompute scores from the same tables. `main` (`src/main.rs`) reads
the configuration once and constructs every service except the instancer,
which is a library component for now: `init_reaper_schedules` has no caller.

What is hard here: two requests between each other's read and write; values
read several awaits before they are used (team, attempts, solve count,
visibility, member lists, the clock); updates made of several statements
(team update, account after team, pod then service then row); reads whose error
is swallowed by `unwrap_or_default`; futures dropped when a client hangs up;
sleeping tasks that a crash loses; timers that a renewal does not move. The
`hazards` of PROJECT.json list them line by line.

## Modules

* **Submissions** - the table, the challenge settings and the pure operators of
  the scoring code: matching, prior rows, the four attempt counts, solvers.
* **SubmissionLedger** - the abstract specification: a submission is one step
  that appends one row, admitted by prerequisites, cap and credit, with
  `Overlap - 1` rows of slack. With `Overlap = 1` it is the documented rule.
* **SubmitFlag** - the detailed one. `pc[h]` is the next store call of handler
  `h`, `req[h]` its locals: `Receive` (account read), `CheckVisibility`,
  `CheckAttempts`, `CheckRequirements`, `MatchFlag`, `CheckSolved`,
  `CountTeams`/`CountTeam`/`CountedTeams`/`ReachConsensus` or `CountAccounts`,
  `Save`, `Announce`; `Refuse` is every early return and `Abandon` a store error
  passed up or a dropped future. `SetTeam`, `SpawnInstance` and `ExpireInstance`
  are what the other components do to the tables meanwhile.
* **RateLimiter** - `Arrive` reads the clock, `Admit` and `Reject` run with the
  lock held. `log` is a history of admissions; `entries` holds its indices, so
  the recorded time of an entry and its real time can be told apart.
* **Membership** - accounts and teams. `Register`, `Callback`, `Join` and their
  later steps; `Clear` and `Refill` are the two halves of `team_repo.update`.
  `joined` and `invited` are history variables.
* **Instancer** - spawn call by call, `Schedule`/`Fire` for the sleeping task,
  `DeleteService`/`DeletePod`/`DeleteRow` for a destroy, `ScheduleReaps` and
  `ReapExpired` for the start-up scan, `Crash`/`Restart`. Times are the seconds
  that remain, so the clock needs no bound.
* **Scoring** - what a team has earned and spent, as operators over the tables:
  dynamic points, parts of a Multi flag with rounded weights, consensus over the
  current members, `total_hint_cost`. Weights are hundredths and the points of a
  `DynamicDecay` exact fractions, rounded as the code rounds its floats.
* **Hints** - `unlock_hint` call by call: `Receive` (account), `ReadSubmissions`
  (challenge and the whole table), `Charge` (earlier unlocks, cost), in Gate
  mode `ReadTeam` (score from the old table and the new members) and `PassGate`
  (unlocks), then `Save`. `Return` is every early answer. A table that is only
  appended to is kept once; what a handler read of it is the length it had.
  Deleting a challenge, which deletes its rows, is left out here.
* **Scoreboard** - `get_scoreboard` and `export_ctftime` call by call:
  `ReadTeams`, `ReadMembers` of each team, `ReadSubmissions` and `ReadUnlocks`, each
  cut at the freeze once it has come, and for an export `ReadStats`, which reads
  the submissions again. `moved` is a history variable. A
  change of team is one step here; its two halves are in Membership.
* **Players** - what the next two share: the team of an account, which changes
  under them, and a read whose error is swallowed (`OrDefault`).
* **ChallengeAdmin** - create, patch, delete and the two player views. A
  `View` reads the account, the challenges, the submissions, the unlocks and the
  account again; `DeleteSolves` and `DeleteChallenge` are the two statements of a
  delete; a submission reads its challenge and saves its row later. `purges`, the
  `purges` and `gap` of a row, and `was` and `hid` of a call are history: `gap` is TRUE
  of a submission that found its challenge between the two statements. Its `Calls` are the running requests, its
  table of challenges a function over all ids (`NoChallenge` where there is none)
  and its table of submissions a set of rows with a fresh key each.
* **Notifications** - `create_notification` with its filter resolved by two reads,
  then saved, then sent; the channel as the sequence of all messages, of which
  the last `Buffer` can still be received; a client that opens the stream and
  then lists. `GiveUp` is a failed save or an admin who hangs up; `was` is history.
* **Files** - an upload stores a blob, saves a row and answers; a blob is written
  in the background and is first a part, then whole; a download finds the row and
  then the blob. `known` is history: the link was given out before.
* **Smtp** - `send_email` reply by reply (`Connect`, `Reply`, `Eof`, `Drop`), the SMTP
  catcher command by command and line by line, a relay that answers anything, a
  connection that breaks, and the mailbox that the HTTP catcher cuts.
* **Services** - ChallengeAdmin, Notifications and Files together: the conjunction of
  their specifications, and of their type invariants.
* **MCSubmitFlag, MCRateLimiter, MCMembership, MCInstancer, MCHints** - small
  instances and their symmetry.
* **MCSubmitCredits, MCBoard, MCServices, MCProgress** - components that share
  nothing, side by side: two instances of SubmitFlag; Instancer and Scoreboard;
  RateLimiter and Services; Instancer and Smtp. Each
  extends the MC module of one and the modules of the others, whose names differ
  (MCSubmitCredits, which needs SubmitFlag twice, instantiates the second). The team
  of an account is one variable of ChallengeAdmin and Notifications, and is moved by
  whichever is played. The variable `played` is chosen at the start and says which of
  them moves; the others stay in an initial state, so the states of a run are the
  sum of its parts and not their product, and each part is explored as it would be
  alone.
* **SubmitFlag_proofs, Membership_proofs, Instancer_proofs, Hints_proofs,
  Scoreboard_proofs, Services_proofs, Smtp_proofs** - the theorems.
  SubmitFlag_proofs begins with lemmas about the operators of Submissions;
  **Scoring_proofs** holds those about Scoring, which Hints_proofs and
  Scoreboard_proofs extend; Services_proofs has a part each for RateLimiter,
  ChallengeAdmin, Notifications and Files.

A definition named `M_X` is a plausible bug in `X`, kept to show that a property
notices it; it is never used by a specification.

## Runs

| Run | Instance | Shows |
|---|---|---|
| `submit_rules` | 2 handlers, 2 accounts, 1 team, two capped challenges, one unlocking the other, faults `abandon` and `store` | `RequirementsRespected`, `NeverUnderpaid`, `AttemptsBounded` and `ImplementsLedger` |
| `submit_credits` | 2 handlers on a consensus challenge and a hidden two-part one with overlapping part flags; 1 handler on an instanced one, 2 accounts, 2 teams, 2 generated flags | `CreditsBounded`, `HiddenUntouched`, `BoxFlagsNotShared` (the `InstanceFlagsNotShared` of SubmitFlag) |
| `submit_announce` | 2 handlers, no failures, fair | `FirstBloodIsFirst`, `SolvesAnnounced` |
| `submit_respawn` | 1 handler, a Multi flag with an instanced part | refutes `SolvedOnce` |
| `members_race` | 2 handlers, faults | `MembersEntitled` |
| `join_lost` | 2 handlers, no failures | refutes `JoinedStays` |
| `renewal_cut` | 1 instance, no failures, the scan of the start-up over before the first spawn (`ScannedFirst`) | refutes `RenewalKept` by the timer of the spawn itself |
| `hints` | 2 handlers, Gate mode, a two-part challenge with a hint that unlocks another with a scripted one | `ChargesBounded`, `OverspendBounded`, `UnlocksEarned` |
| `board` | 2 instances, cluster, database and crash faults; one board or export of 2 teams over a consensus challenge and a plain one | `ServedWhileLive`; `NeverFlattered`, `ExportCovers`, `BoardSortable`, `FrozenBoardMoves`, `EarnedBySolving` |
| `services` | 2 handlers and 2 keys at the limiter; 2 requests over 2 challenge ids, an admin and a player; 2 announcements and a client; 2 uploads and 2 downloads; stores that fail | `WindowBounded`; `ListConsistent`, `HintsEarned`, `HiddenKept`, `PurgedSolvesGone`; `NothingMissed`, `FilterEarned`; `DownloadsWhole` |
| `patch_ignored` | the instance of `services` without failures | refutes `PatchesApplied` |
| `progress` | 1 instance, cluster faults, 2 crashes; 2 e-mails, breaking connections; fair | `RowsWatched`, `RowsReaped`; `Delivered`, `CredentialsSecured`, `MailEnds` |

The type invariants are checked in `submit_rules`, `members_race`, `hints`,
`board` (Instancer, Scoreboard), `services` (RateLimiter; the other three together
as `ServicesTypeOK`) and `progress` (Smtp).

Bounds. Two handlers are enough for every race found here, since each is a read
of one request and a write of another. `MaxSubmissions` stops new requests, not
running ones, so the table reaches one row more than it with two handlers: two
rows that overlap plus one before them. `MaxUnlocks` works the same way for
the hints of `hints`, whose one row of submissions is enough to earn points and to meet
the prerequisite. Flags are model values, as many as it
takes to match one part, another part, and to miss in two different ways.
`MaxSuffix` bounds the number appended to a taken username; with three accounts
2 is never reached by need. `MaxCrashes` bounds crashes. `Window = 2` with
`MaxTime = 3` lets an entry be fresh, exactly at the boundary, and old.
The board of `board` freezes at 1 of 0..1, so submissions, unlocks and team
changes come before and after it. `MaxWrites = 3` of ChallengeAdmin is a delete,
a create under the same id and one write around them; `MaxSubmissions = 2` with two
requests leaves room for one submission that the delete outruns and two that find
their challenge between its statements. A `Buffer` of 1 for 256 and one listed row
for 100 are what any two messages overflow.
`MaxMailbox = 1` lets one push evict; one send goes to the catcher and the other
to any server. `Focus` of MCServices leaves out mixtures that add states and no
interference: views write nothing, so there is at most one at a time, of at most
one solve, and none during a delete, and only a delete is asked for by the admin; while the stream is
open no filter is resolved; the stream is never that of the admin's account.
Symmetry is over handlers, accounts and teams that no constant names, and instances; runs
with liveness use none.

Fairness. `SubmitFlag!FairSpec` is weak fairness of each handler's steps: tokio
polls a task whose store call has returned. Client hang-ups are excluded there
(`Faults = {}`), because a dropped future never announces anything.
`Instancer!FairSpec` is weak fairness of time and of the server's own steps,
restart and start-up scan included: a process supervisor is assumed, and so is
that a start-up calls `init_reaper_schedules`, as its name says it is meant to be
called; nothing in `src/` does yet. `RowsWatched` and `RowsReaped` rest on it: a
server that never calls it reaps no row that a crash has left. Nothing is assumed of
players or admins. `MailFairness` of Smtp is weak fairness of the steps of each
`send_email` and of each connection of the catcher, which are tokio tasks;
nothing is assumed of a relay, and `SendsEnd` and `MailEnds` do not speak of one. MCProgress
states both for the behaviours that play them. There the system may really stop,
when all e-mails are sent, so deadlock is not checked; everywhere else it is.

Abstractions. The submissions are append-only in SubmitFlag, Hints and Scoreboard.
The one thing that takes rows away is the delete of a challenge with
`delete_solves` (`repos/pg/challenges.rs:186`), which is modelled in
ChallengeAdmin alone. Properties that relate a row, a score or an answer to rows that
were there before assume that it does not happen meanwhile, because it takes the rows
they rest on: `RequirementsRespected`, `NeverUnderpaid`, `FirstBloodIsFirst`,
`ImplementsLedger`, `UnlocksEarned`, `OverspendBounded`, `ExportCovers` and
`FrozenBoardMoves`.

The settings of a challenge do not change while a submission runs. An account that is
missing when a request arrives is covered by `Abandon`, as is a CTFtime team whose name
is taken. The look-ups of titles and names for a broadcast are part of `Announce`.
Postgres statements are atomic. A submission of ChallengeAdmin is a player's to any
challenge once stores may fail, since a visibility that cannot be read is not checked
(`api/solve.rs:63-70`).

## What the models found

Findings with a run:

* A part of a Multi flag with an instanced validator is credited again when the
  instance is replaced, because the dedup compares the old row with the flag
  that is live now (`submit_respawn`).
* Of two overlapping joins one can be undone: the team update clears all
  members and writes back a list read before (`join_lost`).
* A renewed instance is destroyed at its original time (`renewal_cut`).
* A patch that hides, locks or caps a challenge is answered with the patched
  challenge and changes neither column (`patch_ignored`): the `UPDATE` at
  `repos/pg/challenges.rs:160` does not name them. Their values are bound all the
  same, as parameters 16 and 17, which the statement does not use.

The modules also define properties the code does not keep and for which no run
is listed yet; each is refuted by the instance of a run above with the property
put in: `Hints!ChargedOnce` (two overlapping unlocks of one hint both find
none and both charge, against `src/locales/en-US/openapi.ftl:35`; what holds is
`ChargesBounded`) and `NeverOverspent` (they pass the gate together, against
`types/config.rs:12`; what holds is `OverspendBounded`),
`SubmitFlag!CapKept` (two overlapping requests pass a cap, what holds is
`AttemptsBounded`; proved for one handler, as is `ChargedOnce`), `FirstBloodDrawn` (two solvers save before either counts),
`FirstBloodIsFirst` with the fault `store` (a failed read counts as an empty
table), `RateLimiter!WindowKept` (a request that waits for the lock is recorded
with an old time, what holds is `WindowBounded`), `Membership!CaptainExists` with
the fault `abandon` (the team is saved before its captain; it and `JoinedStays`
hold for one handler without failures) and
`Instancer!PodsWatched` (a pod whose service or row failed).

What the newer modules show the code to do, with no run of its own:

* A frozen board moves when members change teams: the cut is on submissions, and
  a consensus is over the members of now. `FrozenBoardMoves` says that nothing
  else moves it. The export is weaker still: its task statistics are not frozen
  at all (`Scoreboard!ExportFrozen` fails).
* When the first statement of a delete succeeds and the second fails, the
  challenge stays and its solves are gone.
* A list may show a solved challenge as locked: one whose prerequisites were patched
  since, or that is Locked. What `ListConsistent` says is that open and locked agree
  with the prerequisites the same list shows as solved.
* A submission that found its challenge before a delete saves its row after it, and
  the row counts for a new challenge of the same id, although the delete was to
  take its solves (`src/locales/en-US/openapi.ftl:50`). Of those that found it before
  the solves went, at most one for every other handler stays: that is
  `PurgedSolvesGone`. Between the two statements, which no transaction ties
  together, the challenge can still be found and solved: such rows (`gap`) stay
  too, and there can be any number of them. Without the exception `PurgedSolvesGone`
  fails in the instance of `services`, with one delete and two submissions.
* `services/hint.rs:79-80` says that the prerequisites of a hint mirror
  `submit_flag` and `get_challenge`. For an account without a team those two
  count whatever it solved, the hint only what it solved without a team.
* A stream keeps the team its viewer had when it was opened: who leaves a team
  goes on receiving its announcements.
* An upload whose row cannot be saved leaves its blob for good.
* A mail may be delivered and yet be reported as failed, when the connection
  breaks before the last reply. It is never delivered twice for one `send_email`.

`RowsWatched` and `RowsReaped` hold while the database does not fail: a destroy
whose `DELETE` fails leaves its row until the next start of the server.

## Proofs

Checked by TLAPS for all values of the constants that satisfy the named
assumptions of each module.

* **SubmitFlag** - `TypeCorrect`. The other invariants need a strengthening that
  says what a handler past a check still knows. `AttemptsAlwaysBounded`: for a
  submitter, the counted attempts plus the handlers that passed the cap and may
  still save stay within `limit + handlers - 1`; a handler that passes the check
  does so when the count is below the limit, and one more row adds at most one to
  any of the four counts (`AttemptsGrow`). Hence with one handler the cap is kept
  (`CapAlwaysKeptAlone`).
  `CreditsAlwaysBounded` is the same argument for the rows of one credit.
  `RequirementsAlwaysRespected`: prerequisites met once stay met, since rows are
  only ever appended (`RequirementsStayMet`). `LedgerImplemented` combines them:
  every `Save` is a `Record` of the ledger with `Overlap` the number of handlers,
  every other step a stutter.
  `HiddenAlwaysUntouched`: a handler past the check of visibility is of an admin or
  of a visible challenge. `FirstBloodAlwaysFirst`: the row of a handler that is
  about to announce is in the table, and when that handler finds one solver, its
  row is the earliest; rows are only appended, so it stays that. Both assume that
  the store does not fail, because the code lets a player pass whose challenge
  cannot be read (`api/solve.rs:63`), and takes a table that cannot be read for an
  empty one (`api/solve.rs:111`). `InstanceFlagsNeverShared`: the flags a handler
  matched by were once generated for an instance of its own submitter, who is
  fixed when the request arrives. `NeverUnderpaidAlways`: what a handler has
  counted so far is a part of the solvers the table holds (`AllPriced`), over as
  many calls as it takes and whichever of them fail, since the table only grows.
  `SolversAlwaysHeard`: a handler with a solve to announce does that next unless it
  is dropped (`AnnounceNext`), so a solver in the table has been announced or is
  about to be (`Heard`); and only solvers are (`AnnouncedAlwaysSolved`).
* **Membership** - `TypeCorrect` and `MembersAlwaysEntitled`. An update of a team
  clears its members and writes back a list read earlier, so the invariant
  (`Entitlements`) speaks of the locals too: every list a handler still has to
  write back, and every account it is about to bring in, is entitled to the
  team; no two teams come from one CTFtime team; what entitles is never taken
  back.
* **RateLimiter** - `LimiterTypeCorrect` and `WindowAlwaysBounded`. The invariant
  splits the admissions of a window into prompt ones, whose recorded time also
  lies in it, and late ones. A check never forgets an entry that is still within
  a window (`Held`), so the prompt ones are at most the limit (`Exact`); a
  handler's recorded times follow its admissions (`Ordered`), so there is at most
  one late admission per handler (`FewLate`).
* **Hints** - `ChargesAlwaysBounded`: the rows of one charge plus the handlers
  that found none and may still write one stay within the handlers, because a
  handler joins the second only while there is no row; with one handler no hint is
  charged twice (`ChargedOnceAlone`). `UnlocksAlwaysEarned`: a
  handler past `ReadSubmissions` keeps who and what was checked, and the table it
  was checked against only grows. `OverspendAlwaysBounded`: past the gate, the cost
  of one request was judged by what its team has spent now, and each of the others
  may add one hint more (`Room`); a score read from an old table still stands,
  because a steady score only rises (`ScoreGrows`). `TypeCorrect` includes that a
  score is a natural number: dynamic points never divide by zero. Both are about
  sums over finite sets, which are folds; the induction they need (`MinimalSet`:
  of subsets of a finite set, one contains no other) is the library's well-founded
  minimum, so that no operator has to be instantiated, and gives that a sum does
  not depend on the order in which it is taken (`TableTake`, `SumTake`, `SumLess`).
* **Scoring** - `DynamicLess` and `PartLess`: a challenge, or a part of it, is worth no
  more once more have solved it, with the rounding the code does to its floats
  (`RoundedMore`, `RoundedLess`: a rounded quotient follows its numerator and
  goes against its denominator). `ScoreLess`: who has scored in one table what it
  has scored in another, at no lower worth, has no fewer points there. `CostLess`:
  some of the unlocks cost no more than all. A table in these lemmas is any
  function with finitely many rows, so that they hold of a frozen table too.
* **Scoreboard** - `BoardTypeCorrect` and five more. `BoardsNeverFlatter`: from the read
  of the submissions on, the entry a request is about to compute is worth no more
  than the points it then noted (`Unmoved`), because the part of the table it holds
  is fixed and unlocks that land only cost more. `ExportsAlwaysCover`: for a task on
  the board there is a correct row of the team in the table, for good (`Covers`), and
  the statistics are taken from a later table. `BoardsAlwaysSort`: no entry has
  nothing in the denominator of its accuracy (`Sorted`), so that comparing cross
  products is comparing fractions (`Fractions`); a team without a solve comes after
  all others of its points. `AlwaysEarnedBySolving`: where a team has scored it is a
  solver already, so its own row makes no challenge decay that it has scored
  (`OwnScore`), and the row of another only adds solvers (`OthersScore`).
  `FrozenBoardsStay`: a row stamped at the freeze or after leaves the frozen tables
  as they were (`UnfrozenAppend`), and without team consensus nothing is computed
  from the members (`MembersAside`).
* **Files** - `FilesTypeCorrect` and `DownloadsAlwaysWhole`. The invariant adds that a
  row has its blob whole (`RowsWhole`), which holds because the row is saved after
  `store` has returned and a whole blob is never written again, and that a
  download past its first read has found the row (`DownloadsFound`).
* **ChallengeAdmin** - `AdminTypeCorrect`, `HintsAlwaysEarned`, `HiddenAlwaysKept`,
  `ListsAlwaysConsistent` and `PurgedSolvesAlwaysFew`. What a view holds after each
  read is related to the tables of that moment or is what an error makes of it
  (`ReadsRight`): unlocks that were there for a team the account had, a role only
  of an admin, ids hidden ever since. A late solve needs a running call that
  found its challenge before the solves went: the late rows of an id and the calls that
  can still add one, the delete not among them, are fewer than all calls
  (`FewLeft`). What counts as late is fixed by the first statement of the delete
  (`Outrun`), so that its second, or its failure, makes nothing late (`Ends`).
* **Notifications** - `NoticesTypeCorrect`, `NothingEverMissed` and `FilterAlwaysEarned`.
  What is sent is in the table (`SentSaved`), since the row is saved first. What a
  receiver has gone past was passed on or is a full buffer behind (`Streamed`);
  what was sent before it subscribed is in the list, or as many rows as are listed
  are as young (`Found`), because the list is read after the subscription. For a
  filter, the teams read first are ones the accounts have been in (`TeamsRead`),
  so a solve by such a team earns it.
* **Smtp** - `MailTypeCorrect`, `AlwaysDelivered` and `CredentialsAlwaysSecured`. The invariant
  (`Talks`) says how far the two ends of a connection to the catcher can be apart: a
  command and its answer are never both on the way, so no command meets a session
  it was not meant for; while a message is read, what the server has and what is on
  its way make up the message (`Reading`), whose dots are undone line by line
  (`StuffingUndone`) and of which only the last line is a dot (`MessageLines`); the
  mail is in the mailbox once the answer to its dot is on its way, and not
  before. A mailbox that has let a mail go is full (`LeaveFull`). For credentials
  the server does not matter: who has some was refused without STARTTLS, and after
  the greeting authenticates only on an upgraded stream (`Sealed`). `NeverWaitsInVain`:
  while a call waits there is a reply for it, a line for the server or the end of
  the connection (`Stirred`), since what a step of the client sends is not nothing
  (`GoingSends`) and the catcher takes a line only to answer it or inside a message
  whose dot is still to come.
* **Instancer** - `TypeCorrect`, `RowsAlwaysWatched` (under the assumptions that
  the database does not fail and that a start-up calls `init_reaper_schedules`) and `AlwaysServedWhileLive`: nothing destroys an
  instance before its row has expired or gone, because every timer and destroy
  of a never renewed one is due no earlier than its row.

* **Services** - `ServicesTypeCorrect`, the three type invariants in one.

Only model-checked: the liveness properties `SolvesAnnounced`, `RowsReaped` and
`MailEnds`, which are out of the prover's reach. Of each the safety half is proved:
who is not announced yet has a handler about to do it (`SolversAlwaysHeard`), a row
has a timer or a destroy of its own while the server is up (`RowsAlwaysWatched`), and
a waiting call has something to wait for (`NeverWaitsInVain`); that a handler, a timer or a task goes on
is what fairness adds. One invariant of the runs is a name for what a theorem
states of any constants: `BoxFlagsNotShared` is `InstanceFlagsNotShared` for the
second instance of SubmitFlag.

## Not modelled

* `services/files.rs:delete`, which has no caller, and the check of an id's form.
* Of e-mail: the verbs of other clients (`RSET`, `VRFY`, `NOOP`), several mails over
  one connection, size limits, multi-line replies, address and header parsing,
  and the pages of the HTTP catcher, which only read the mailbox.
* Of challenge views: everything but the entry, its lock, its solved mark and the
  text of its hints; of filters over recipients, all but the solved set.
* Authentication and `crypto/jwt.rs`: pure functions of a library's cryptography.
* Configuration: one row that `main` reads once; what a setting changes is a
  constant of the module it matters to.
* Persistence as a part of its own: each table is a variable of the module that
  uses it, a statement is atomic, unique and foreign keys are guards.
* The proxy, the router, OpenAPI, locales and start-up: wiring and text.
* Text in general: flag rendering, script evaluation, HTTP status codes.

## Plan

All components with behaviour over time are modelled, and the safety properties of
all of them are proved, with the safety half of each liveness property. What is left:
the refinement of an abstract board by the one that is read call by call, and runs
for the refuted properties above.
