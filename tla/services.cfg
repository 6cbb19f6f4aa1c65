CONSTANTS
  h1 = h1
  h2 = h2
  ip = ip
  acc = acc
  a0 = a0
  a1 = a1
  t1 = t1
  n1 = n1
  n2 = n2
  browser = browser
  f1 = f1
  f2 = f2
  d1 = d1
  d2 = d2
  NoAccount = NoAccount
  NoTeam = NoTeam
  NoRequest = NoRequest
  NoCall = NoCall
  NoChallenge = NoChallenge
  NoAnswer = NoAnswer
  NoViewer = NoViewer
  NoFile = NoFile
  Handlers = {h1, h2}
  Keys = {ip, acc}
  Routes <- Submitting
  Limit <- MCLimit
  Window = 2
  MaxTime = 3
  Calls = {h1, h2}
  Accounts = {a0, a1}
  Teams = {t1}
  Admins = {a0}
  Ids = {"first", "second"}
  Forms <- AdminForms
  Faults = {"store"}
  MaxSubmissions = 2
  MaxWrites = 3
  Uploads = {f1, f2}
  Downloads = {d1, d2}
  Backend = "local"
  StorageFaults = {"io"}
  Targets <- MCTargets
  RequireAuth = FALSE
  Buffer = 1
  Listed = 1
  Announcements = {n1, n2}
  Clients = {browser}
  LastSecond = 1
  MaxSent = 1
  MaxSolves = 1
SYMMETRY MCSym
SPECIFICATION MCSpec
CONSTRAINT Focus
INVARIANTS
  TypeOK
  WindowBounded
  ServicesTypeOK
  ListConsistent
  HintsEarned
  HiddenKept
  PurgedSolvesGone
  NothingMissed
  FilterEarned
  DownloadsWhole
