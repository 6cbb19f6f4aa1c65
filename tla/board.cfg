CONSTANTS
  i1 = i1
  i2 = i2
  c1 = c1
  a1 = a1
  a2 = a2
  t1 = t1
  t2 = t2
  good = good
  NoTeam = NoTeam
  NoFlag = NoFlag
  NoLimit = NoLimit
  Never = Never
  Instances = {i1, i2}
  Instanced = {c1}
  ChallengeOf <- MCChallengeOf
  Lifespan = 1
  Durations = {2}
  Faults = {"kube", "db", "crash"}
  MaxCrashes = 1
  Accounts = {a1, a2}
  Teams = {t1, t2}
  Challenges = {"pact", "race"}
  Flags = {good}
  Config <- BoardConfig
  Points <- BoardPoints
  Weights <- BoardWeights
  Deduction = "AllowNegative"
  Brackets <- BoardBrackets
  Freeze = 1
  ByAccuracy = FALSE
  HintCost = 2
  Lateness = 1
  MaxTime = 1
  MaxSubmissions = 2
  MaxUnlocks = 1
SYMMETRY MCSym
SPECIFICATION MCSpec
INVARIANTS
  TypeOK
  ServedWhileLive
  BoardTypeOK
  NeverFlattered
  ExportCovers
  BoardSortable
PROPERTIES
  FrozenBoardMoves
  EarnedBySolving
