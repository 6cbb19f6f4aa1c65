CONSTANTS
  h1 = h1
  h2 = h2
  a0 = a0
  a1 = a1
  a2 = a2
  t0 = t0
  t1 = t1
  u0 = u0
  u1 = u1
  u2 = u2
  o0 = o0
  o1 = o1
  n = n
  NoTeam = NoTeam
  NoUser = NoUser
  NoOrigin = NoOrigin
  NoRequest = NoRequest
  Handlers = {h1, h2}
  Accounts = {a0, a1, a2}
  Teams = {t0, t1}
  Users = {u0, u1, u2}
  Origins = {o0, o1}
  BaseNames = {n}
  MaxSuffix = 2
  Origin <- MCOrigin
  NameOf <- MCNameOf
  Barred = {}
  Founder = a0
  Faults = {}
SYMMETRY Sym
SPECIFICATION Spec
INVARIANTS
  JoinedStays
