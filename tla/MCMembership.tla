----------------------------- MODULE MCMembership -----------------------------
\* Small instances of Membership for TLC.
EXTENDS Membership, TLC

CONSTANTS h1, h2, a0, a1, a2, t0, t1, u0, u1, u2, o0, o1, n

\* u0 and u1 are in one CTFtime team, u2 in another, all under one username.
MCOrigin == [u \in Users |-> IF u = u2 THEN o1 ELSE o0]

MCNameOf == [u \in Users |-> n]

Sym == Permutations(Handlers) \cup Permutations((Accounts \ {Founder}) \ Barred)
       \cup Permutations(Barred \ {Founder}) \cup Permutations(Teams)
=============================================================================
