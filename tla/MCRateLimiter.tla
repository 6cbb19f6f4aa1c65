---------------------------- MODULE MCRateLimiter ----------------------------
\* Small instances of RateLimiter for TLC.
EXTENDS RateLimiter, TLC

CONSTANTS h1, h2, ip, acc

\* A submission is checked for its IP and its account.
Submission == <<ip, acc>>

Submitting == {Submission}

MCLimit == [k \in Keys |-> IF k = ip THEN 2 ELSE 1]

Sym == Permutations(Handlers)
=============================================================================
