------------------------------- MODULE MCHints -------------------------------
\* Small instances of Hints for TLC.
EXTENDS Hints, TLC

CONSTANTS h1, h2, a1, a2, t1, good, good2

Static(fs) == [live |-> FALSE, accepts |-> fs]

Plain ==
  [visible |-> TRUE, multi |-> FALSE, parts |-> <<Static({good})>>,
   consensus |-> FALSE, limit |-> NoLimit, mode |-> "All", requires |-> {}]

\* A challenge of two parts with a hint, which unlocks another with a hint.
MCConfig ==
  "first" :> [Plain EXCEPT !.multi = TRUE, !.parts = <<Static({good}), Static({good2})>>] @@
  "second" :> [Plain EXCEPT !.requires = {"first"}]

\* 5 points worth 2 and 3 as parts, the halves rounded up, and nothing.
MCPoints ==
  "first" :> [initial |-> 5, minimum |-> 5, decay |-> 1] @@
  "second" :> [initial |-> 0, minimum |-> 0, decay |-> 1]

MCWeights == "first" :> <<30, 60>> @@ "second" :> <<100>>

\* A fixed cost and a scripted one.
MCCosts == "first" :> <<{2}>> @@ "second" :> <<{0, 1}>>

Sym == {h @@ a : h \in Permutations(Handlers), a \in Permutations(Accounts)}
=============================================================================
