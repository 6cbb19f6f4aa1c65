---------------------------- MODULE MCSubmitFlag ----------------------------
\* Small instances of SubmitFlag for TLC.
EXTENDS SubmitFlag, TLC

CONSTANTS h1, h2, a1, a2, t1, t2, good, good2, bad, bad2, i1, i2

\* A validator accepting exactly the given flags, and an instanced one.
Static(fs) == [live |-> FALSE, accepts |-> fs]
Live == [live |-> TRUE, accepts |-> {}]

Plain ==
  [visible |-> TRUE, multi |-> FALSE, parts |-> <<Static({good})>>,
   consensus |-> FALSE, limit |-> NoLimit, mode |-> "All", requires |-> {}]

FirstConfig == "first" :> Plain

\* A challenge whose cap counts distinct flags, and one it unlocks whose cap
\* counts distinct incorrect flags.
RulesConfig ==
  "first" :> [Plain EXCEPT !.limit = 1, !.mode = "Unique"] @@
  "second" :> [Plain EXCEPT !.limit = 1, !.mode = "UniqueIncorrect", !.requires = {"first"}]

\* A team-consensus challenge, and a hidden one of two parts, the first of
\* which also accepts the second's flag.
PartsConfig ==
  "pact" :> [Plain EXCEPT !.consensus = TRUE] @@
  "multi" :> [Plain EXCEPT !.multi = TRUE, !.visible = FALSE,
                           !.parts = <<Static({good}), Static({good, good2})>>]

BoxConfig == "box" :> [Plain EXCEPT !.parts = <<Live>>]

\* A Multi flag with an instanced part.
MixedConfig == "mixed" :> [Plain EXCEPT !.multi = TRUE, !.parts = <<Static({good}), Live>>]

Sym == Permutations(Handlers)
=============================================================================
