------------------------------- MODULE MCBoard -------------------------------
\* The instancer and the scoreboard, side by side: they share nothing, and a
\* behaviour plays one of them.
EXTENDS MCInstancer, Scoreboard

CONSTANTS a1, a2, t1, t2, good

VARIABLE played

\* A team-consensus challenge and a plain one; both decay.
Plain ==
  [visible |-> TRUE, multi |-> FALSE, parts |-> <<[live |-> FALSE, accepts |-> {good}]>>,
   consensus |-> FALSE, limit |-> NoLimit, mode |-> "All", requires |-> {}]

BoardConfig ==
  "pact" :> [Plain EXCEPT !.consensus = TRUE] @@
  "race" :> Plain

BoardPoints == [c \in Challenges |-> [initial |-> 6, minimum |-> 1, decay |-> 1]]
BoardWeights == [c \in Challenges |-> <<100>>]
BoardBrackets == {{t1}, {t2}}

MCInit ==
  /\ Init /\ BoardInit
  /\ \/ played = "instances" /\ \A a \in Accounts : team_of[a] = NoTeam
     \/ played = "board"

MCNext ==
  \/ played = "instances" /\ Next /\ UNCHANGED <<played, board_vars>>
  \/ played = "board" /\ BoardNext /\ UNCHANGED <<played, vars>>

MCSpec == MCInit /\ [][MCNext]_<<played, vars, board_vars>>

MCSym ==
  {i @@ a @@ t : i \in Permutations(Instances), a \in Permutations(Accounts),
                 t \in Permutations(Teams)}
=============================================================================
