----------------------------- MODULE MCInstancer -----------------------------
\* Small instances of Instancer for TLC.
EXTENDS Instancer, TLC

CONSTANTS i1, i2, c1

\* All instances belong to one challenge.
MCChallengeOf == [i \in Instances |-> c1]

\* The scan of a start-up is over before the first spawn, so that it sets no timer
\* for what is spawned.
ScannedFirst == boot = "up" \/ \A i \in Instances : spawn[i] = "unused"

Sym == Permutations(Instances)
=============================================================================
