------------------------------- MODULE Players -------------------------------
(***************************************************************************)
(* Accounts and the team each is in, as the challenge views and the         *)
(* notifications see them: a column that changes between two reads of one   *)
(* request, read by calls whose errors are swallowed. Who may change it is  *)
(* a matter of Membership.                                                  *)
(***************************************************************************)
CONSTANTS
  Accounts, Teams, NoTeam,
  Faults  \* "store": a call of the database may fail, or the handler be dropped

ASSUME PlayersAssumption == NoTeam \notin Teams /\ Faults \subseteq {"store"}

VARIABLE team_of  \* the accounts' team_id column

\* A read, or what unwrap_or_default makes of its error.
OrDefault(value, default) == {value} \cup (IF "store" \in Faults THEN {default} ELSE {})
=============================================================================
