--------------------------- MODULE MCSubmitCredits ---------------------------
\* Two instances of SubmitFlag side by side: the one of MCSubmitFlag with
\* Config = PartsConfig, and one with an instanced challenge. They share
\* nothing, and a behaviour plays one of them.
EXTENDS MCSubmitFlag

CONSTANT h0  \* the handler of the instanced challenge

VARIABLES
  played,
  box_submissions, box_team_of, box_instances, box_spawned, box_pc, box_req, box_announced

box_vars == <<box_submissions, box_team_of, box_instances, box_spawned, box_pc, box_req,
              box_announced>>

Box ==
  INSTANCE SubmitFlag WITH
    Handlers <- {h0}, Admins <- {}, Teams <- {t1, t2}, Challenges <- {"box"},
    Flags <- {i1, i2}, InstanceFlags <- {i1, i2}, Config <- BoxConfig,
    Faults <- {"abandon"}, MaxSubmissions <- 1,
    submissions <- box_submissions, team_of <- box_team_of, instances <- box_instances,
    spawned <- box_spawned, pc <- box_pc, req <- box_req, announced <- box_announced

MCInit ==
  /\ Init /\ Box!Init
  /\ \/ played = "parts" /\ \A a \in Accounts : box_team_of[a] = NoTeam
     \/ played = "box" /\ \A a \in Accounts : team_of[a] = NoTeam

MCNext ==
  \/ played = "parts" /\ Next /\ UNCHANGED <<played, box_vars>>
  \/ played = "box" /\ Box!Next /\ UNCHANGED <<played, vars>>

MCSpec == MCInit /\ [][MCNext]_<<played, vars, box_vars>>

\* InstanceFlagsNotShared of the instanced challenge (repos/pg/challenges.rs:6-32).
BoxFlagsNotShared == Box!InstanceFlagsNotShared
=============================================================================
