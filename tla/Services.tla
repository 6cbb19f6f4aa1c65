------------------------------- MODULE Services -------------------------------
(***************************************************************************)
(* The administration of challenges, the notifications and the files, as    *)
(* one server runs them: each by its own handlers, over tables of its own   *)
(* but for the team of an account, which two of them read.                  *)
(***************************************************************************)
EXTENDS ChallengeAdmin, Notifications, Files

ServicesSpec == AdminSpec /\ NoticesSpec /\ FilesSpec

\* api/challenges.rs, services/notifications.rs and services/files.rs: each keeps its
\* types, and the locals of a handler fit the step it is at.
ServicesTypeOK == AdminTypeOK /\ NoticesTypeOK /\ FilesTypeOK
=============================================================================
