-------------------------- MODULE SubmissionLedger --------------------------
(***************************************************************************)
(* What flag submission promises of the submissions table, with the whole   *)
(* of a submission as one step. Overlap is the number of submissions that   *)
(* may run at once: with Overlap = 1 caps and credits are exact, and each   *)
(* further request that overlaps may add one row past them.                 *)
(***************************************************************************)
EXTENDS Submissions

CONSTANT Overlap

VARIABLE submissions

Init == submissions = <<>>

\* A row is added only for a submitter who meets the requirements, is within
\* the cap, and when correct has not been credited yet, up to the overlap.
Record(s) ==
  LET c == Config[s.challenge]
  IN  /\ RequirementsMet(submissions, s.challenge, s.team, s.account)
      /\ c.limit # NoLimit =>
           Attempts(c.mode, submissions, RowsOf(submissions, s.challenge, s.team, s.account)) + 1
             < c.limit + Overlap
      /\ \A p \in {0} \cup DOMAIN c.parts :
           Stable(s.challenge) /\ SameCredit(s, s.challenge, s.team, s.account, p) =>
             Cardinality(CreditRows(submissions, s.challenge, s.team, s.account, p)) < Overlap
      /\ submissions' = Append(submissions, s)

\* The row recorded is the table's new last one.
Next ==
  /\ Len(submissions') = Len(submissions) + 1
  /\ \E s \in {submissions'[Len(submissions')]} \cap Submission : Record(s)

Spec == Init /\ [][Next]_submissions
=============================================================================
