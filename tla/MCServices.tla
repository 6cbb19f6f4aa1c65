----------------------------- MODULE MCServices -----------------------------
\* The rate limiter, the administration of challenges, the notifications and the
\* files, side by side: they share nothing, and a behaviour plays one of them.
EXTENDS MCRateLimiter, Services

CONSTANTS a0, a1, t1, n1, n2, browser, f1, f2, d1, d2

VARIABLE played

\* What the components have but the team of an account, which two of them read.
admin_own == <<challenges, submissions, unlocks, pc, call, answer, purges, writes>>
notice_own == <<now, was, solves, request, table, sent, client>>

-----------------------------------------------------------------------------
Plain == [visibility |-> "Visible", reveals |-> FALSE, limit |-> 0, requires |-> {}]

AdminForms ==
  {Plain, [Plain EXCEPT !.requires = {"first"}], [Plain EXCEPT !.visibility = "Hidden"],
   [Plain EXCEPT !.visibility = "Locked", !.reveals = TRUE]}

\* There is a challenge from the start, and nobody is in a team yet.
AdminStart ==
  /\ challenges = [Empty EXCEPT !["first"] = Plain]
  /\ submissions = {} /\ unlocks = {}
  /\ team_of = [a \in Accounts |-> NoTeam]
  /\ pc = [h \in Calls |-> "idle"] /\ call = [h \in Calls |-> NoCall]
  /\ answer = NoAnswer /\ purges = [i \in Ids |-> 0] /\ writes = 0

\* Views write nothing: one of the player at a time, of at most one solve, and
\* none during a delete.
AdminFocus ==
  LET busy == {h \in Calls : call[h] # NoCall}
      views == {h \in busy : call[h].kind \in {"list", "get"}}
  IN  /\ Cardinality(views) <= 1
      /\ views # {} => Cardinality(submissions) <= 1
      /\ \A h \in busy :
           /\ call[h].kind \notin {"delete", "purge"} => call[h].account = a1
           /\ views # {} => call[h].kind \notin {"delete", "purge"}
-----------------------------------------------------------------------------
MCTargets == {[kind |-> "Teams", ids |-> {t1}], [kind |-> "Filter"]}

\* Either a filter is resolved or a stream is open, of any viewer but a0.
NoticesFocus ==
  /\ \/ client[browser].step = "open"
     \/ solves = {} /\ \A n \in {n1, n2} : request[n].step \notin {"accounts", "solves"}
  /\ client[browser].step # "open" => client[browser].stream.account # a0
-----------------------------------------------------------------------------
\* NoticesInit, with nobody in a team.
MCInit == Init /\ AdminStart /\ NoticesInit /\ FilesInit
          /\ played \in {"limiter", "admin", "notices", "files"}

MCNext ==
  \/ /\ played = "limiter" /\ Next
     /\ UNCHANGED <<played, team_of, admin_own, notice_own, file_vars>>
  \/ /\ played = "admin" /\ AdminNext
     /\ UNCHANGED <<played, vars, notice_own, file_vars>>
  \/ /\ played = "notices" /\ NoticesNext
     /\ UNCHANGED <<played, vars, admin_own, file_vars>>
  \/ /\ played = "files" /\ FilesNext
     /\ UNCHANGED <<played, vars, team_of, admin_own, notice_own>>

MCSpec == MCInit /\ [][MCNext]_<<played, vars, team_of, admin_own, notice_own, file_vars>>

Focus == AdminFocus /\ NoticesFocus

MCSym == {h @@ n : h \in Permutations(Handlers), n \in Permutations({n1, n2})}
=============================================================================
