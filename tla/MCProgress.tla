----------------------------- MODULE MCProgress -----------------------------
\* The instancer and the mail, side by side: they share nothing, and a behaviour
\* plays one of them. Both must come to an end of what they have begun.
EXTENDS MCInstancer, Smtp

CONSTANTS s1, s2

VARIABLE played

\* All but credentials for the catcher, which takes none.
Setups ==
  {s \in Config :
     (s.server = "catcher" => ~s.credentials) /\ (s.starttls => s.server = "catcher" \/ s.credentials)}

\* A text of one dot, and one with an empty line.
Texts == [c \in Sends |-> IF c = s1 THEN <<<<".">>>> ELSE <<<<"x">>, <<>>>>]

MCInit ==
  /\ Init /\ MailInit
  /\ played \in {"instances", "mail"}
  /\ config[s2].server = "catcher"

MCNext ==
  \/ played = "instances" /\ Next /\ UNCHANGED <<played, mail_vars>>
  \/ played = "mail" /\ MailNext /\ UNCHANGED <<played, vars>>

\* The fairness of each for the behaviours that play it.
MCSpec ==
  /\ MCInit /\ [][MCNext]_<<played, vars, mail_vars>>
  /\ WF_vars(played = "instances" /\ Tick) /\ WF_vars(played = "instances" /\ Progress)
  /\ \A c \in Sends : /\ WF_mail_vars(played = "mail" /\ Client(c))
                      /\ WF_mail_vars(played = "mail" /\ Catcher(c))

\* services/email/client.rs:289-372: SendsEnd, for the behaviours that play the
\* mail: no call has a timeout, and yet every send_email to the catcher ends.
MailEnds == played = "mail" => SendsEnd
=============================================================================
