-------------------------------- MODULE Smtp ---------------------------------
(***************************************************************************)
(* Sending mail: SmtpSenderClient::send_email, a connection, and at its     *)
(* other end the SMTP catcher of this repository or a relay of somebody     *)
(* else, which may answer anything or nothing. The catcher's mailbox may be *)
(* shared with the HTTP catcher (HttpCatcher::with_mailbox), which trims it.*)
(* What a send_email sends, two lines apart, is a sequence of lines; a line *)
(* is a sequence of characters.                                             *)
(***************************************************************************)
EXTENDS Naturals, Sequences, FiniteSets

CONSTANTS
  Sends,        \* calls of send_email; each has a connection of its own
  Configs,      \* how a sender may be built, and what it connects to
  Letters,      \* what lines are made of
  Body,         \* the lines of the text of each send
  MaxMailbox,   \* MAX_MAILBOX
  Breaks,       \* "cut": a connection may break, or the caller drop the call
  MaxInbound,   \* bound: mails the HTTP catcher is handed
  NoMail

Config == [server : {"catcher", "relay"}, starttls : BOOLEAN, credentials : BOOLEAN]

ASSUME SmtpAssumption ==
  /\ Configs \subseteq Config
  /\ Body \in [Sends -> Seq(Seq(Letters))]
  /\ "." \notin Sends
  /\ NoMail \notin Sends /\ NoMail \notin {[from |-> c, body |-> Body[c]] : c \in Sends}
  /\ Breaks \subseteq {"cut"}
  /\ MaxMailbox \in Nat \ {0}

VARIABLES
  config,   \* the configuration of each send
  sender,   \* the reply each send_email waits for, or how it ended
  secure,   \* whether the stream has been upgraded
  up,       \* lines on their way to the server
  down,     \* replies on their way to the client
  server,   \* the locals of each handle_connection
  mailbox,
  evicted   \* history: what the HTTP catcher drained from the mailbox

mail_vars == <<config, sender, secure, up, down, server, mailbox, evicted>>

\* The code each reply must have for send_email to go on.
Expected ==
  [greeting |-> 220, EHLO |-> 250, STARTTLS |-> 220, AUTH |-> 334, user |-> 334,
   password |-> 235, MAIL |-> 250, RCPT |-> 250, DATA |-> 354, message |-> 250, QUIT |-> 221]

Ends == {"ok", "failed", "dropped"}

NoSession == [step |-> "commands", from |-> NoMail, rcpts |-> 0, data |-> <<>>]

MailInit ==
  /\ config \in [Sends -> Configs]
  /\ sender = [c \in Sends |-> "new"]
  /\ secure = [c \in Sends |-> FALSE]
  /\ up = [c \in Sends |-> <<>>] /\ down = [c \in Sends |-> <<>>]
  /\ server = [c \in Sends |-> [NoSession EXCEPT !.step = "none"]]
  /\ mailbox = <<>> /\ evicted = <<>>
-----------------------------------------------------------------------------
M_Stuffed(line) == line

\* build_message doubles a dot at the start of a line, read_data takes it off.
Stuffed(line) == IF line # <<>> /\ Head(line) = "." THEN <<".">> \o line ELSE line

Unstuffed(line) == IF line # <<>> /\ Head(line) = "." THEN Tail(line) ELSE line

M_Message(c) ==
  <<<<c>>, <<>>>> \o [k \in DOMAIN Body[c] |-> Stuffed(Body[c][k])]

\* The headers, which name the sender, an empty line, the text, and a dot.
Message(c) ==
  <<<<c>>, <<>>>> \o [k \in DOMAIN Body[c] |-> Stuffed(Body[c][k])] \o <<<<".">>>>

\* parse_email: the headers end at the first empty line.
Mail(data) ==
  LET blank == CHOOSE k \in DOMAIN data : data[k] = <<>> /\ \A j \in 1..(k - 1) : data[j] # <<>>
  IN  [from |-> data[1][1], body |-> SubSeq(data, blank + 1, Len(data))]

Then ==
  [greeting |-> "EHLO", STARTTLS |-> "EHLO", AUTH |-> "user", user |-> "password",
   password |-> "MAIL", MAIL |-> "RCPT", RCPT |-> "DATA", DATA |-> "message",
   message |-> "QUIT", QUIT |-> "ok"]

M_AfterEhlo(c, offers) ==
  LET upgrade == "STARTTLS" \in offers /\ ~secure[c]
      needed == IF upgrade THEN "STARTTLS" ELSE "AUTH"
  IN  IF ~upgrade /\ ~config[c].credentials THEN "MAIL"
      ELSE IF needed \in offers THEN needed ELSE "failed"

\* After EHLO it depends on what is configured and what is offered.
AfterEhlo(c, offers) ==
  LET upgrade == config[c].starttls /\ ~secure[c]
      needed == IF upgrade THEN "STARTTLS" ELSE "AUTH"
  IN  IF ~upgrade /\ ~config[c].credentials THEN "MAIL"
      ELSE IF needed \in offers THEN needed ELSE "failed"

Following(c, offers) == IF sender[c] = "EHLO" THEN AfterEhlo(c, offers) ELSE Then[sender[c]]

Lines(c, step, tls) ==
  IF step = "message" THEN [k \in DOMAIN Message(c) |-> [text |-> Message(c)[k]]]
  ELSE <<[verb |-> step, secure |-> tls]>>

\* Nothing is sent when the call ends; the connection is closed.
GoOn(c, step, tls) ==
  /\ sender' = [sender EXCEPT ![c] = step]
  /\ secure' = [secure EXCEPT ![c] = tls]
  /\ up' = IF step \in Ends THEN up ELSE [up EXCEPT ![c] = @ \o Lines(c, step, tls)]

M_Refused(c) == FALSE

\* AuthRequiresTls.
Refused(c) == config[c].credentials /\ ~config[c].starttls

Connect(c) ==
  /\ sender[c] = "new"
  /\ \/ /\ Refused(c) \/ "cut" \in Breaks
        /\ sender' = [sender EXCEPT ![c] = "failed"]
        /\ UNCHANGED <<server, down>>
     \/ /\ ~Refused(c)
        /\ sender' = [sender EXCEPT ![c] = "greeting"]
        /\ server' = [server EXCEPT ![c] = NoSession]
        /\ down' = [down EXCEPT ![c] = <<[code |-> 220, offers |-> {}]>>]
  /\ UNCHANGED <<config, secure, up, mailbox, evicted>>

Waiting(c) == sender[c] \in DOMAIN Expected

\* A reply is read. The answer to QUIT is not looked at; the handshake that
\* follows STARTTLS may fail.
Reply(c) ==
  /\ Waiting(c) /\ down[c] # <<>>
  /\ LET r == Head(down[c])
         good == r.code = Expected[sender[c]] \/ sender[c] = "QUIT"
     IN  \/ /\ ~good \/ sender[c] = "STARTTLS"
            /\ GoOn(c, "failed", secure[c])
         \/ /\ good
            /\ GoOn(c, Following(c, r.offers), secure[c] \/ sender[c] = "STARTTLS")
  /\ down' = [down EXCEPT ![c] = Tail(@)]
  /\ UNCHANGED <<config, server, mailbox, evicted>>

\* The connection has ended: an error, but for the answer to QUIT.
Eof(c) ==
  /\ Waiting(c) /\ down[c] = <<>> /\ server[c].step = "closed"
  /\ GoOn(c, IF sender[c] = "QUIT" THEN "ok" ELSE "failed", secure[c])
  /\ UNCHANGED <<config, down, server, mailbox, evicted>>

\* The future is dropped; some of what it wrote may be lost.
Drop(c) ==
  /\ "cut" \in Breaks
  /\ Waiting(c)
  /\ sender' = [sender EXCEPT ![c] = "dropped"]
  /\ \E n \in {0, Len(up[c])} : up' = [up EXCEPT ![c] = SubSeq(@, 1, n)]
  /\ UNCHANGED <<config, secure, down, server, mailbox, evicted>>
-----------------------------------------------------------------------------
Serving(c, kind) == config[c].server = kind /\ server[c].step \notin {"none", "closed"}

\* The code the catcher answers a command with.
Answer(session, verb) ==
  CASE verb \in {"EHLO", "MAIL", "RCPT"} -> 250
    [] verb = "DATA" -> IF session.from = NoMail \/ session.rcpts = 0 THEN 503 ELSE 354
    [] verb = "QUIT" -> 221
    [] OTHER -> 502

\* What a command does to the session.
After(session, verb, c) ==
  CASE verb = "MAIL" -> [session EXCEPT !.from = c, !.rcpts = 0]
    [] verb = "RCPT" -> [session EXCEPT !.rcpts = @ + 1]
    [] verb = "DATA" /\ Answer(session, verb) = 354 -> [session EXCEPT !.step = "data"]
    [] verb = "QUIT" -> [session EXCEPT !.step = "closed"]
    [] OTHER -> session

Command(c) ==
  /\ Serving(c, "catcher") /\ server[c].step = "commands"
  /\ up[c] # <<>>
  /\ LET verb == Head(up[c]).verb
     IN  /\ server' = [server EXCEPT ![c] = After(@, verb, c)]
         /\ down' = [down EXCEPT ![c] = Append(@, [code |-> Answer(server[c], verb), offers |-> {}])]
  /\ up' = [up EXCEPT ![c] = Tail(@)]
  /\ UNCHANGED <<config, sender, secure, mailbox, evicted>>

\* read_data, and at the dot the mail is put in the mailbox and then answered.
Data(c) ==
  /\ Serving(c, "catcher") /\ server[c].step = "data"
  /\ up[c] # <<>>
  /\ LET line == Head(up[c]).text
     IN  IF line = <<".">>
         THEN /\ mailbox' = Append(mailbox, Mail(server[c].data))
              /\ server' = [server EXCEPT ![c] = NoSession]
              /\ down' = [down EXCEPT ![c] = Append(@, [code |-> 250, offers |-> {}])]
         ELSE /\ server' = [server EXCEPT ![c].data = Append(@, Unstuffed(line))]
              /\ UNCHANGED <<mailbox, down>>
  /\ up' = [up EXCEPT ![c] = Tail(@)]
  /\ UNCHANGED <<config, sender, secure, evicted>>

\* The client has gone, with or without having said QUIT; a message that was
\* not read to its dot is thrown away.
Hangup(c) ==
  /\ Serving(c, "catcher")
  /\ sender[c] \in Ends /\ up[c] = <<>>
  /\ server' = [server EXCEPT ![c].step = "closed"]
  /\ UNCHANGED <<config, sender, secure, up, down, mailbox, evicted>>

\* A relay reads all there is and answers as it likes, and not before a message
\* is complete.
Relay(c) ==
  /\ Serving(c, "relay")
  /\ up[c] # <<>> /\ Waiting(c)
  /\ \E code \in {Expected[sender[c]], 500}, offers \in SUBSET {"STARTTLS", "AUTH"} :
       down' = [down EXCEPT ![c] = Append(@, [code |-> code, offers |-> offers])]
  /\ up' = [up EXCEPT ![c] = <<>>]
  /\ UNCHANGED <<config, sender, secure, server, mailbox, evicted>>

\* The connection breaks.
Cut(c) ==
  /\ "cut" \in Breaks
  /\ server[c].step \in {"commands", "data"}
  /\ server' = [server EXCEPT ![c].step = "closed"]
  /\ down' \in {down, [down EXCEPT ![c] = <<>>]}
  /\ up' = [up EXCEPT ![c] = <<>>]
  /\ UNCHANGED <<config, sender, secure, mailbox, evicted>>

M_Trimmed(mails) == SubSeq(mails, 1, MaxMailbox)

\* drain(0..excess).
Trimmed(mails) == IF Len(mails) <= MaxMailbox THEN mails
                  ELSE SubSeq(mails, Len(mails) - MaxMailbox + 1, Len(mails))

\* The HTTP catcher is handed a mail by one who knows the secret.
Inbound ==
  LET all == Append(mailbox, NoMail)
  IN  /\ Len(SelectSeq(mailbox \o evicted, LAMBDA m : m = NoMail)) < MaxInbound
      /\ mailbox' = Trimmed(all)
      /\ evicted' = evicted \o SubSeq(all, 1, Len(all) - Len(mailbox'))
      /\ UNCHANGED <<config, sender, secure, up, down, server>>

Client(c) == Connect(c) \/ Reply(c) \/ Eof(c)
Catcher(c) == Command(c) \/ Data(c) \/ Hangup(c)

MailNext ==
  \/ \E c \in Sends : Client(c) \/ Catcher(c) \/ Relay(c) \/ Drop(c) \/ Cut(c)
  \/ Inbound

MailSpec == MailInit /\ [][MailNext]_mail_vars

\* tokio runs each task that can go on; a relay owes nothing.
MailFairness == \A c \in Sends : WF_mail_vars(Client(c)) /\ WF_mail_vars(Catcher(c))
-----------------------------------------------------------------------------
MailTypeOK ==
  /\ sender \in [Sends -> DOMAIN Expected \cup Ends \cup {"new"}]
  /\ secure \in [Sends -> BOOLEAN]
  /\ \A c \in Sends :
       /\ secure[c] => config[c].starttls
       /\ server[c].step \in {"none", "commands", "data", "closed"}
       /\ server[c].step = "data" => server[c].from # NoMail

Sent(c) == [from |-> c, body |-> Body[c]]

\* services/email/server.rs:159-201: connections are served at the same time and
\* mails leave the mailbox from its old end. A mail that send_email reports as
\* sent is in the catcher's mailbox once, line by line what was sent, or as many
\* as it holds came after it; one that it reports as failed is there at most
\* once, and nothing else is there.
Delivered ==
  LET all == evicted \o mailbox
      Places(c) == {p \in DOMAIN all : all[p] # NoMail /\ all[p].from = c}
  IN  \A c \in Sends :
        /\ \A p \in Places(c) : all[p] = Sent(c) /\ Places(c) = {p}
        /\ sender[c] = "ok" /\ config[c].server = "catcher" =>
             \E p \in Places(c) : p > Len(evicted) \/ Len(all) - p >= MaxMailbox

\* services/email/client.rs:290-315: whatever the server offers and answers,
\* the user name and the password leave only through TLS.
CredentialsSecured ==
  \A c \in Sends : \A k \in DOMAIN up[c] :
    "verb" \in DOMAIN up[c][k] /\ up[c][k].verb \in {"user", "password"} => up[c][k].secure

\* services/email/client.rs:289-372: no call has a timeout, and yet a send_email
\* to the catcher ends, with a success or an error.
SendsEnd == \A c \in Sends : config[c].server = "catcher" => <>(sender[c] \in Ends)
=============================================================================
