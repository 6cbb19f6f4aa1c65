------------------------------ MODULE Smtp_proofs ------------------------------
(***************************************************************************)
(* Proofs about Smtp: credentials leave only through TLS, and a mail that   *)
(* is reported as sent was delivered, whole and once, for any number of     *)
(* e-mails of any text, whatever a relay answers, wherever a connection     *)
(* breaks, and however small the mailbox is.                                *)
(***************************************************************************)
EXTENDS Smtp, SequenceTheorems, TLAPS

Char == Letters \cup Sends \cup {"."}
Line == Seq(Char)

Commands == {"EHLO", "STARTTLS", "AUTH", "user", "password", "MAIL", "RCPT", "DATA", "QUIT"}
Packet == [verb : Commands, secure : BOOLEAN] \cup [text : Line]
Replies == [code : Nat, offers : SUBSET {"STARTTLS", "AUTH"}]
Session == [step : {"none", "commands", "data", "closed"}, from : Sends \cup {NoMail},
            rcpts : Nat, data : Seq(Line)]
Mails == {NoMail} \cup {Sent(c) : c \in Sends}

\* The types, in full.
Typed ==
  /\ config \in [Sends -> Config]
  /\ sender \in [Sends -> Commands \cup {"greeting", "message"} \cup Ends \cup {"new"}]
  /\ secure \in [Sends -> BOOLEAN]
  /\ up \in [Sends -> Seq(Packet)]
  /\ down \in [Sends -> Seq(Replies)]
  /\ server \in [Sends -> Session]
  /\ mailbox \in Seq(Mails) /\ evicted \in Seq(Mails)

\* All mails, in the order in which they came.
Arrived == evicted \o mailbox

Has(c) == \E p \in DOMAIN Arrived : Arrived[p] = Sent(c)

\* What read_data makes of a message but for its dot.
Plain(c) == <<<<c>>, <<>>>> \o Body[c]

\* The server has read the first lines of a message and the others are on their way.
Reading(c) ==
  LET n == Len(server[c].data)
  IN  /\ up[c] # <<>> /\ n + Len(up[c]) = Len(Message(c))
      /\ \A j \in 1..Len(up[c]) : up[c][j].text = Message(c)[n + j]
      /\ \A j \in 1..n : server[c].data[j] = Plain(c)[j]

Closed(c) == server[c].step = "closed"

\* The server has not begun to read, or what it would read is lost.
Untouched(c) == up[c] = <<>> /\ server[c].data = <<>>

Single(c, v) == Len(up[c]) = 1 /\ up[c][1].verb = v

\* How far the two ends of a connection to the catcher can be from each other: a
\* command and its answer are never both on the way, the mail is in the mailbox
\* once the answer to the message is on its way, and only then.
Talk(c) ==
  /\ server[c].step = "none" =>
       sender[c] \in {"new", "failed"} /\ up[c] = <<>> /\ down[c] = <<>>
  /\ sender[c] = "new" => server[c].step = "none"
  /\ Waiting(c) => Len(down[c]) <= 1
  /\ Waiting(c) /\ up[c] # <<>> /\ ~Closed(c) => down[c] = <<>>
  /\ sender[c] = "greeting" => up[c] = <<>>
  /\ server[c].step = "commands" =>
       /\ server[c].data = <<>>
       /\ up[c] = <<>> \/ \E v \in Commands : Single(c, v) /\ sender[c] \in Ends \cup {v}
  /\ server[c].step = "data" =>
       \/ sender[c] = "DATA" /\ Untouched(c)
       \/ sender[c] \in Ends /\ up[c] = <<>>
       \/ sender[c] \in Ends \cup {"message"} /\ ~Has(c) /\ Reading(c)
  /\ sender[c] = "DATA" /\ down[c] # <<>> /\ Head(down[c]).code = 354 =>
       server[c].step \in {"data", "closed"}
  /\ Has(c) => sender[c] \in Ends \cup {"message", "QUIT"}
  /\ sender[c] = "message" /\ down[c] # <<>> => Has(c)
  /\ sender[c] \in {"QUIT", "ok"} => Has(c)

\* A connection to a catcher is as Talk says, any other brings the mailbox nothing.
Talks ==
  \A c \in Sends : IF config[c].server = "catcher" THEN Talk(c) ELSE ~Has(c)

\* A mail comes once.
Once == \A p, q \in DOMAIN Arrived : Arrived[p] = Arrived[q] /\ Arrived[p] # NoMail => p = q

\* Mails leave a mailbox only when it is full.
LeaveFull == evicted # <<>> => Len(mailbox) >= MaxMailbox

IInv == Typed /\ Talks /\ Once /\ LeaveFull
-----------------------------------------------------------------------------
\* Two sequences, one after the other.
LEMMA Joined ==
  ASSUME NEW S, NEW s \in Seq(S), NEW t \in Seq(S)
  PROVE  /\ s \o t \in Seq(S) /\ Len(s \o t) = Len(s) + Len(t)
         /\ \A i \in 1..Len(s) : (s \o t)[i] = s[i]
         /\ \A i \in 1..Len(t) : (s \o t)[Len(s) + i] = t[i]
OBVIOUS

\* What build_message makes of a line, read_data undoes, and it is never the dot that
\* ends a message.
LEMMA StuffingUndone ==
  ASSUME NEW line \in Line
  PROVE  Stuffed(line) \in Line /\ Stuffed(line) # <<".">> /\ Unstuffed(Stuffed(line)) = line
<1>1. line \in Seq(Char) /\ Len(line) \in Nat
  BY DEF Line
<1>2. CASE line # <<>> /\ Head(line) = "."
  <2> DEFINE twice == <<".">> \o line
  <2>1. Stuffed(line) = twice
    BY <1>2 DEF Stuffed
  <2>2. twice \in Seq(Char) /\ Len(twice) = Len(line) + 1 /\ twice[1] = "."
        /\ \A k \in 1..Len(line) : twice[k + 1] = line[k]
    <3>1. "." \in Char
      BY DEF Char
    <3>2. <<".">> \in Seq(Char) /\ Len(<<".">>) = 1 /\ <<".">>[1] = "."
      BY <3>1
    <3>3. /\ twice \in Seq(Char) /\ Len(twice) = 1 + Len(line) /\ twice[1] = <<".">>[1]
          /\ \A k \in 1..Len(line) : twice[1 + k] = line[k]
      BY <1>1, <3>2, Joined
    <3> QED  BY <1>1, <3>2, <3>3
  <2>3. Len(line) # 0
    BY <1>1, <1>2
  <2>4. twice # <<".">> /\ twice # <<>> /\ Head(twice) = "."
    <3> HIDE DEF twice
    <3>1. Len(<<".">>) = 1 /\ Len(<<>>) = 0
      OBVIOUS
    <3>3. Len(twice) # 1 /\ Len(twice) # 0
      BY <1>1, <2>2, <2>3
    <3>2. twice # <<".">> /\ twice # <<>>
      BY <3>1, <3>3
    <3> QED  BY <2>2, <3>2
  <2>5. Tail(twice) = line
    BY <1>1, <2>2
  <2> QED  BY <2>1, <2>2, <2>4, <2>5 DEF Unstuffed, Line
<1>3. CASE ~(line # <<>> /\ Head(line) = ".")
  <2>1. Stuffed(line) = line /\ Unstuffed(line) = line
    BY <1>3 DEF Stuffed, Unstuffed
  <2>2. <<".">> # <<>> /\ Head(<<".">>) = "."
    OBVIOUS
  <2> QED  BY <1>1, <1>3, <2>1, <2>2
<1> QED  BY <1>2, <1>3

LEMMA BodyLines ==
  ASSUME NEW c \in Sends
  PROVE  Body[c] \in Seq(Line) /\ Len(Body[c]) \in Nat /\ DOMAIN Body[c] = 1..Len(Body[c])
<1>1. Body[c] \in Seq(Seq(Letters))
  BY SmtpAssumption
<1>2. Seq(Letters) \subseteq Line
  BY SeqMonotonic DEF Line, Char
<1>3. Body[c] \in Seq(Line)
  BY <1>1, <1>2, SeqMonotonic
<1> QED  BY <1>3, LenProperties

\* A message, line by line: the lines of the mail, and the dot.
LEMMA MessageLines ==
  ASSUME NEW c \in Sends
  PROVE  /\ Plain(c) \in Seq(Line) /\ Len(Plain(c)) = Len(Body[c]) + 2
         /\ Message(c) \in Seq(Line) /\ Len(Message(c)) = Len(Plain(c)) + 1
         /\ \A k \in 1..Len(Plain(c)) :
              Message(c)[k] # <<".">> /\ Unstuffed(Message(c)[k]) = Plain(c)[k]
         /\ Message(c)[Len(Plain(c)) + 1] = <<".">>
<1> DEFINE head == <<<<c>>, <<>>>>
           text == [k \in DOMAIN Body[c] |-> Stuffed(Body[c][k])]
           dot == <<<<".">>>>
           n == Len(Body[c])
<1>1. Body[c] \in Seq(Line) /\ n \in Nat /\ DOMAIN Body[c] = 1..n
  BY BodyLines
<1>2. head \in Seq(Line) /\ Len(head) = 2 /\ head[1] = <<c>> /\ head[2] = <<>>
  <2>1. <<c>> \in Line /\ <<>> \in Line
    BY DEF Line, Char
  <2> QED  BY <2>1
<1>3. /\ Plain(c) \in Seq(Line) /\ Len(Plain(c)) = n + 2
      /\ Plain(c)[1] = <<c>> /\ Plain(c)[2] = <<>>
      /\ \A k \in 1..n : Plain(c)[k + 2] = Body[c][k]
  BY <1>1, <1>2 DEF Plain
<1>4. \A k \in 1..n : text[k] \in Line /\ text[k] # <<".">> /\ Unstuffed(text[k]) = Body[c][k]
  <2> SUFFICES ASSUME NEW k \in 1..n
               PROVE  text[k] \in Line /\ text[k] # <<".">> /\ Unstuffed(text[k]) = Body[c][k]
    OBVIOUS
  <2>1. Body[c][k] \in Line /\ text[k] = Stuffed(Body[c][k])
    BY <1>1
  <2> QED  BY <2>1, StuffingUndone
<1>5. text \in Seq(Line) /\ Len(text) = n
  <2>1. text \in [1..n -> Line]
    BY <1>1, <1>4
  <2>2. text \in Seq(Line)
    BY <1>1, <2>1, SeqDef
  <2>3. DOMAIN text = 1..Len(text) /\ Len(text) \in Nat
    BY <2>2, LenProperties
  <2>4. DOMAIN text = 1..n
    BY <2>1
  <2> QED  BY <1>1, <2>2, <2>3, <2>4
<1>6. head \in Seq(Line) /\ dot \in Seq(Line) /\ Len(dot) = 1 /\ dot[1] = <<".">>
  <2>1. <<".">> \in Line
    BY DEF Line, Char
  <2> QED  BY <1>2, <2>1
<1> HIDE DEF text, head, dot
<1>7. /\ head \o text \in Seq(Line) /\ Len(head \o text) = n + 2
      /\ (head \o text)[1] = <<c>> /\ (head \o text)[2] = <<>>
      /\ \A k \in 1..n : (head \o text)[k + 2] = text[k]
  <2>1. /\ head \o text \in Seq(Line) /\ Len(head \o text) = 2 + n
        /\ \A i \in 1..2 : (head \o text)[i] = head[i]
        /\ \A i \in 1..n : (head \o text)[2 + i] = text[i]
    <3>1. Len(head) = 2 /\ Len(text) = n
      BY <1>2, <1>5
    <3> HIDE DEF n
    <3>2. /\ head \o text \in Seq(Line) /\ Len(head \o text) = Len(head) + Len(text)
          /\ \A i \in 1..Len(head) : (head \o text)[i] = head[i]
          /\ \A i \in 1..Len(text) : (head \o text)[Len(head) + i] = text[i]
      BY <1>5, <1>6, Joined
    <3> QED  BY <3>1, <3>2
  <2>2. \A i \in 1..n : 2 + i = i + 2
    BY <1>1
  <2>3. 2 + n = n + 2
    BY <1>1
  <2> QED  BY <1>2, <2>1, <2>2, <2>3
<1>8. Message(c) = (head \o text) \o dot
  BY DEF Message, head, text, dot
<1>9. /\ Message(c) \in Seq(Line) /\ Len(Message(c)) = n + 3
      /\ \A k \in 1..(n + 2) : Message(c)[k] = (head \o text)[k]
      /\ Message(c)[n + 3] = <<".">>
  <2> DEFINE lines == head \o text
  <2> HIDE DEF lines
  <2>1. /\ lines \o dot \in Seq(Line) /\ Len(lines \o dot) = (n + 2) + 1
        /\ \A i \in 1..(n + 2) : (lines \o dot)[i] = lines[i]
        /\ \A i \in 1..1 : (lines \o dot)[(n + 2) + i] = dot[i]
    <3>1. lines \in Seq(Line) /\ n + 2 = Len(lines)
      BY <1>7 DEF lines
    <3>2. dot \in Seq(Line) /\ 1 = Len(dot)
      BY <1>6
    <3>3. /\ lines \o dot \in Seq(Line) /\ Len(lines \o dot) = Len(lines) + Len(dot)
          /\ \A i \in 1..Len(lines) : (lines \o dot)[i] = lines[i]
          /\ \A i \in 1..Len(dot) : (lines \o dot)[Len(lines) + i] = dot[i]
      BY <3>1, <3>2, Joined
    <3>4. n + 2 = Len(lines) /\ 1 = Len(dot)
      BY <3>1, <3>2
    <3> HIDE DEF n
    <3> QED  BY <3>3, <3>4
  <2>2. Message(c) = lines \o dot
    BY <1>8 DEF lines
  <2>3. (n + 2) + 1 = n + 3
    BY <1>1
  <2>4. (lines \o dot)[(n + 2) + 1] = dot[1]
    BY <2>1
  <2> QED  BY <1>6, <2>1, <2>2, <2>3, <2>4 DEF lines
<1>10. ASSUME NEW k \in 1..(n + 2)
       PROVE  Message(c)[k] # <<".">> /\ Unstuffed(Message(c)[k]) = Plain(c)[k]
  <2>1. CASE k = 1
    <3>1. Message(c)[k] = <<c>> /\ Plain(c)[k] = <<c>>
      BY <1>3, <1>7, <1>9, <2>1
    <3>2. c # "."
      BY SmtpAssumption
    <3>3. Head(<<c>>) = c /\ <<c>> # <<".">>
      BY <3>2
    <3> QED  BY <3>1, <3>2, <3>3 DEF Unstuffed
  <2>2. CASE k = 2
    <3>1. Message(c)[k] = <<>> /\ Plain(c)[k] = <<>>
      BY <1>3, <1>7, <1>9, <2>2
    <3>2. <<>> # <<".">>
      OBVIOUS
    <3> QED  BY <3>1, <3>2 DEF Unstuffed
  <2>3. CASE k \in 3..(n + 2)
    <3>1. k - 2 \in 1..n /\ k = (k - 2) + 2
      BY <1>1, <2>3
    <3>2. Message(c)[k] = text[k - 2] /\ Plain(c)[k] = Body[c][k - 2]
      BY <1>3, <1>7, <1>9, <3>1
    <3> QED  BY <1>4, <3>1, <3>2
  <2> QED  BY <1>1, <2>1, <2>2, <2>3
<1> QED  BY <1>1, <1>3, <1>9, <1>10

\* parse_email gives back who sent it and the text.
LEMMA MailOfMessage ==
  ASSUME NEW c \in Sends, NEW data \in Seq(Line),
         Len(data) = Len(Plain(c)), \A j \in 1..Len(data) : data[j] = Plain(c)[j]
  PROVE  Mail(data) = Sent(c)
<1> DEFINE n == Len(Body[c])
           First(k) == k \in DOMAIN data /\ data[k] = <<>> /\ \A j \in 1..(k - 1) : data[j] # <<>>
<1>1. Body[c] \in Seq(Line) /\ n \in Nat
  BY BodyLines
<1>2. <<c>> \in Line /\ <<>> \in Line
  BY DEF Line, Char
<1>3. /\ Len(data) = n + 2 /\ data[1] = <<c>> /\ data[2] = <<>>
      /\ \A k \in 1..n : data[k + 2] = Body[c][k]
  <2> DEFINE body == Body[c]
  <2>1. body \in Seq(Line) /\ n = Len(body) /\ Plain(c) = <<<<c>>, <<>>>> \o body
    BY <1>1 DEF Plain
  <2> HIDE DEF body, n
  <2>2. /\ Len(Plain(c)) = n + 2 /\ Plain(c)[1] = <<c>> /\ Plain(c)[2] = <<>>
        /\ \A k \in 1..n : Plain(c)[k + 2] = body[k]
    BY <1>2, <2>1
  <2>3. n \in Nat /\ Len(data) = n + 2
    BY <2>1, <2>2
  <2>4. data[1] = Plain(c)[1] /\ data[2] = Plain(c)[2]
    BY <2>3
  <2>5. ASSUME NEW k \in 1..n  PROVE data[k + 2] = body[k]
    BY <2>2, <2>3
  <2> QED
    BY <2>2, <2>3, <2>4, <2>5 DEF body
<1>4. data[1] # <<>> /\ data[1][1] = c
  BY <1>3
<1>5. First(2) /\ \A k : First(k) => k = 2
  <2>1. DOMAIN data = 1..(n + 2)
    BY <1>1, <1>3
  <2>2. First(2)
    BY <1>1, <1>3, <1>4, <2>1
  <2>3. ASSUME NEW k, First(k)  PROVE k = 2
    <3>1. k \in 1..(n + 2) /\ data[k] = <<>>
      BY <2>1, <2>3
    <3>2. k # 1
      BY <1>4, <3>1
    <3>3. ~(2 \in 1..(k - 1))
      BY <1>3, <2>3
    <3> QED  BY <1>1, <3>1, <3>2, <3>3
  <2> QED  BY <2>2, <2>3
<1>6. (CHOOSE k : First(k)) = 2
  BY <1>5
<1>7. (CHOOSE k \in DOMAIN data : data[k] = <<>> /\ \A j \in 1..(k - 1) : data[j] # <<>>) = 2
  BY <1>5
<1>8. SubSeq(data, 2 + 1, Len(data)) = Body[c]
  <2> DEFINE rest == SubSeq(data, 2 + 1, Len(data))
  <2>1. rest \in Seq(Line) /\ Len(rest) = n /\ \A k \in 1..n : rest[k] = data[k + 2]
    BY <1>1, <1>3
  <2> QED  BY <1>1, <1>3, <2>1
<1> QED  BY <1>4, <1>7, <1>8 DEF Mail, Sent
-----------------------------------------------------------------------------
\* Every step is of one send; what becomes of the other sends.
Others(c) ==
  \A d \in Sends \ {c} : UNCHANGED <<sender[d], secure[d], up[d], down[d], server[d]>>

Stages == Commands \cup {"message"} \cup Ends

\* What is sent is well typed.
LEMMA LinesTyped ==
  ASSUME NEW c \in Sends, NEW step \in Commands \cup {"message"}, NEW tls \in BOOLEAN
  PROVE  /\ Lines(c, step, tls) \in Seq(Packet)
         /\ step = "message" =>
              /\ Len(Lines(c, step, tls)) = Len(Message(c))
              /\ \A k \in 1..Len(Message(c)) : Lines(c, step, tls)[k] = [text |-> Message(c)[k]]
         /\ step # "message" => Lines(c, step, tls) = <<[verb |-> step, secure |-> tls]>>
<1>1. CASE step = "message"
  <2> DEFINE n == Len(Message(c))
             lines == [k \in DOMAIN Message(c) |-> [text |-> Message(c)[k]]]
  <2>1. Message(c) \in Seq(Line) /\ n \in Nat /\ DOMAIN Message(c) = 1..n
    BY MessageLines, LenProperties
  <2>2. \A k \in 1..n : [text |-> Message(c)[k]] \in Packet
    <3>1. \A k \in 1..n : Message(c)[k] \in Line
      BY <2>1, ElementOfSeq
    <3> QED  BY <3>1 DEF Packet
  <2>3. lines \in [1..n -> Packet]
    BY <2>1, <2>2
  <2>4. lines \in Seq(Packet)
    BY <2>1, <2>3, SeqDef
  <2>5. DOMAIN lines = 1..Len(lines) /\ Len(lines) \in Nat
    BY <2>4, LenProperties
  <2>6. DOMAIN lines = 1..n
    BY <2>3
  <2>7. Len(lines) = n
    BY <2>1, <2>5, <2>6
  <2>8. Lines(c, step, tls) = lines
    BY <1>1 DEF Lines
  <2>9. \A k \in 1..n : lines[k] = [text |-> Message(c)[k]]
    BY <2>1
  <2> HIDE DEF lines
  <2> QED  BY <1>1, <2>4, <2>7, <2>8, <2>9
<1>2. CASE step # "message"
  <2>1. Lines(c, step, tls) = <<[verb |-> step, secure |-> tls]>>
    BY <1>2 DEF Lines
  <2>2. [verb |-> step, secure |-> tls] \in Packet
    BY <1>2 DEF Packet
  <2> QED  BY <1>2, <2>1, <2>2
<1> QED  BY <1>1, <1>2

\* The client goes on, and sends what the next step asks for unless it ends.
Goes(c, step, tls) ==
  /\ sender'[c] = step /\ secure'[c] = tls
  /\ IF step \in Ends THEN up'[c] = up[c] ELSE up'[c] = up[c] \o Lines(c, step, tls)

LEMMA Going ==
  ASSUME Typed, NEW c \in Sends, NEW step \in Stages, NEW tls \in BOOLEAN,
         GoOn(c, step, tls)
  PROVE  /\ sender' \in [Sends -> Stages \cup {"greeting", "new"}]
         /\ secure' \in [Sends -> BOOLEAN] /\ up' \in [Sends -> Seq(Packet)]
         /\ Goes(c, step, tls)
         /\ \A d \in Sends \ {c} : UNCHANGED <<sender[d], secure[d], up[d]>>
<1>1. sender \in [Sends -> Stages \cup {"greeting", "new"}] /\ secure \in [Sends -> BOOLEAN]
      /\ up \in [Sends -> Seq(Packet)]
  BY DEF Typed, Stages
<1>2. /\ sender' = [sender EXCEPT ![c] = step] /\ secure' = [secure EXCEPT ![c] = tls]
      /\ up' = IF step \in Ends THEN up ELSE [up EXCEPT ![c] = @ \o Lines(c, step, tls)]
  BY DEF GoOn
<1>3. CASE step \in Ends
  BY <1>1, <1>2, <1>3 DEF Goes
<1>4. CASE step \notin Ends
  <2>1. Lines(c, step, tls) \in Seq(Packet)
    BY <1>4, LinesTyped DEF Stages
  <2>2. up[c] \o Lines(c, step, tls) \in Seq(Packet)
    BY <1>1, <2>1
  <2> QED  BY <1>1, <1>2, <1>4, <2>2 DEF Goes
<1> QED  BY <1>3, <1>4

\* What comes after what.
LEMMA Follows ==
  ASSUME Typed, NEW c \in Sends, Waiting(c), NEW offers
  PROVE  /\ Following(c, offers) \in Stages
         /\ Following(c, offers) = "message" => sender[c] = "DATA"
         /\ Following(c, offers) = "QUIT" => sender[c] = "message"
         /\ Following(c, offers) = "ok" => sender[c] = "QUIT"
         /\ sender[c] = "QUIT" => Following(c, offers) = "ok"
         /\ sender[c] = "message" => Following(c, offers) = "QUIT"
         /\ sender[c] = "DATA" => Following(c, offers) = "message"
         /\ Following(c, offers) = "STARTTLS" => config[c].starttls
         /\ Following(c, offers) = "user" => sender[c] = "AUTH"
         /\ Following(c, offers) = "password" => sender[c] = "user"
         /\ Following(c, offers) = "AUTH" =>
              sender[c] = "EHLO" /\ config[c].credentials /\ (config[c].starttls => secure[c])
<1>1. sender[c] \in DOMAIN Expected
  BY DEF Waiting
<1>2. CASE sender[c] = "EHLO"
  BY <1>2 DEF Following, AfterEhlo, Stages, Commands, Ends
<1>3. CASE sender[c] # "EHLO"
  <2>1. Following(c, offers) = Then[sender[c]]
    BY <1>3 DEF Following
  <2>2. sender[c] \in {"greeting", "STARTTLS", "AUTH", "user", "password", "MAIL", "RCPT", "DATA",
                       "message", "QUIT"}
    BY <1>1, <1>3 DEF Expected
  <2> QED  BY <2>1, <2>2 DEF Then, Stages, Commands, Ends
<1> QED  BY <1>2, <1>3

-----------------------------------------------------------------------------
\* What each step does to the locals of its send, and the types it keeps.

LEMMA Connecting ==
  ASSUME Typed, NEW c \in Sends, Connect(c)
  PROVE  /\ Typed' /\ Others(c)
         /\ sender[c] = "new" /\ secure'[c] = secure[c] /\ up'[c] = up[c]
         /\ \/ sender'[c] = "failed" /\ server'[c] = server[c] /\ down'[c] = down[c]
            \/ ~Refused(c) /\ sender'[c] = "greeting" /\ server'[c] = NoSession /\ Len(down'[c]) = 1
         /\ UNCHANGED <<config, mailbox, evicted>>
<1>1. NoSession \in Session
  BY DEF NoSession, Session
<1>2. <<[code |-> 220, offers |-> {}]>> \in Seq(Replies) /\ Len(<<[code |-> 220, offers |-> {}]>>) = 1
  BY DEF Replies
<1>3. CASE sender' = [sender EXCEPT ![c] = "failed"] /\ UNCHANGED <<server, down>>
  BY <1>3 DEF Connect, Typed, Others, Ends
<1>4. CASE /\ ~Refused(c) /\ sender' = [sender EXCEPT ![c] = "greeting"]
           /\ server' = [server EXCEPT ![c] = NoSession]
           /\ down' = [down EXCEPT ![c] = <<[code |-> 220, offers |-> {}]>>]
  BY <1>1, <1>2, <1>4 DEF Connect, Typed, Others
<1> QED  BY <1>3, <1>4 DEF Connect

LEMMA Replying ==
  ASSUME Typed, NEW c \in Sends, Reply(c)
  PROVE  /\ Typed' /\ Others(c)
         /\ Waiting(c) /\ down[c] # <<>> /\ down'[c] = Tail(down[c]) /\ server'[c] = server[c]
         /\ \/ Goes(c, "failed", secure[c]) /\ sender[c] # "QUIT"
            \/ /\ Head(down[c]).code = Expected[sender[c]] \/ sender[c] = "QUIT"
               /\ \E offers : Goes(c, Following(c, offers), secure[c] \/ sender[c] = "STARTTLS")
         /\ UNCHANGED <<config, mailbox, evicted>>
<1> DEFINE r == Head(down[c])
           good == r.code = Expected[sender[c]] \/ sender[c] = "QUIT"
           next == Following(c, r.offers)
           tls == secure[c] \/ sender[c] = "STARTTLS"
<1>1. /\ Waiting(c) /\ down[c] # <<>> /\ down' = [down EXCEPT ![c] = Tail(@)]
      /\ UNCHANGED <<config, server, mailbox, evicted>>
      /\ \/ (~good \/ sender[c] = "STARTTLS") /\ GoOn(c, "failed", secure[c])
         \/ good /\ GoOn(c, next, tls)
  BY DEF Reply
<1>2. next \in Stages /\ "failed" \in Stages /\ secure[c] \in BOOLEAN /\ tls \in BOOLEAN
  BY <1>1, Follows DEF Typed, Stages, Ends
<1>3. down' \in [Sends -> Seq(Replies)] /\ down'[c] = Tail(down[c])
      /\ \A d \in Sends \ {c} : down'[d] = down[d]
  BY <1>1 DEF Typed
<1> HIDE DEF next, tls, good
<1>4. ASSUME NEW step \in Stages, NEW safe \in BOOLEAN, GoOn(c, step, safe)
      PROVE  Typed' /\ Others(c) /\ Goes(c, step, safe)
  <2>1. /\ sender' \in [Sends -> Stages \cup {"greeting", "new"}]
        /\ secure' \in [Sends -> BOOLEAN] /\ up' \in [Sends -> Seq(Packet)]
        /\ Goes(c, step, safe)
        /\ \A d \in Sends \ {c} : UNCHANGED <<sender[d], secure[d], up[d]>>
    BY <1>4, Going
  <2> QED  BY <1>1, <1>3, <2>1 DEF Typed, Others, Stages
<1>5. CASE (~good \/ sender[c] = "STARTTLS") /\ GoOn(c, "failed", secure[c])
  <2>1. sender[c] # "QUIT"
    BY <1>5 DEF good
  <2> QED  BY <1>1, <1>2, <1>3, <1>4, <1>5, <2>1
<1>6. CASE good /\ GoOn(c, next, tls)
  <2>1. Typed' /\ Others(c) /\ Goes(c, next, tls)
    BY <1>2, <1>4, <1>6
  <2>2. \E offers : Goes(c, Following(c, offers), secure[c] \/ sender[c] = "STARTTLS")
    BY <2>1 DEF next, tls
  <2> QED  BY <1>1, <1>3, <1>6, <2>1, <2>2 DEF good
<1> QED  BY <1>1, <1>5, <1>6

LEMMA Ending ==
  ASSUME Typed, NEW c \in Sends, Eof(c)
  PROVE  /\ Typed' /\ Others(c)
         /\ Waiting(c) /\ Closed(c) /\ UNCHANGED <<secure[c], up[c], down[c], server[c]>>
         /\ sender'[c] = IF sender[c] = "QUIT" THEN "ok" ELSE "failed"
         /\ UNCHANGED <<config, mailbox, evicted>>
<1> DEFINE end == IF sender[c] = "QUIT" THEN "ok" ELSE "failed"
<1>1. end \in Stages /\ end \in Ends /\ secure[c] \in BOOLEAN
  BY DEF Stages, Ends, Typed
<1>2. /\ Waiting(c) /\ Closed(c) /\ GoOn(c, end, secure[c])
      /\ UNCHANGED <<config, down, server, mailbox, evicted>>
  BY DEF Eof, Closed
<1> HIDE DEF end
<1>3. /\ sender' \in [Sends -> Stages \cup {"greeting", "new"}]
      /\ secure' \in [Sends -> BOOLEAN] /\ up' \in [Sends -> Seq(Packet)]
      /\ Goes(c, end, secure[c])
      /\ \A d \in Sends \ {c} : UNCHANGED <<sender[d], secure[d], up[d]>>
  BY <1>1, <1>2, Going
<1>4. Typed' /\ Others(c)
  BY <1>2, <1>3 DEF Typed, Others, Stages
<1> QED  BY <1>1, <1>2, <1>3, <1>4 DEF Goes, end

LEMMA Dropping ==
  ASSUME Typed, NEW c \in Sends, Drop(c)
  PROVE  /\ Typed' /\ Others(c)
         /\ Waiting(c) /\ sender'[c] = "dropped" /\ up'[c] \in {up[c], <<>>}
         /\ UNCHANGED <<secure[c], down[c], server[c], config, mailbox, evicted>>
<1>1. PICK n \in {0, Len(up[c])} : up' = [up EXCEPT ![c] = SubSeq(@, 1, n)]
  BY DEF Drop
<1>2. up[c] \in Seq(Packet)
  BY DEF Typed
<1>3. SubSeq(up[c], 1, n) \in {up[c], <<>>}
  <2>1. CASE n = 0
    <3>1. SubSeq(up[c], 1, 0) = <<>>
      BY SubSeqEmpty
    <3> QED  BY <2>1, <3>1
  <2>2. CASE n = Len(up[c])
    BY <1>2, <2>2, SubSeqFull
  <2> QED  BY <2>1, <2>2
<1>4. <<>> \in Seq(Packet)
  OBVIOUS
<1> QED  BY <1>1, <1>2, <1>3, <1>4 DEF Drop, Typed, Others, Ends

LEMMA Commanding ==
  ASSUME Typed, NEW c \in Sends, Command(c)
  PROVE  /\ Typed' /\ Others(c)
         /\ Serving(c, "catcher") /\ server[c].step = "commands" /\ up[c] # <<>>
         /\ up'[c] = Tail(up[c])
         /\ server'[c] = After(server[c], Head(up[c]).verb, c)
         /\ down'[c] = Append(down[c], [code |-> Answer(server[c], Head(up[c]).verb), offers |-> {}])
         /\ UNCHANGED <<sender[c], secure[c], config, mailbox, evicted>>
<1> DEFINE verb == Head(up[c]).verb
           answer == [code |-> Answer(server[c], verb), offers |-> {}]
<1>1. /\ Serving(c, "catcher") /\ server[c].step = "commands" /\ up[c] # <<>>
      /\ server' = [server EXCEPT ![c] = After(@, verb, c)]
      /\ down' = [down EXCEPT ![c] = Append(@, answer)]
      /\ up' = [up EXCEPT ![c] = Tail(@)]
      /\ UNCHANGED <<config, sender, secure, mailbox, evicted>>
  BY DEF Command
<1> HIDE DEF verb
<1>2. After(server[c], verb, c) \in Session
  <2>1. server[c] \in Session
    BY DEF Typed
  <2>2. [server[c] EXCEPT !.from = c, !.rcpts = 0] \in Session
    BY <2>1 DEF Session
  <2>3. [server[c] EXCEPT !.rcpts = @ + 1] \in Session
    BY <2>1 DEF Session
  <2>4. [server[c] EXCEPT !.step = "data"] \in Session /\ [server[c] EXCEPT !.step = "closed"] \in Session
    BY <2>1 DEF Session
  <2> QED  BY <2>1, <2>2, <2>3, <2>4 DEF After
<1>3. answer \in Replies
  BY DEF Answer, Replies
<1>4. Append(down[c], answer) \in Seq(Replies)
  BY <1>3 DEF Typed
<1>5. Tail(up[c]) \in Seq(Packet)
  BY <1>1, HeadTailProperties DEF Typed
<1> HIDE DEF answer
<1>6. Typed' /\ Others(c)
  BY <1>1, <1>2, <1>4, <1>5 DEF Typed, Others
<1>7. /\ up'[c] = Tail(up[c]) /\ server'[c] = After(server[c], verb, c)
      /\ down'[c] = Append(down[c], answer)
  BY <1>1 DEF Typed
<1> QED  BY <1>1, <1>6, <1>7 DEF verb, answer

LEMMA HangingUp ==
  ASSUME Typed, NEW c \in Sends, Hangup(c)
  PROVE  /\ Typed' /\ Others(c)
         /\ sender[c] \in Ends /\ Closed(c)'
         /\ UNCHANGED <<sender[c], secure[c], up[c], down[c], config, mailbox, evicted>>
<1>1. server[c] \in Session
  BY DEF Typed
<1>2. [server[c] EXCEPT !.step = "closed"] \in Session
  BY <1>1 DEF Session
<1>3. server'[c] = [server[c] EXCEPT !.step = "closed"]
  BY DEF Hangup, Typed
<1>4. server'[c].step = "closed"
  BY <1>1, <1>3 DEF Session
<1> QED  BY <1>2, <1>4 DEF Hangup, Typed, Others, Closed

LEMMA Relaying ==
  ASSUME Typed, NEW c \in Sends, Relay(c)
  PROVE  /\ Typed' /\ Others(c)
         /\ config[c].server = "relay" /\ up'[c] = <<>>
         /\ UNCHANGED <<sender[c], secure[c], server[c], config, mailbox, evicted>>
<1>1. PICK code \in {Expected[sender[c]], 500}, offers \in SUBSET {"STARTTLS", "AUTH"} :
        down' = [down EXCEPT ![c] = Append(@, [code |-> code, offers |-> offers])]
  BY DEF Relay
<1>2. code \in Nat
  BY DEF Relay, Waiting, Expected
<1>3. [code |-> code, offers |-> offers] \in Replies
  BY <1>2 DEF Replies
<1>4. Append(down[c], [code |-> code, offers |-> offers]) \in Seq(Replies)
  BY <1>3 DEF Typed
<1>5. down' \in [Sends -> Seq(Replies)] /\ \A d \in Sends \ {c} : down'[d] = down[d]
  BY <1>1, <1>4 DEF Typed
<1>6. <<>> \in Seq(Packet)
  OBVIOUS
<1> QED  BY <1>5, <1>6 DEF Relay, Serving, Typed, Others

LEMMA Cutting ==
  ASSUME Typed, NEW c \in Sends, Cut(c)
  PROVE  /\ Typed' /\ Others(c)
         /\ Closed(c)' /\ server[c].step \in {"commands", "data"}
         /\ up'[c] = <<>> /\ down'[c] \in {down[c], <<>>}
         /\ UNCHANGED <<sender[c], secure[c], config, mailbox, evicted>>
<1>1. server[c] \in Session
  BY DEF Typed
<1>2. [server[c] EXCEPT !.step = "closed"] \in Session
  BY <1>1 DEF Session
<1>3. server'[c] = [server[c] EXCEPT !.step = "closed"]
  BY DEF Cut, Typed
<1>4. server'[c].step = "closed"
  BY <1>1, <1>3 DEF Session
<1>5. <<>> \in Seq(Packet) /\ <<>> \in Seq(Replies)
  OBVIOUS
<1>6. down' \in [Sends -> Seq(Replies)] /\ down'[c] \in {down[c], <<>>}
      /\ \A d \in Sends \ {c} : down'[d] = down[d]
  BY <1>5 DEF Cut, Typed
<1> QED  BY <1>2, <1>4, <1>5, <1>6 DEF Cut, Typed, Others, Closed

\* A line of a message is read: the dot brings the mail, any other one more line.
LEMMA ReadingOn ==
  ASSUME Typed, NEW c \in Sends, Data(c), Reading(c)
  PROVE  /\ Typed' /\ Others(c)
         /\ up'[c] = Tail(up[c])
         /\ \/ /\ mailbox' = Append(mailbox, Sent(c)) /\ up'[c] = <<>>
               /\ server'[c] = NoSession /\ Len(down'[c]) = Len(down[c]) + 1
            \/ /\ UNCHANGED <<mailbox, down[c]>>
               /\ server'[c].step = "data" /\ server'[c].from = server[c].from /\ Reading(c)'
         /\ UNCHANGED <<sender[c], secure[c], config, evicted>>
<1> DEFINE line == Head(up[c]).text
           data == server[c].data
           n == Len(data)
           m == Len(Plain(c))
           left == Len(up[c])
<1>1. /\ data \in Seq(Line) /\ n \in Nat /\ up[c] \in Seq(Packet) /\ left \in Nat /\ up[c] # <<>>
      /\ m \in Nat /\ Len(Message(c)) = m + 1 /\ server[c] \in Session
  <2>1. server[c] \in Session /\ up[c] \in Seq(Packet)
    BY DEF Typed
  <2>2. data \in Seq(Line)
    BY <2>1 DEF Session
  <2> QED  BY <2>1, <2>2, MessageLines, LenProperties DEF Reading
<1>2. /\ n + left = m + 1 /\ \A j \in 1..left : up[c][j].text = Message(c)[n + j]
      /\ \A j \in 1..n : data[j] = Plain(c)[j]
  BY <1>1 DEF Reading
<1>3. left >= 1 /\ line = Message(c)[n + 1]
  <2>1. left # 0
    BY <1>1, EmptySeq
  <2>2. Head(up[c]) = up[c][1]
    BY <1>1
  <2>3. 1 \in 1..left
    BY <1>1, <2>1
  <2> QED  BY <1>1, <1>2, <2>1, <2>2, <2>3
<1>4. /\ Tail(up[c]) \in Seq(Packet) /\ Len(Tail(up[c])) = left - 1
      /\ \A j \in 1..(left - 1) : Tail(up[c])[j] = up[c][j + 1]
  BY <1>1
<1>5. /\ up' = [up EXCEPT ![c] = Tail(@)]
      /\ UNCHANGED <<config, sender, secure, evicted>>
      /\ IF line = <<".">>
         THEN /\ mailbox' = Append(mailbox, Mail(data))
              /\ server' = [server EXCEPT ![c] = NoSession]
              /\ down' = [down EXCEPT ![c] = Append(@, [code |-> 250, offers |-> {}])]
         ELSE /\ server' = [server EXCEPT ![c].data = Append(@, Unstuffed(line))]
              /\ UNCHANGED <<mailbox, down>>
      /\ server[c].step = "data"
  BY DEF Data
<1>6. up' \in [Sends -> Seq(Packet)] /\ up'[c] = Tail(up[c])
      /\ \A d \in Sends \ {c} : up'[d] = up[d]
  BY <1>4, <1>5 DEF Typed
<1> HIDE DEF line, data, n, m, left
<1>7. CASE n = m
  <2>1. line = <<".">>
    BY <1>1, <1>3, <1>7, MessageLines DEF m
  <2>2. Mail(data) = Sent(c)
    BY <1>1, <1>2, <1>7, MailOfMessage DEF n, m
  <2>3. up'[c] = <<>>
    <3>1. left = 1
      BY <1>1, <1>2, <1>7
    <3>2. Len(Tail(up[c])) = 0
      BY <1>4, <3>1
    <3>3. Len(up'[c]) = 0
      BY <1>6, <3>2
    <3> QED  BY <1>4, <1>6, <3>3, EmptySeq
  <2>4. [code |-> 250, offers |-> {}] \in Replies /\ NoSession \in Session /\ Sent(c) \in Mails
    BY DEF Replies, NoSession, Session, Mails
  <2>5. /\ mailbox' = Append(mailbox, Sent(c)) /\ server' = [server EXCEPT ![c] = NoSession]
        /\ down' = [down EXCEPT ![c] = Append(@, [code |-> 250, offers |-> {}])]
    BY <1>5, <2>1, <2>2
  <2>6. Append(down[c], [code |-> 250, offers |-> {}]) \in Seq(Replies)
        /\ Len(Append(down[c], [code |-> 250, offers |-> {}])) = Len(down[c]) + 1
    BY <2>4 DEF Typed
  <2>7. mailbox' \in Seq(Mails)
    BY <2>4, <2>5 DEF Typed
  <2> QED  BY <1>5, <1>6, <2>3, <2>4, <2>5, <2>6, <2>7 DEF Typed, Others
<1>8. CASE n # m
  <2> DEFINE longer == Append(data, Plain(c)[n + 1])
  <2>1. n + 1 \in 1..m /\ n < m
    BY <1>1, <1>2, <1>3, <1>8
  <2>2. line # <<".">> /\ Unstuffed(line) = Plain(c)[n + 1]
    BY <1>3, <2>1, MessageLines DEF m
  <2>3. Plain(c)[n + 1] \in Line
    BY <2>1, MessageLines, ElementOfSeq DEF m
  <2>4. /\ longer \in Seq(Line) /\ Len(longer) = n + 1 /\ longer[n + 1] = Plain(c)[n + 1]
        /\ \A j \in 1..n : longer[j] = data[j]
    BY <1>1, <2>3 DEF n
  <2> HIDE DEF longer
  <2>5. server' = [server EXCEPT ![c].data = longer] /\ UNCHANGED <<mailbox, down>>
    BY <1>5, <2>2 DEF data, longer
  <2>6. server'[c] = [server[c] EXCEPT !.data = longer]
        /\ \A d \in Sends \ {c} : server'[d] = server[d]
    BY <2>5 DEF Typed
  <2>7. server'[c] \in Session /\ server'[c].data = longer /\ server'[c].step = "data"
        /\ server'[c].from = server[c].from
    BY <1>1, <1>5, <2>4, <2>6 DEF Session
  <2>8. Typed' /\ Others(c)
    BY <1>5, <1>6, <2>5, <2>6, <2>7 DEF Typed, Others
  <2>9. Reading(c)'
    <3> DEFINE rest == Len(Tail(up[c]))
    <3>0. rest = left - 1 /\ Len(up'[c]) = rest
      BY <1>4, <1>6
    <3> HIDE DEF rest
    <3>1. (n + 1) + Len(up'[c]) = m + 1 /\ Len(up'[c]) = left - 1 /\ left - 1 >= 1
      BY <1>1, <1>2, <2>1, <3>0
    <3>2. up'[c] # <<>>
      BY <3>1, <1>1, EmptySeq
    <3>3. ASSUME NEW j \in 1..(left - 1)
          PROVE  up'[c][j].text = Message(c)[(n + 1) + j]
      <4>1. j + 1 \in 1..left /\ n + (j + 1) = (n + 1) + j
        BY <1>1, <3>1
      <4> QED  BY <1>2, <1>4, <1>6, <4>1
    <3>4. \A j \in 1..(n + 1) : longer[j] = Plain(c)[j]
      BY <1>1, <1>2, <2>4
    <3> QED  BY <1>1, <2>4, <2>7, <3>1, <3>2, <3>3, <3>4 DEF Reading
  <2> QED  BY <1>5, <1>6, <2>5, <2>7, <2>8, <2>9
<1> QED  BY <1>7, <1>8

\* A sequence is what it begins with and what follows.
LEMMA CutInTwo ==
  ASSUME NEW S, NEW s \in Seq(S), NEW n, n = Len(s), NEW k \in 0..n
  PROVE  /\ SubSeq(s, 1, k) \in Seq(S) /\ SubSeq(s, k + 1, n) \in Seq(S)
         /\ SubSeq(s, 1, k) \o SubSeq(s, k + 1, n) = s
<1> DEFINE a == SubSeq(s, 1, k)
           b == SubSeq(s, k + 1, n)
<1>1. n \in Nat /\ k \in Nat /\ k <= n
  OBVIOUS
<1>2. a \in Seq(S) /\ Len(a) = k /\ \A i \in 1..k : a[i] = s[i]
  OBVIOUS
<1>3. b \in Seq(S) /\ Len(b) = n - k /\ \A i \in 1..(n - k) : b[i] = s[k + i]
  <2>1. b \in Seq(S) /\ Len(b) = n - k
    BY <1>1
  <2>2. ASSUME NEW i \in 1..(n - k)  PROVE b[i] = s[k + i]
    BY <1>1, <2>2
  <2> QED  BY <2>1, <2>2
<1> HIDE DEF a, b
<1>4. /\ a \o b \in Seq(S) /\ Len(a \o b) = Len(a) + Len(b)
      /\ \A i \in 1..Len(a) : (a \o b)[i] = a[i]
      /\ \A i \in 1..Len(b) : (a \o b)[Len(a) + i] = b[i]
  <2>1. a \in Seq(S) /\ b \in Seq(S)
    BY <1>2, <1>3
  <2> QED  BY <2>1, Joined
<1>5. Len(a \o b) = Len(s)
  BY <1>1, <1>2, <1>3, <1>4
<1>6. ASSUME NEW i \in 1..Len(a \o b)  PROVE (a \o b)[i] = s[i]
  <2>1. CASE i \in 1..k
    BY <1>2, <1>4, <2>1
  <2>2. CASE i \in (k + 1)..n
    <3>1. i - k \in 1..(n - k) /\ k + (i - k) = i
      BY <1>1, <2>2
    <3>2. (a \o b)[Len(a) + (i - k)] = b[i - k]
      BY <1>3, <1>4, <3>1
    <3>3. b[i - k] = s[k + (i - k)]
      BY <1>3, <3>1
    <3> QED  BY <1>2, <3>1, <3>2, <3>3
  <2> QED  BY <1>1, <1>5, <2>1, <2>2
<1> QED  BY <1>2, <1>3, <1>4, <1>5, <1>6, SeqEqual DEF a, b

\* The HTTP catcher is handed a mail, and lets the oldest go if there are too many:
\* all mails, in their order, are those there were and this one.
LEMMA HandedIn ==
  ASSUME Typed, Inbound
  PROVE  /\ Typed' /\ Arrived' = Append(Arrived, NoMail)
         /\ LeaveFull => LeaveFull'
         /\ UNCHANGED <<config, sender, secure, up, down, server>>
<1> DEFINE all == Append(mailbox, NoMail)
           n == Len(mailbox) + 1
           gone == n - Len(mailbox')
<1>1. /\ mailbox' = Trimmed(all)
      /\ evicted' = evicted \o SubSeq(all, 1, Len(all) - Len(mailbox'))
      /\ UNCHANGED <<config, sender, secure, up, down, server>>
  BY DEF Inbound
<1>2. mailbox \in Seq(Mails) /\ evicted \in Seq(Mails) /\ NoMail \in Mails
  BY DEF Typed, Mails
<1>3. MaxMailbox \in Nat \ {0}
  BY SmtpAssumption
<1>4. all \in Seq(Mails) /\ Len(all) = n /\ n \in Nat /\ n >= 1
  BY <1>2
<1> HIDE DEF n
<1>5. /\ mailbox' \in Seq(Mails) /\ Len(mailbox') \in 1..n
      /\ mailbox' = SubSeq(all, gone + 1, n)
      /\ Len(mailbox') = n \/ Len(mailbox') >= MaxMailbox
  <2>1. CASE n <= MaxMailbox
    <3>1. mailbox' = all
      BY <1>1, <1>4, <2>1 DEF Trimmed
    <3>2. gone = 0 /\ SubSeq(all, 1, n) = all
      <4>1. Len(mailbox') = n
        BY <1>4, <3>1
      <4>2. gone = 0
        BY <1>4, <4>1
      <4>3. SubSeq(all, 1, Len(all)) = all
        BY <1>4, SubSeqFull
      <4> QED  BY <1>4, <4>2, <4>3
    <3>3. mailbox' \in Seq(Mails) /\ Len(mailbox') = n /\ n \in 1..n /\ gone + 1 = 1
      BY <1>4, <3>1, <3>2
    <3> HIDE DEF gone, all
    <3> QED  BY <3>1, <3>2, <3>3
  <2>2. CASE ~(n <= MaxMailbox)
    <3>1. mailbox' = SubSeq(all, n - MaxMailbox + 1, n)
      BY <1>1, <1>4, <2>2 DEF Trimmed
    <3>2. SubSeq(all, n - MaxMailbox + 1, n) \in Seq(Mails)
          /\ Len(SubSeq(all, n - MaxMailbox + 1, n)) = MaxMailbox
      BY <1>3, <1>4, <2>2
    <3>3. gone = n - MaxMailbox
      BY <3>1, <3>2
    <3> HIDE DEF gone, all
    <3> QED  BY <1>3, <1>4, <2>2, <3>1, <3>2, <3>3
  <2> QED  BY <2>1, <2>2
<1> HIDE DEF all
<1>6. gone \in 0..(n - 1) /\ evicted' = evicted \o SubSeq(all, 1, gone)
  BY <1>1, <1>4, <1>5
<1> HIDE DEF gone
<1>7. SubSeq(all, 1, gone) \in Seq(Mails) /\ SubSeq(all, 1, gone) \o SubSeq(all, gone + 1, n) = all
  <2>1. n = Len(all) /\ gone \in 0..n
    BY <1>4, <1>6
  <2> QED  BY <1>4, <2>1, CutInTwo
<1>8. evicted' \in Seq(Mails)
  BY <1>2, <1>6, <1>7
<1>9. Arrived' = Append(Arrived, NoMail)
  <2> DEFINE old == SubSeq(all, 1, gone)
             young == SubSeq(all, gone + 1, n)
  <2>1. Arrived' = (evicted \o old) \o young
    BY <1>5, <1>6 DEF Arrived
  <2>2. evicted \in Seq(Mails) /\ old \in Seq(Mails) /\ young \in Seq(Mails) /\ old \o young = all
    BY <1>2, <1>5, <1>7
  <2> HIDE DEF old, young
  <2>3. Arrived' = evicted \o all
    <3>1. (evicted \o old) \o young = evicted \o (old \o young)
      <4>1. \A s, t, u \in Seq(Mails) : (s \o t) \o u = s \o (t \o u)
        BY ConcatAssociative
      <4>2. evicted \in Seq(Mails) /\ old \in Seq(Mails) /\ young \in Seq(Mails)
        BY <2>2
      <4> QED  BY <4>1, <4>2, Zenon
    <3> QED  BY <2>1, <2>2, <3>1
  <2>4. evicted \o Append(mailbox, NoMail) = Append(evicted \o mailbox, NoMail)
    BY <1>2
  <2> QED  BY <2>3, <2>4 DEF Arrived, all
<1>10. ASSUME LeaveFull, evicted' # <<>>  PROVE Len(mailbox') >= MaxMailbox
  <2>1. CASE Len(mailbox') = n
    <3>1. gone = 0
      BY <1>4, <2>1 DEF gone
    <3>2. evicted' = evicted
      <4>1. SubSeq(all, 1, 0) = <<>>
        BY SubSeqEmpty
      <4> QED  BY <1>2, <1>6, <3>1, <4>1, ConcatEmptySeq
    <3>3. Len(mailbox) >= MaxMailbox /\ Len(mailbox) \in Nat
      BY <1>2, <1>10, <3>2 DEF LeaveFull
    <3> QED  BY <1>3, <2>1, <3>3 DEF n
  <2> QED  BY <1>5, <2>1
<1>11. Typed'
  BY <1>1, <1>5, <1>8 DEF Typed
<1> QED  BY <1>1, <1>9, <1>10, <1>11 DEF LeaveFull

-----------------------------------------------------------------------------
\* The conversations.

LEMMA ArrivedTyped ==
  ASSUME Typed
  PROVE  /\ Arrived \in Seq(Mails) /\ Len(Arrived) = Len(evicted) + Len(mailbox)
         /\ Len(evicted) \in Nat /\ Len(mailbox) \in Nat
BY DEF Typed, Arrived

\* One more mail.
LEMMA OneMore ==
  ASSUME Typed, NEW m \in Mails, Arrived' = Append(Arrived, m)
  PROVE  /\ \A d \in Sends : Has(d)' <=> Has(d) \/ m = Sent(d)
         /\ Once /\ (m = NoMail \/ \A p \in DOMAIN Arrived : Arrived[p] # m) => Once'
<1> DEFINE n == Len(Arrived)
<1>1. /\ n \in Nat /\ DOMAIN Arrived = 1..n /\ DOMAIN Arrived' = 1..(n + 1)
      /\ Arrived'[n + 1] = m /\ \A p \in 1..n : Arrived'[p] = Arrived[p]
  <2>1. Arrived \in Seq(Mails)
    BY ArrivedTyped
  <2> HIDE DEF Arrived
  <2>2. /\ DOMAIN Append(Arrived, m) = 1..(n + 1) /\ Append(Arrived, m)[n + 1] = m
        /\ \A p \in 1..n : Append(Arrived, m)[p] = Arrived[p]
    BY <2>1
  <2> QED  BY <2>1, <2>2
<1> HIDE DEF n
<1>2. ASSUME NEW d \in Sends  PROVE Has(d)' <=> Has(d) \/ m = Sent(d)
  BY <1>1 DEF Has, Sent
<1>3. ASSUME Once, m = NoMail \/ \A p \in DOMAIN Arrived : Arrived[p] # m  PROVE Once'
  BY <1>1, <1>3 DEF Once
<1> QED  BY <1>2, <1>3

LEMMA TalkKept ==
  ASSUME NEW d \in Sends, Talk(d), UNCHANGED <<sender[d], up[d], down[d], server[d]>>, Has(d)' <=> Has(d)
  PROVE  Talk(d)'
<1>1. /\ Waiting(d)' = Waiting(d) /\ Closed(d)' = Closed(d) /\ Untouched(d)' = Untouched(d)
      /\ \A v : Single(d, v)' = Single(d, v)
  BY DEF Closed, Waiting, Untouched, Single
<1>2. Reading(d)' = Reading(d)
  BY DEF Reading
<1> QED  BY <1>1, <1>2 DEF Talk

\* What a step of one send leaves alone.
LEMMA TalksKept ==
  ASSUME Talks, NEW c \in Sends, Others(c), UNCHANGED config,
         \A d \in Sends \ {c} : Has(d)' <=> Has(d),
         config[c].server = "catcher" => Talk(c)',
         config[c].server # "catcher" => ~Has(c)'
  PROVE  Talks'
<1> SUFFICES ASSUME NEW d \in Sends
             PROVE  IF config[d].server = "catcher" THEN Talk(d)' ELSE ~Has(d)'
  BY DEF Talks
<1>1. CASE d = c
  BY <1>1
<1>2. CASE d # c
  <2>1. UNCHANGED <<sender[d], secure[d], up[d], down[d], server[d]>> /\ (Has(d)' <=> Has(d))
    BY <1>2 DEF Others
  <2>2. Talk(d) => Talk(d)'
    BY <2>1, TalkKept
  <2> QED  BY <2>1, <2>2 DEF Talks
<1> QED  BY <1>1, <1>2

\* The steps that bring no mail.
LEMMA NoneArrives ==
  ASSUME Talks, Once, LeaveFull, NEW c \in Sends, Others(c), UNCHANGED <<config, mailbox, evicted>>,
         config[c].server = "catcher" /\ Talk(c) /\ (Has(c)' <=> Has(c)) => Talk(c)'
  PROVE  Talks' /\ Once' /\ LeaveFull'
<1>1. Arrived' = Arrived
  BY DEF Arrived
<1>2. \A d \in Sends : Has(d)' <=> Has(d)
  BY <1>1 DEF Has
<1>3. Once' /\ LeaveFull'
  BY <1>1 DEF Once, LeaveFull
<1>4. Talks'
  BY <1>2, TalksKept DEF Talks
<1> QED  BY <1>3, <1>4

\* What Talk says of both ends while the client waits.
LEMMA Waits ==
  ASSUME Typed, NEW c \in Sends, Talk(c), Waiting(c)
  PROVE  /\ sender[c] \in Commands \cup {"greeting", "message"} /\ sender[c] \notin Ends
         /\ server[c].step \in {"commands", "data", "closed"}
         /\ down[c] # <<>> => Tail(down[c]) = <<>> /\ (up[c] = <<>> \/ Closed(c))
<1>1. sender[c] \in Commands \cup {"greeting", "message"} /\ sender[c] \notin Ends
      /\ sender[c] \notin {"new", "failed"}
  BY DEF Waiting, Expected, Commands, Ends
<1>2. server[c].step \in {"none", "commands", "data", "closed"}
  <2>1. server[c] \in Session
    BY DEF Typed
  <2> QED  BY <2>1 DEF Session
<1>3. server[c].step # "none"
  BY <1>1 DEF Talk
<1>4. ASSUME down[c] # <<>>  PROVE Tail(down[c]) = <<>> /\ (up[c] = <<>> \/ Closed(c))
  <2>1. down[c] \in Seq(Replies) /\ Len(down[c]) \in Nat /\ Len(down[c]) <= 1
    BY DEF Typed, Talk
  <2>2. Len(down[c]) # 0
    BY <1>4, <2>1, EmptySeq
  <2>3. Len(down[c]) = 1
    <3> DEFINE n == Len(down[c])
    <3>1. n \in Nat /\ n <= 1 /\ n # 0
      BY <2>1, <2>2
    <3> HIDE DEF n
    <3>2. n = 1
      BY <3>1
    <3> QED  BY <3>2 DEF n
  <2>4. Tail(down[c]) \in Seq(Replies) /\ Len(Tail(down[c])) = Len(down[c]) - 1
    BY <1>4, <2>1
  <2>5. Len(Tail(down[c])) = 0
    BY <2>3, <2>4
  <2> QED  BY <1>4, <2>4, <2>5, EmptySeq DEF Talk
<1> QED  BY <1>1, <1>2, <1>3, <1>4

LEMMA ReplyTalk ==
  ASSUME Typed, NEW c \in Sends, Talk(c), Has(c)' <=> Has(c), Reply(c)
  PROVE  Talk(c)'
<1>1. /\ Typed' /\ Waiting(c) /\ down[c] # <<>> /\ down'[c] = Tail(down[c]) /\ server'[c] = server[c]
      /\ \/ Goes(c, "failed", secure[c]) /\ sender[c] # "QUIT"
         \/ /\ Head(down[c]).code = Expected[sender[c]] \/ sender[c] = "QUIT"
            /\ \E offers : Goes(c, Following(c, offers), secure[c] \/ sender[c] = "STARTTLS")
  BY Replying
<1>2. /\ sender[c] \in Commands \cup {"greeting", "message"} /\ sender[c] \notin Ends
      /\ server[c].step \in {"commands", "data", "closed"}
      /\ down'[c] = <<>> /\ (up[c] = <<>> \/ Closed(c))
  BY <1>1, Waits
<1>3. ASSUME server[c].step = "data"
      PROVE  sender[c] = "DATA" /\ up[c] = <<>> /\ server[c].data = <<>>
  BY <1>2, <1>3 DEF Talk, Untouched, Reading, Closed
<1>4. ASSUME server[c].step = "commands"  PROVE up[c] = <<>> /\ server[c].data = <<>>
  BY <1>2, <1>4 DEF Talk, Closed
<1>5. ASSUME sender'[c] \in Ends, up'[c] = up[c], sender'[c] = "ok" => sender[c] = "QUIT"
      PROVE  Talk(c)'
  <2>1. sender'[c] \notin {"new", "greeting", "DATA", "message", "QUIT"} /\ ~Waiting(c)'
    BY <1>5 DEF Ends, Waiting, Expected
  <2>2. sender'[c] = "ok" => Has(c)
    BY <1>5 DEF Talk
  <2> QED  BY <1>1, <1>2, <1>3, <1>4, <1>5, <2>1, <2>2 DEF Talk
<1>6. CASE Goes(c, "failed", secure[c])
  <2>1. "failed" \in Ends
    BY DEF Ends
  <2> QED  BY <1>5, <1>6, <2>1 DEF Goes
<1>7. ASSUME NEW offers, Goes(c, Following(c, offers), secure[c] \/ sender[c] = "STARTTLS"),
             Head(down[c]).code = Expected[sender[c]] \/ sender[c] = "QUIT"
      PROVE  Talk(c)'
  <2> DEFINE next == Following(c, offers)
             tls == secure[c] \/ sender[c] = "STARTTLS"
  <2>1. /\ next \in Stages /\ tls \in BOOLEAN
        /\ next = "message" => sender[c] = "DATA"
        /\ next = "QUIT" => sender[c] = "message"
        /\ next = "ok" => sender[c] = "QUIT"
        /\ sender[c] = "QUIT" => next = "ok"
        /\ sender[c] = "message" => next = "QUIT"
        /\ sender[c] = "DATA" => next = "message"
    BY <1>1, Follows DEF Typed
  <2>2. sender'[c] = next /\ IF next \in Ends THEN up'[c] = up[c] ELSE up'[c] = up[c] \o Lines(c, next, tls)
    BY <1>7 DEF Goes
  <2> HIDE DEF next, tls
  <2>3. up[c] \in Seq(Packet)
    BY DEF Typed
  <2>4. CASE next \in Ends
    BY <1>5, <2>1, <2>2, <2>4
  <2>5. CASE next = "message"
    <3>1. sender[c] = "DATA" /\ next \notin Ends
      BY <2>1, <2>5 DEF Ends
    <3>2. Head(down[c]).code = 354
      BY <1>7, <3>1 DEF Expected
    <3>3. server[c].step \in {"data", "closed"} /\ ~Has(c)
      BY <1>1, <3>1, <3>2 DEF Talk, Ends
    <3>4. ASSUME server[c].step = "data"  PROVE Reading(c)'
      <4>1. up[c] = <<>> /\ server[c].data = <<>>
        BY <1>3, <3>4
      <4>2. /\ Lines(c, next, tls) \in Seq(Packet) /\ Len(Lines(c, next, tls)) = Len(Message(c))
            /\ \A k \in 1..Len(Message(c)) : Lines(c, next, tls)[k] = [text |-> Message(c)[k]]
        BY <2>1, <2>5, LinesTyped
      <4>3. <<>> \o Lines(c, next, tls) = Lines(c, next, tls)
        BY <4>2, ConcatEmptySeq
      <4>4. up'[c] = Lines(c, next, tls)
        BY <2>2, <3>1, <4>1, <4>3
      <4>5. Len(Message(c)) \in Nat /\ Len(Message(c)) # 0
        <5>1. Len(Plain(c)) \in Nat /\ Len(Message(c)) = Len(Plain(c)) + 1
          BY MessageLines, LenProperties
        <5> QED  BY <5>1
      <4>6. Len(server'[c].data) = 0 /\ \A j \in 1..Len(up'[c]) : 0 + j = j
        BY <1>1, <4>1, <4>2, <4>4, <4>5
      <4>7. up'[c] # <<>>
        BY <4>2, <4>4, <4>5
      <4>8. Len(server'[c].data) + Len(up'[c]) = Len(Message(c))
        BY <4>2, <4>4, <4>5, <4>6
      <4>9. \A j \in 1..Len(up'[c]) : up'[c][j].text = Message(c)[Len(server'[c].data) + j]
        <5> SUFFICES ASSUME NEW j \in 1..Len(Message(c))
                     PROVE  up'[c][j].text = Message(c)[0 + j]
          BY <4>2, <4>4, <4>6
        <5>1. 0 + j = j
          BY <4>5
        <5>2. up'[c][j] = [text |-> Message(c)[j]]
          BY <4>2, <4>4
        <5> QED  BY <5>1, <5>2
      <4>10. \A j \in 1..Len(server'[c].data) : server'[c].data[j] = Plain(c)[j]
        BY <4>6
      <4> QED  BY <4>7, <4>8, <4>9, <4>10 DEF Reading
    <3>5. ~Has(c)' /\ sender'[c] = "message"
      BY <2>2, <2>5, <3>3
    <3> QED  BY <1>1, <1>2, <3>3, <3>4, <3>5, EmptySeq DEF Talk, Closed, Ends
  <2>6. CASE next \in Commands
    <3>1. next \notin Ends /\ next \notin {"message", "greeting", "new"}
      BY <2>6 DEF Commands, Ends
    <3>2. server[c].step # "data"
      BY <1>3, <2>1, <3>1
    <3>3. ASSUME server[c].step = "commands"  PROVE Len(up'[c]) = 1 /\ up'[c][1].verb = next
      <4>1. up[c] = <<>>
        BY <1>4, <3>3
      <4>2. Lines(c, next, tls) = <<[verb |-> next, secure |-> tls]>>
        BY <2>1, <2>6, <3>1, LinesTyped
      <4>3. <<>> \o <<[verb |-> next, secure |-> tls]>> = <<[verb |-> next, secure |-> tls]>>
        OBVIOUS
      <4>4. up'[c] = <<[verb |-> next, secure |-> tls]>>
        BY <2>2, <3>1, <4>1, <4>2, <4>3
      <4> DEFINE packet == [verb |-> next, secure |-> tls]
      <4>5. packet.verb = next
        OBVIOUS
      <4> HIDE DEF packet
      <4>6. Len(<<packet>>) = 1 /\ <<packet>>[1] = packet
        OBVIOUS
      <4>7. up'[c] = <<packet>>
        BY <4>4 DEF packet
      <4> QED  BY <4>5, <4>6, <4>7
    <3>4. Has(c) => next = "QUIT"
      BY <1>2, <2>1, <3>1 DEF Talk, Ends
    <3>5. next = "QUIT" => Has(c)
      BY <1>1, <2>1 DEF Talk
    <3>6. Len(down'[c]) = 0
      BY <1>2
    <3>7. ASSUME server'[c].step = "commands"
          PROVE  server'[c].data = <<>> /\ \E v \in Commands : Single(c, v)' /\ sender'[c] \in Ends \cup {v}
      <4>1. server[c].step = "commands" /\ server'[c].data = <<>>
        BY <1>1, <1>4, <3>7
      <4>2. next \in Commands /\ Len(up'[c]) = 1 /\ up'[c][1].verb = next /\ sender'[c] = next
        BY <2>2, <2>6, <3>3, <4>1
      <4> QED  BY <4>1, <4>2 DEF Single
    <3>8. server'[c].step \notin {"none", "data"}
      BY <1>1, <1>2, <3>2
    <3>9. sender'[c] \notin {"new", "greeting", "message", "ok"}
      BY <2>2, <3>1 DEF Ends
    <3> QED  BY <1>2, <2>2, <3>4, <3>5, <3>6, <3>7, <3>8, <3>9 DEF Talk
  <2> QED  BY <2>1, <2>4, <2>5, <2>6 DEF Stages
<1> QED  BY <1>1, <1>6, <1>7

LEMMA ConnectTalk ==
  ASSUME Typed, NEW c \in Sends, Talk(c), Has(c)' <=> Has(c), Connect(c)
  PROVE  Talk(c)'
<1>1. /\ sender[c] = "new" /\ up'[c] = up[c]
      /\ \/ sender'[c] = "failed" /\ server'[c] = server[c] /\ down'[c] = down[c]
         \/ sender'[c] = "greeting" /\ server'[c] = NoSession /\ Len(down'[c]) = 1
  BY Connecting
<1>2. server[c].step = "none" /\ up[c] = <<>> /\ down[c] = <<>> /\ ~Has(c)
  BY <1>1 DEF Talk, Ends
<1>3. CASE sender'[c] = "failed" /\ server'[c] = server[c] /\ down'[c] = down[c]
  BY <1>1, <1>2, <1>3 DEF Talk, Waiting, Expected
<1>4. CASE sender'[c] = "greeting" /\ server'[c] = NoSession /\ Len(down'[c]) = 1
  <2>1. server'[c].step = "commands" /\ server'[c].data = <<>>
    BY <1>4 DEF NoSession
  <2> QED  BY <1>1, <1>2, <1>4, <2>1 DEF Talk
<1> QED  BY <1>1, <1>3, <1>4

LEMMA EofTalk ==
  ASSUME Typed, NEW c \in Sends, Talk(c), Has(c)' <=> Has(c), Eof(c)
  PROVE  Talk(c)'
<1>1. /\ Waiting(c) /\ Closed(c) /\ up'[c] = up[c] /\ down'[c] = down[c] /\ server'[c] = server[c]
      /\ sender'[c] = IF sender[c] = "QUIT" THEN "ok" ELSE "failed"
  BY Ending
<1>2. sender'[c] = "ok" => Has(c)
  BY <1>1 DEF Talk
<1>3. sender'[c] \in Ends /\ ~Waiting(c)' /\ server'[c].step = "closed"
  BY <1>1 DEF Closed, Waiting, Ends, Expected
<1>4. sender'[c] \notin {"new", "greeting", "DATA", "message", "QUIT"}
  BY <1>1
<1> QED  BY <1>2, <1>3, <1>4 DEF Talk

LEMMA DropTalk ==
  ASSUME Typed, NEW c \in Sends, Talk(c), Has(c)' <=> Has(c), Drop(c)
  PROVE  Talk(c)'
<1>1. /\ Waiting(c) /\ sender'[c] = "dropped" /\ up'[c] \in {up[c], <<>>}
      /\ down'[c] = down[c] /\ server'[c] = server[c]
  BY Dropping
<1>2. sender'[c] \in Ends /\ ~Waiting(c)' /\ server[c].step # "none"
  BY <1>1, Waits DEF Waiting, Ends, Expected
<1>3. CASE up'[c] = <<>>
  BY <1>1, <1>2, <1>3 DEF Talk
<1>4. CASE up'[c] = up[c]
  <2>1. Reading(c) => Reading(c)'
    BY <1>1, <1>4 DEF Reading
  <2>2. \A v : Single(c, v) => Single(c, v)'
    BY <1>4 DEF Single
  <2> QED  BY <1>1, <1>2, <1>4, <2>1, <2>2 DEF Talk, Untouched
<1> QED  BY <1>1, <1>3, <1>4

LEMMA CommandTalk ==
  ASSUME Typed, NEW c \in Sends, Talk(c), Has(c)' <=> Has(c), Command(c)
  PROVE  Talk(c)'
<1> DEFINE verb == Head(up[c]).verb
           reply == [code |-> Answer(server[c], verb), offers |-> {}]
<1>1. /\ server[c].step = "commands" /\ up[c] # <<>> /\ up'[c] = Tail(up[c])
      /\ server'[c] = After(server[c], verb, c) /\ down'[c] = Append(down[c], reply)
      /\ sender'[c] = sender[c]
  BY Commanding
<1>2. /\ server[c] \in Session /\ up[c] \in Seq(Packet) /\ down[c] \in Seq(Replies)
  BY DEF Typed
<1>3. /\ Len(up[c]) = 1 /\ verb \in Commands /\ sender[c] \in Ends \cup {verb}
      /\ server[c].data = <<>>
  <2>1. PICK v \in Commands : Single(c, v) /\ sender[c] \in Ends \cup {v}
    BY <1>1 DEF Talk
  <2>2. Head(up[c]) = up[c][1]
    BY <1>1, <1>2
  <2> QED  BY <1>1, <2>1, <2>2 DEF Single, Talk
<1>4. up'[c] = <<>>
  <2>1. Tail(up[c]) \in Seq(Packet) /\ Len(Tail(up[c])) = Len(up[c]) - 1
    BY <1>1, <1>2
  <2>2. Len(Tail(up[c])) = 0
    BY <1>3, <2>1
  <2> QED  BY <1>1, <2>1, <2>2, EmptySeq
<1>5. Waiting(c) => down[c] = <<>>
  BY <1>1 DEF Talk, Closed
<1>6. Waiting(c) => Len(down'[c]) = 1 /\ Head(down'[c]).code = Answer(server[c], verb)
  <2> SUFFICES ASSUME Waiting(c)
               PROVE  Len(down'[c]) = 1 /\ Head(down'[c]).code = Answer(server[c], verb)
    OBVIOUS
  <2> HIDE DEF reply
  <2>0. Append(<<>>, reply) = <<reply>>
    OBVIOUS
  <2>1. down'[c] = <<reply>>
    BY <1>1, <1>5, <2>0
  <2>2. Len(down'[c]) = 1 /\ Head(down'[c]) = reply
    BY <2>1
  <2> QED  BY <2>2 DEF reply
<1> HIDE DEF verb, reply
<1>7. /\ server'[c].data = <<>>
      /\ server'[c].step \in {"commands", "data", "closed"}
      /\ server'[c].step = "data" => verb = "DATA"
      /\ Answer(server[c], verb) = 354 => server'[c].step = "data"
  <2>1. CASE verb = "DATA" /\ Answer(server[c], verb) = 354
    <3>1. After(server[c], verb, c) = [server[c] EXCEPT !.step = "data"]
      BY <2>1 DEF After
    <3> QED  BY <1>1, <1>2, <1>3, <2>1, <3>1 DEF Session
  <2>2. CASE ~(verb = "DATA" /\ Answer(server[c], verb) = 354)
    <3>1. Answer(server[c], verb) # 354
      BY <2>2 DEF Answer
    <3>2. After(server[c], verb, c).data = <<>> /\ After(server[c], verb, c).step \in {"commands", "closed"}
      BY <1>1, <1>2, <1>3, <2>2 DEF After, Session
    <3> QED  BY <1>1, <3>1, <3>2
  <2> QED  BY <2>1, <2>2
<1>8. Waiting(c)' => Waiting(c)
  BY <1>1 DEF Waiting
<1>9. sender[c] # "message" /\ sender[c] # "new" /\ sender[c] # "greeting"
  BY <1>3 DEF Commands, Ends
<1>10. server'[c].step = "data" =>
         \/ sender'[c] = "DATA" /\ Untouched(c)'
         \/ sender'[c] \in Ends /\ up'[c] = <<>>
  BY <1>1, <1>3, <1>4, <1>7 DEF Untouched
<1>11. sender[c] = "DATA" => Waiting(c)
  BY DEF Waiting, Expected
<1>12. sender'[c] = "DATA" /\ Head(down'[c]).code = 354 => server'[c].step \in {"data", "closed"}
  BY <1>1, <1>6, <1>7, <1>11
<1>13. Waiting(c)' => Len(down'[c]) <= 1
  BY <1>1, <1>6 DEF Waiting
<1>14. /\ server'[c].step # "none" /\ sender'[c] \notin {"new", "greeting", "message"}
       /\ Has(c)' => sender'[c] \in Ends \cup {"message", "QUIT"}
       /\ sender'[c] \in {"QUIT", "ok"} => Has(c)'
  BY <1>1, <1>7, <1>9 DEF Talk
<1> QED  BY <1>4, <1>7, <1>10, <1>12, <1>13, <1>14 DEF Talk

LEMMA HangupTalk ==
  ASSUME Typed, NEW c \in Sends, Talk(c), Has(c)' <=> Has(c), Hangup(c)
  PROVE  Talk(c)'
<1>1. /\ sender[c] \in Ends /\ server'[c].step = "closed" /\ sender'[c] = sender[c]
  BY HangingUp DEF Closed
<1>2. ~Waiting(c)' /\ sender'[c] \notin {"new", "greeting", "DATA", "message"}
  BY <1>1 DEF Waiting, Ends, Expected
<1> QED  BY <1>1, <1>2 DEF Talk

LEMMA CutTalk ==
  ASSUME Typed, NEW c \in Sends, Talk(c), Has(c)' <=> Has(c), Cut(c)
  PROVE  Talk(c)'
<1>1. /\ server'[c].step = "closed" /\ server[c].step # "none" /\ up'[c] = <<>>
      /\ down'[c] \in {down[c], <<>>} /\ sender'[c] = sender[c]
  BY Cutting DEF Closed
<1>2. Waiting(c)' = Waiting(c) /\ sender[c] # "new"
  BY <1>1 DEF Waiting, Talk
<1>3. Len(<<>>) = 0
  OBVIOUS
<1>4. Waiting(c) => Len(down'[c]) <= 1
  BY <1>1, <1>3 DEF Talk
<1>5. sender[c] = "message" /\ down'[c] # <<>> => Has(c)
  BY <1>1 DEF Talk
<1> QED  BY <1>1, <1>2, <1>4, <1>5 DEF Talk

\* A line of the message is read.
LEMMA DataTalk ==
  ASSUME IInv, NEW c \in Sends, Data(c)
  PROVE  IInv'
<1> USE DEF IInv
<1>1. config[c].server = "catcher" /\ server[c].step = "data" /\ up[c] # <<>>
  BY DEF Data, Serving
<1>2. Talk(c)
  BY <1>1 DEF Talks
<1>3. sender[c] \in Ends \cup {"message"} /\ ~Has(c) /\ Reading(c)
  BY <1>1, <1>2 DEF Talk, Untouched
<1>4. /\ Typed' /\ Others(c)
      /\ \/ /\ mailbox' = Append(mailbox, Sent(c)) /\ up'[c] = <<>>
            /\ server'[c] = NoSession /\ Len(down'[c]) = Len(down[c]) + 1
         \/ /\ UNCHANGED <<mailbox, down[c]>>
            /\ server'[c].step = "data" /\ Reading(c)'
      /\ UNCHANGED <<sender[c], secure[c], config, evicted>>
  BY <1>3, ReadingOn
<1>5. Waiting(c)' = Waiting(c) /\ sender[c] \notin {"new", "greeting", "DATA", "QUIT", "ok"}
  <2>1. sender[c] # "ok"
    BY <1>2, <1>3 DEF Talk
  <2> QED  BY <1>3, <1>4, <2>1 DEF Waiting, Ends
<1>6. Waiting(c) => down[c] = <<>>
  BY <1>1, <1>2 DEF Talk, Closed
<1>7. CASE /\ mailbox' = Append(mailbox, Sent(c)) /\ up'[c] = <<>>
           /\ server'[c] = NoSession /\ Len(down'[c]) = Len(down[c]) + 1
  <2>1. Sent(c) \in Mails
    BY DEF Mails
  <2>2. mailbox \in Seq(Mails) /\ evicted \in Seq(Mails)
    BY DEF Typed
  <2>3. Arrived' = Append(Arrived, Sent(c))
    <3>1. evicted \o Append(mailbox, Sent(c)) = Append(evicted \o mailbox, Sent(c))
      BY <2>1, <2>2
    <3> QED  BY <1>4, <1>7, <3>1 DEF Arrived
  <2>4. \A d \in Sends : Has(d)' <=> Has(d) \/ Sent(c) = Sent(d)
    BY <2>1, <2>3, OneMore
  <2>5. Once'
    BY <1>3, <2>1, <2>3, OneMore DEF Has
  <2>6. LeaveFull'
    <3>1. Len(mailbox') = Len(mailbox) + 1 /\ Len(mailbox) \in Nat
      BY <1>7, <2>1, <2>2
    <3>2. MaxMailbox \in Nat
      BY SmtpAssumption
    <3> QED  BY <1>4, <3>1, <3>2 DEF LeaveFull
  <2>7. \A d \in Sends \ {c} : Has(d)' <=> Has(d)
    BY <2>4 DEF Sent
  <2>8. Talk(c)'
    <3>1. server'[c].step = "commands" /\ server'[c].data = <<>>
      BY <1>7 DEF NoSession
    <3>2. Has(c)'
      BY <2>4
    <3>3. Len(<<>>) = 0
      OBVIOUS
    <3>4. Waiting(c)' => Len(down'[c]) <= 1
      BY <1>5, <1>6, <1>7, <3>3
    <3> QED  BY <1>3, <1>4, <1>5, <1>7, <3>1, <3>2, <3>4 DEF Talk
  <2> QED  BY <1>1, <1>4, <2>5, <2>6, <2>7, <2>8, TalksKept
<1>8. CASE /\ UNCHANGED <<mailbox, down[c]>>
           /\ server'[c].step = "data" /\ Reading(c)'
  <2>1. Has(c)' <=> Has(c)
    BY <1>4, <1>8 DEF Has, Arrived
  <2>2. Talk(c)'
    BY <1>2, <1>3, <1>4, <1>5, <1>6, <1>8, <2>1 DEF Talk
  <2> QED  BY <1>1, <1>4, <1>8, <2>2, NoneArrives
<1> QED  BY <1>4, <1>7, <1>8

LEMMA InitInv == MailInit => IInv
<1> SUFFICES ASSUME MailInit  PROVE IInv
  OBVIOUS
<1>1. Typed
  <2>1. [NoSession EXCEPT !.step = "none"] \in Session
    <3>1. NoSession \in Session
      BY DEF NoSession, Session
    <3> QED  BY <3>1 DEF Session
  <2>2. config \in [Sends -> Config]
    BY SmtpAssumption DEF MailInit
  <2>3. <<>> \in Seq(Packet) /\ <<>> \in Seq(Replies) /\ <<>> \in Seq(Mails)
    OBVIOUS
  <2> QED  BY <2>1, <2>2, <2>3 DEF MailInit, Typed
<1>2. DOMAIN Arrived = {}
  BY DEF MailInit, Arrived
<1>3. \A c \in Sends : ~Has(c)
  BY <1>2 DEF Has
<1>4. ASSUME NEW c \in Sends  PROVE Talk(c)
  <2>1. sender[c] = "new" /\ server[c].step = "none" /\ up[c] = <<>> /\ down[c] = <<>>
    BY DEF MailInit, NoSession
  <2> QED  BY <1>3, <2>1 DEF Talk, Waiting, Expected
<1> QED  BY <1>1, <1>2, <1>3, <1>4 DEF IInv, Talks, Once, LeaveFull, MailInit

\* Whatever is done, the invariant stands.
LEMMA NextInv ==
  ASSUME IInv, [MailNext]_mail_vars
  PROVE  IInv'
<1>1. Typed /\ Talks /\ Once /\ LeaveFull
  BY DEF IInv
<1>2. CASE UNCHANGED mail_vars
  <2>1. /\ UNCHANGED <<config, sender, secure, up, down, server, mailbox, evicted>>
    BY <1>2 DEF mail_vars
  <2>2. Typed' /\ Arrived' = Arrived /\ LeaveFull'
    BY <1>1, <2>1 DEF Typed, Arrived, LeaveFull
  <2>3. Once' /\ \A c \in Sends : Has(c)' <=> Has(c)
    BY <1>1, <2>2 DEF Once, Has
  <2>4. \A c \in Sends : Talk(c) => Talk(c)'
    BY <2>1, <2>3, TalkKept
  <2>5. Talks'
    BY <1>1, <2>1, <2>3, <2>4 DEF Talks
  <2> QED  BY <2>2, <2>3, <2>5 DEF IInv
<1>3. CASE Inbound
  <2>1. Typed' /\ Arrived' = Append(Arrived, NoMail) /\ LeaveFull'
        /\ UNCHANGED <<config, sender, secure, up, down, server>>
    BY <1>1, <1>3, HandedIn
  <2>2. NoMail \in Mails /\ \A c \in Sends : NoMail # Sent(c)
    BY SmtpAssumption DEF Mails, Sent
  <2>3. Once' /\ \A c \in Sends : Has(c)' <=> Has(c)
    BY <1>1, <2>1, <2>2, OneMore
  <2>4. \A c \in Sends : Talk(c) => Talk(c)'
    BY <2>1, <2>3, TalkKept
  <2>5. Talks'
    BY <1>1, <2>1, <2>3, <2>4 DEF Talks
  <2> QED  BY <2>1, <2>3, <2>5 DEF IInv
<1>4. ASSUME NEW c \in Sends, Typed', Others(c), UNCHANGED <<config, mailbox, evicted>>,
             config[c].server = "catcher" /\ Talk(c) /\ (Has(c)' <=> Has(c)) => Talk(c)'
      PROVE  IInv'
  BY <1>1, <1>4, NoneArrives DEF IInv
<1>5. ASSUME NEW c \in Sends, Connect(c)  PROVE IInv'
  BY <1>1, <1>4, <1>5, Connecting, ConnectTalk
<1>6. ASSUME NEW c \in Sends, Reply(c)  PROVE IInv'
  BY <1>1, <1>4, <1>6, Replying, ReplyTalk
<1>7. ASSUME NEW c \in Sends, Eof(c)  PROVE IInv'
  BY <1>1, <1>4, <1>7, Ending, EofTalk
<1>8. ASSUME NEW c \in Sends, Drop(c)  PROVE IInv'
  BY <1>1, <1>4, <1>8, Dropping, DropTalk
<1>9. ASSUME NEW c \in Sends, Command(c)  PROVE IInv'
  BY <1>1, <1>4, <1>9, Commanding, CommandTalk
<1>10. ASSUME NEW c \in Sends, Data(c)  PROVE IInv'
  BY <1>10, DataTalk
<1>11. ASSUME NEW c \in Sends, Hangup(c)  PROVE IInv'
  BY <1>1, <1>4, <1>11, HangingUp, HangupTalk
<1>12. ASSUME NEW c \in Sends, Relay(c)  PROVE IInv'
  <2>1. config[c].server # "catcher"
    BY <1>1, <1>12, Relaying
  <2> QED  BY <1>1, <1>4, <1>12, <2>1, Relaying
<1>13. ASSUME NEW c \in Sends, Cut(c)  PROVE IInv'
  BY <1>1, <1>4, <1>13, Cutting, CutTalk
<1> QED  BY <1>2, <1>3, <1>5, <1>6, <1>7, <1>8, <1>9, <1>10, <1>11, <1>12, <1>13
         DEF MailNext, Client, Catcher

\* In an invariant state the property of the runs holds.
LEMMA IsDelivered ==
  ASSUME IInv
  PROVE  Delivered
<1> DEFINE Places(c) == {p \in DOMAIN Arrived : Arrived[p] # NoMail /\ Arrived[p].from = c}
<1>1. /\ Typed /\ Talks /\ Once /\ LeaveFull
      /\ Arrived \in Seq(Mails) /\ Len(Arrived) = Len(evicted) + Len(mailbox)
      /\ Len(evicted) \in Nat /\ Len(mailbox) \in Nat /\ DOMAIN Arrived = 1..Len(Arrived)
  BY ArrivedTyped, LenProperties DEF IInv
<1>2. \A c \in Sends : Sent(c) # NoMail /\ Sent(c).from = c
  BY SmtpAssumption DEF Sent
<1>3. ASSUME NEW c \in Sends, NEW p \in Places(c)  PROVE Arrived[p] = Sent(c)
  <2>1. Arrived[p] \in Mails
    BY <1>1, <1>3, ElementOfSeq
  <2>2. PICK d \in Sends : Arrived[p] = Sent(d)
    BY <1>3, <2>1 DEF Mails
  <2>3. d = c
    BY <1>2, <1>3, <2>2
  <2> QED  BY <2>2, <2>3
<1>4. ASSUME NEW c \in Sends, NEW p \in Places(c)  PROVE Places(c) = {p}
  <2>1. ASSUME NEW q \in Places(c)  PROVE q = p
    BY <1>1, <1>3, <1>4, <2>1 DEF Once
  <2> QED  BY <1>4, <2>1
<1>5. ASSUME NEW c \in Sends, sender[c] = "ok", config[c].server = "catcher"
      PROVE  \E p \in Places(c) : p > Len(evicted) \/ Len(Arrived) - p >= MaxMailbox
  <2>1. PICK p \in DOMAIN Arrived : Arrived[p] = Sent(c)
    BY <1>1, <1>5 DEF Talks, Talk, Has
  <2>2. p \in Places(c) /\ p \in 1..Len(Arrived)
    BY <1>1, <1>2, <2>1
  <2>3. CASE p > Len(evicted)
    BY <2>2, <2>3
  <2>4. CASE p <= Len(evicted)
    <3>1. evicted # <<>>
      BY <1>1, <2>2, <2>4, EmptySeq
    <3>2. Len(mailbox) >= MaxMailbox /\ MaxMailbox \in Nat
      BY <1>1, <3>1, SmtpAssumption DEF LeaveFull
    <3> HIDE DEF Places
    <3>3. Len(Arrived) - p >= MaxMailbox
      BY <1>1, <2>2, <2>4, <3>2
    <3> QED  BY <2>2, <3>3
  <2> QED  BY <1>1, <2>2, <2>3, <2>4
<1> QED  BY <1>3, <1>4, <1>5 DEF Delivered, Arrived

\* Delivered, for any sends, texts, servers and failures: a mail reported as sent to the
\* catcher is in its mailbox once and unchanged, or as many as it holds came after it.
THEOREM AlwaysDelivered == MailSpec => []Delivered
<1>1. MailInit => IInv
  BY InitInv
<1>2. IInv /\ [MailNext]_mail_vars => IInv'
  BY NextInv
<1>3. IInv => Delivered
  BY IsDelivered
<1> QED  BY <1>1, <1>2, <1>3, PTL DEF MailSpec
-----------------------------------------------------------------------------
\* Credentials.

\* A name or a password among these lines is under TLS.
Safe(lines) ==
  \A k \in DOMAIN lines :
    "verb" \in DOMAIN lines[k] /\ lines[k].verb \in {"user", "password"} => lines[k].secure

\* Who has credentials upgrades first, or does not authenticate; and the server takes
\* no message from nobody.
Sealed(c) ==
  /\ Waiting(c) /\ config[c].credentials => config[c].starttls
  /\ sender[c] \in {"AUTH", "user", "password"} => secure[c]
  /\ secure[c] \/ sender[c] = "STARTTLS" => config[c].starttls
  /\ Safe(up[c])
  /\ server[c].step = "data" => server[c].from # NoMail

LEMMA SafeJoined ==
  ASSUME NEW s \in Seq(Packet), NEW t \in Seq(Packet), Safe(s), Safe(t)
  PROVE  Safe(s \o t)
<1>1. \A i \in DOMAIN (s \o t) :
        (i \in DOMAIN s /\ (s \o t)[i] = s[i]) \/ (\E j \in DOMAIN t : (s \o t)[i] = t[j])
  <2>1. /\ Len(s) \in Nat /\ Len(t) \in Nat /\ DOMAIN s = 1..Len(s) /\ DOMAIN t = 1..Len(t)
    OBVIOUS
  <2>2. /\ s \o t \in Seq(Packet) /\ Len(s \o t) = Len(s) + Len(t)
        /\ \A i \in 1..Len(s) : (s \o t)[i] = s[i]
        /\ \A i \in 1..Len(t) : (s \o t)[Len(s) + i] = t[i]
    BY Joined
  <2>3. DOMAIN (s \o t) = 1..(Len(s) + Len(t))
    BY <2>1, <2>2, LenProperties
  <2>4. ASSUME NEW i \in 1..(Len(s) + Len(t)), i \notin 1..Len(s)
        PROVE  i - Len(s) \in 1..Len(t) /\ (s \o t)[i] = t[i - Len(s)]
    <3>1. i - Len(s) \in 1..Len(t) /\ Len(s) + (i - Len(s)) = i
      BY <2>1, <2>4
    <3> QED  BY <2>2, <3>1
  <2> QED  BY <2>1, <2>2, <2>3, <2>4
<1> QED  BY <1>1 DEF Safe

LEMMA SafeTail ==
  ASSUME NEW s \in Seq(Packet), s # <<>>, Safe(s)
  PROVE  Safe(Tail(s))
<1>1. \A i \in DOMAIN Tail(s) : (i + 1) \in DOMAIN s /\ Tail(s)[i] = s[i + 1]
  OBVIOUS
<1> QED  BY <1>1 DEF Safe

\* What is sent when the client goes on.
LEMMA SafeLines ==
  ASSUME NEW c \in Sends, NEW step \in Commands \cup {"message"}, NEW tls \in BOOLEAN,
         step \in {"user", "password"} => tls
  PROVE  Safe(Lines(c, step, tls))
<1>1. CASE step = "message"
  <2>1. /\ Lines(c, step, tls) \in Seq(Packet) /\ Len(Lines(c, step, tls)) = Len(Message(c))
        /\ \A k \in 1..Len(Message(c)) : Lines(c, step, tls)[k] = [text |-> Message(c)[k]]
    BY <1>1, LinesTyped
  <2>2. \A k \in DOMAIN Lines(c, step, tls) : Lines(c, step, tls)[k] = [text |-> Message(c)[k]]
    BY <2>1, LenProperties
  <2>3. \A k : "verb" \notin DOMAIN [text |-> Message(c)[k]]
    OBVIOUS
  <2> QED  BY <2>2, <2>3 DEF Safe
<1>2. CASE step # "message"
  <2> DEFINE packet == [verb |-> step, secure |-> tls]
  <2>1. Lines(c, step, tls) = <<packet>>
    BY <1>2, LinesTyped
  <2>2. packet.verb = step /\ packet.secure = tls
    OBVIOUS
  <2> HIDE DEF packet
  <2>3. \A k \in DOMAIN <<packet>> : <<packet>>[k] = packet
    OBVIOUS
  <2> QED  BY <2>1, <2>2, <2>3 DEF Safe
<1> QED  BY <1>1, <1>2

LEMMA NothingSafe == Safe(<<>>)
BY DEF Safe

\* The client goes on: to names and passwords only under TLS.
LEMMA GoingSealed ==
  ASSUME Typed, NEW c \in Sends, Sealed(c), Waiting(c),
         NEW step \in Stages, NEW tls \in BOOLEAN, Goes(c, step, tls),
         UNCHANGED <<config, server[c]>>,
         step \in {"AUTH", "user", "password"} => tls,
         tls \/ step = "STARTTLS" => config[c].starttls
  PROVE  Sealed(c)'
<1>1. Safe(up'[c])
  <2>1. CASE step \in Ends
    BY <2>1 DEF Goes, Sealed
  <2>2. CASE step \notin Ends
    <3>1. Safe(Lines(c, step, tls)) /\ Lines(c, step, tls) \in Seq(Packet)
      BY <2>2, SafeLines, LinesTyped DEF Stages
    <3>2. up[c] \in Seq(Packet) /\ Safe(up[c])
      BY DEF Typed, Sealed
    <3>3. Safe(up[c] \o Lines(c, step, tls))
      BY <3>1, <3>2, SafeJoined
    <3> QED  BY <2>2, <3>3 DEF Goes
  <2> QED  BY <2>1, <2>2
<1>2. /\ config[c].credentials => config[c].starttls
      /\ server[c].step = "data" => server[c].from # NoMail
  BY DEF Sealed
<1>3. sender'[c] = step /\ secure'[c] = tls
  BY DEF Goes
<1> QED  BY <1>1, <1>2, <1>3 DEF Sealed

LEMMA ReplySealed ==
  ASSUME Typed, NEW c \in Sends, Sealed(c), Reply(c)
  PROVE  Sealed(c)'
<1>1. /\ Waiting(c) /\ server'[c] = server[c] /\ UNCHANGED config
      /\ \/ Goes(c, "failed", secure[c])
         \/ \E offers : Goes(c, Following(c, offers), secure[c] \/ sender[c] = "STARTTLS")
  BY Replying
<1>2. secure[c] \in BOOLEAN /\ "failed" \in Stages
  BY DEF Typed, Stages, Ends
<1>3. CASE Goes(c, "failed", secure[c])
  <2>1. secure[c] => config[c].starttls
    BY DEF Sealed
  <2> QED  BY <1>1, <1>2, <1>3, <2>1, GoingSealed
<1>4. ASSUME NEW offers, Goes(c, Following(c, offers), secure[c] \/ sender[c] = "STARTTLS")
      PROVE  Sealed(c)'
  <2> DEFINE next == Following(c, offers)
             tls == secure[c] \/ sender[c] = "STARTTLS"
  <2>1. /\ next \in Stages
        /\ next = "STARTTLS" => config[c].starttls
        /\ next = "user" => sender[c] = "AUTH"
        /\ next = "password" => sender[c] = "user"
        /\ next = "AUTH" => config[c].credentials /\ (config[c].starttls => secure[c])
    BY <1>1, Follows
  <2>2. tls \in BOOLEAN
    OBVIOUS
  <2>3. next \in {"AUTH", "user", "password"} => tls
    BY <1>1, <2>1 DEF Sealed
  <2>4. tls \/ next = "STARTTLS" => config[c].starttls
    BY <2>1 DEF Sealed
  <2>5. Goes(c, next, tls)
    BY <1>4
  <2> HIDE DEF next, tls
  <2> QED  BY <1>1, <2>1, <2>2, <2>3, <2>4, <2>5, GoingSealed
<1> QED  BY <1>1, <1>3, <1>4

\* Fewer lines under way, and a server that takes a message only from somebody.
LEMMA RestSealed ==
  ASSUME NEW c \in Sends, Sealed(c), UNCHANGED <<config, secure[c]>>,
         sender'[c] = sender[c] \/ sender'[c] \in Ends, Safe(up'[c]),
         server'[c].step = "data" => server'[c].from # NoMail
  PROVE  Sealed(c)'
<1>1. Waiting(c)' => Waiting(c)
  BY DEF Waiting, Ends, Expected
<1>2. sender'[c] \in {"AUTH", "user", "password", "STARTTLS"} => sender'[c] = sender[c]
  BY DEF Ends
<1> QED  BY <1>1, <1>2 DEF Sealed

SInv == IInv /\ \A c \in Sends : Sealed(c)

LEMMA InitSealed == MailInit => SInv
<1> SUFFICES ASSUME MailInit  PROVE SInv
  OBVIOUS
<1>1. IInv
  BY InitInv
<1>2. ASSUME NEW c \in Sends  PROVE Sealed(c)
  <2>1. sender[c] = "new" /\ server[c].step = "none" /\ up[c] = <<>> /\ secure[c] = FALSE
    BY DEF MailInit, NoSession
  <2> QED  BY <2>1, NothingSafe DEF Sealed, Waiting, Expected
<1> QED  BY <1>1, <1>2 DEF SInv

LEMMA NextSealed ==
  ASSUME SInv, [MailNext]_mail_vars
  PROVE  SInv'
<1>1. IInv /\ Typed /\ IInv' /\ \A c \in Sends : Sealed(c)
  BY NextInv DEF SInv, IInv
<1>2. ASSUME NEW d \in Sends, UNCHANGED <<config, sender[d], secure[d], up[d], server[d]>>
      PROVE  Sealed(d)'
  <2>1. Sealed(d) /\ Safe(up'[d])
    BY <1>1, <1>2 DEF Sealed
  <2> QED  BY <1>2, <2>1, RestSealed DEF Sealed
<1>3. CASE UNCHANGED mail_vars \/ Inbound
  BY <1>1, <1>2, <1>3 DEF SInv, mail_vars, Inbound
<1>4. ASSUME NEW c \in Sends, Others(c), UNCHANGED config, Sealed(c)'  PROVE SInv'
  <2>1. ASSUME NEW d \in Sends  PROVE Sealed(d)'
    <3>1. CASE d = c
      BY <1>4, <3>1
    <3>2. CASE d # c
      BY <1>2, <1>4, <2>1, <3>2 DEF Others
    <3> QED  BY <3>1, <3>2
  <2> QED  BY <1>1, <2>1 DEF SInv
<1>5. ASSUME NEW c \in Sends  PROVE up[c] \in Seq(Packet) /\ Safe(up[c]) /\ Sealed(c)
  BY <1>1, <1>5 DEF Typed, Sealed
<1>6. ASSUME NEW c \in Sends, Connect(c)  PROVE SInv'
  <2>1. /\ Others(c) /\ UNCHANGED config /\ sender[c] = "new" /\ secure'[c] = secure[c] /\ up'[c] = up[c]
        /\ \/ sender'[c] = "failed" /\ server'[c] = server[c]
           \/ ~Refused(c) /\ sender'[c] = "greeting" /\ server'[c] = NoSession
    BY <1>1, <1>6, Connecting
  <2>2. CASE sender'[c] = "failed" /\ server'[c] = server[c]
    <3>1. Sealed(c)'
      BY <1>5, <2>1, <2>2, RestSealed DEF Ends, Sealed
    <3> QED  BY <1>4, <2>1, <3>1
  <2>3. CASE ~Refused(c) /\ sender'[c] = "greeting" /\ server'[c] = NoSession
    <3>1. server'[c].step # "data"
      BY <2>3 DEF NoSession
    <3>2. Sealed(c)'
      BY <1>5, <2>1, <2>3, <3>1 DEF Sealed, Refused
    <3> QED  BY <1>4, <2>1, <3>2
  <2> QED  BY <2>1, <2>2, <2>3
<1>7. ASSUME NEW c \in Sends, Reply(c)  PROVE SInv'
  BY <1>1, <1>4, <1>7, Replying, ReplySealed
<1>8. ASSUME NEW c \in Sends, Eof(c)  PROVE SInv'
  <2>1. /\ Others(c) /\ UNCHANGED <<secure[c], up[c], server[c], config>> /\ sender'[c] \in Ends
    BY <1>1, <1>8, Ending DEF Ends
  <2>2. Safe(up'[c]) /\ (server'[c].step = "data" => server'[c].from # NoMail)
    BY <1>5, <2>1 DEF Sealed
  <2> QED  BY <1>4, <1>5, <2>1, <2>2, RestSealed
<1>9. ASSUME NEW c \in Sends, Drop(c)  PROVE SInv'
  <2>1. /\ Others(c) /\ UNCHANGED <<secure[c], server[c], config>> /\ sender'[c] \in Ends
        /\ up'[c] \in {up[c], <<>>}
    BY <1>1, <1>9, Dropping DEF Ends
  <2>2. Safe(up'[c]) /\ (server'[c].step = "data" => server'[c].from # NoMail)
    BY <1>5, <2>1, NothingSafe DEF Sealed
  <2> QED  BY <1>4, <1>5, <2>1, <2>2, RestSealed
<1>10. ASSUME NEW c \in Sends, Command(c)  PROVE SInv'
  <2> DEFINE verb == Head(up[c]).verb
  <2>1. /\ Others(c) /\ server[c].step = "commands" /\ up[c] # <<>> /\ up'[c] = Tail(up[c])
        /\ server'[c] = After(server[c], verb, c) /\ UNCHANGED <<sender[c], secure[c], config>>
    BY <1>1, <1>10, Commanding
  <2>2. Safe(up'[c])
    BY <1>5, <2>1, SafeTail
  <2> HIDE DEF verb
  <2>3. server[c] \in Session
    BY <1>1 DEF Typed
  <2>4. server'[c].step = "data" => server'[c].from # NoMail
    <3>1. CASE verb = "DATA" /\ Answer(server[c], verb) = 354
      <4>1. server[c].from # NoMail
        BY <3>1 DEF Answer
      <4>2. server'[c] = [server[c] EXCEPT !.step = "data"]
        BY <2>1, <3>1 DEF After
      <4> QED  BY <2>3, <4>1, <4>2 DEF Session
    <3>2. CASE ~(verb = "DATA" /\ Answer(server[c], verb) = 354)
      BY <2>1, <2>3, <3>2 DEF After, Session
    <3> QED  BY <3>1, <3>2
  <2> QED  BY <1>4, <1>5, <2>1, <2>2, <2>4, RestSealed
<1>11. ASSUME NEW c \in Sends, Data(c)  PROVE SInv'
  <2>1. Reading(c) /\ up[c] # <<>> /\ server[c].step = "data"
    BY <1>1, <1>11 DEF Data, Serving, IInv, Talks, Talk, Untouched
  <2>2. /\ Others(c) /\ up'[c] = Tail(up[c]) /\ UNCHANGED <<sender[c], secure[c], config>>
        /\ \/ server'[c] = NoSession
           \/ server'[c].step = "data" /\ server'[c].from = server[c].from
    BY <1>1, <1>11, <2>1, ReadingOn
  <2>3. Safe(up'[c])
    BY <1>5, <2>1, <2>2, SafeTail
  <2>4. server'[c].step = "data" => server'[c].from # NoMail
    BY <1>5, <2>1, <2>2 DEF Sealed, NoSession
  <2> QED  BY <1>4, <1>5, <2>2, <2>3, <2>4, RestSealed
<1>12. ASSUME NEW c \in Sends, Hangup(c)  PROVE SInv'
  <2>1. /\ Others(c) /\ Closed(c)' /\ UNCHANGED <<sender[c], secure[c], up[c], config>>
    BY <1>1, <1>12, HangingUp
  <2>2. Safe(up'[c]) /\ (server'[c].step = "data" => server'[c].from # NoMail)
    BY <1>5, <2>1 DEF Closed
  <2> QED  BY <1>4, <1>5, <2>1, <2>2, RestSealed
<1>13. ASSUME NEW c \in Sends, Relay(c)  PROVE SInv'
  <2>1. /\ Others(c) /\ up'[c] = <<>> /\ UNCHANGED <<sender[c], secure[c], server[c], config>>
    BY <1>1, <1>13, Relaying
  <2>2. Safe(up'[c]) /\ (server'[c].step = "data" => server'[c].from # NoMail)
    BY <1>5, <2>1, NothingSafe DEF Sealed
  <2> QED  BY <1>4, <1>5, <2>1, <2>2, RestSealed
<1>14. ASSUME NEW c \in Sends, Cut(c)  PROVE SInv'
  <2>1. /\ Others(c) /\ Closed(c)' /\ up'[c] = <<>> /\ UNCHANGED <<sender[c], secure[c], config>>
    BY <1>1, <1>14, Cutting
  <2>2. Safe(up'[c]) /\ (server'[c].step = "data" => server'[c].from # NoMail)
    BY <2>1, NothingSafe DEF Closed
  <2> QED  BY <1>4, <1>5, <2>1, <2>2, RestSealed
<1> QED  BY <1>3, <1>6, <1>7, <1>8, <1>9, <1>10, <1>11, <1>12, <1>13, <1>14
         DEF MailNext, Client, Catcher

\* MailTypeOK for all constants: among others, a stream is only ever upgraded for who asked
\* for it, and the catcher reads no message without a sender.
THEOREM MailTypeCorrect == MailSpec => []MailTypeOK
<1>1. SInv => MailTypeOK
  <2> SUFFICES ASSUME SInv  PROVE MailTypeOK
    OBVIOUS
  <2>1. Typed /\ \A c \in Sends : Sealed(c)
    BY DEF SInv, IInv
  <2>2. sender \in [Sends -> DOMAIN Expected \cup Ends \cup {"new"}]
    BY <2>1 DEF Typed, Commands, Expected
  <2>3. \A c \in Sends : server[c].step \in {"none", "commands", "data", "closed"}
    BY <2>1 DEF Typed, Session
  <2>4. secure \in [Sends -> BOOLEAN]
    BY <2>1 DEF Typed
  <2> QED  BY <2>1, <2>2, <2>3, <2>4 DEF MailTypeOK, Sealed
<1>2. MailInit => SInv
  BY InitSealed
<1>3. SInv /\ [MailNext]_mail_vars => SInv'
  BY NextSealed
<1> QED  BY <1>1, <1>2, <1>3, PTL DEF MailSpec

\* CredentialsSecured, whatever a server offers and answers: the user name and the
\* password are only ever written to a stream that was upgraded to TLS.
THEOREM CredentialsAlwaysSecured == MailSpec => []CredentialsSecured
<1>1. SInv => CredentialsSecured
  BY DEF SInv, Sealed, Safe, CredentialsSecured
<1>2. MailInit => SInv
  BY InitSealed
<1>3. SInv /\ [MailNext]_mail_vars => SInv'
  BY NextSealed
<1> QED  BY <1>1, <1>2, <1>3, PTL DEF MailSpec
-----------------------------------------------------------------------------
\* Progress, as far as it is a matter of states.

\* A send_email that waits is connected, and there is a reply for it to read, or a line for
\* the server, or the connection has ended.
Stirred(c) ==
  Waiting(c) =>
    /\ server[c].step # "none"
    /\ down[c] # <<>> \/ up[c] # <<>> \/ Closed(c)

NobodyWaitsInVain == \A c \in Sends : Stirred(c)

\* What is sent is not nothing.
LEMMA GoingSends ==
  ASSUME Typed, NEW c \in Sends, NEW step \in Stages, NEW tls \in BOOLEAN,
         Goes(c, step, tls), Waiting(c)'
  PROVE  up'[c] # <<>>
<1>1. step \notin Ends
  BY DEF Goes, Waiting, Ends, Expected
<1>2. up[c] \in Seq(Packet) /\ Lines(c, step, tls) \in Seq(Packet)
      /\ up'[c] = up[c] \o Lines(c, step, tls)
  BY <1>1, LinesTyped DEF Typed, Stages, Goes
<1>3. Len(Lines(c, step, tls)) \in Nat /\ Len(Lines(c, step, tls)) # 0
  <2>1. CASE step = "message"
    <3>1. Len(Message(c)) = Len(Plain(c)) + 1 /\ Len(Plain(c)) \in Nat
      BY MessageLines, LenProperties
    <3>2. Len(Lines(c, step, tls)) = Len(Message(c))
      BY <2>1, LinesTyped
    <3> QED  BY <3>1, <3>2
  <2>2. CASE step # "message"
    <3>1. Lines(c, step, tls) = <<[verb |-> step, secure |-> tls]>>
      BY <1>1, <2>2, LinesTyped DEF Stages
    <3> QED  BY <3>1
  <2> QED  BY <2>1, <2>2
<1> DEFINE lines == Lines(c, step, tls)
<1> HIDE DEF lines
<1>4. Len(up[c] \o lines) = Len(up[c]) + Len(lines) /\ Len(up[c]) \in Nat
  BY <1>2 DEF lines
<1>5. Len(up'[c]) # 0
  BY <1>2, <1>3, <1>4 DEF lines
<1> QED  BY <1>5

\* Nothing but a step of the connection itself disturbs it.
LEMMA StirredStill ==
  ASSUME NEW d \in Sends, Stirred(d), UNCHANGED <<sender[d], up[d], down[d], server[d]>>
  PROVE  Stirred(d)'
BY DEF Stirred, Waiting, Closed

LEMMA NextStirred ==
  ASSUME IInv, NobodyWaitsInVain, [MailNext]_mail_vars
  PROVE  NobodyWaitsInVain'
<1>1. Typed /\ \A d \in Sends : Stirred(d)
  BY DEF IInv, NobodyWaitsInVain
<1>2. CASE UNCHANGED mail_vars \/ Inbound
  BY <1>1, <1>2, StirredStill DEF NobodyWaitsInVain, mail_vars, Inbound
<1>3. ASSUME NEW c \in Sends, Others(c), Stirred(c)'  PROVE NobodyWaitsInVain'
  <2>1. ASSUME NEW d \in Sends, d # c  PROVE Stirred(d)'
    BY <1>1, <1>3, <2>1, StirredStill DEF Others
  <2> QED  BY <1>3, <2>1 DEF NobodyWaitsInVain
<1>4. ASSUME NEW c \in Sends, Connect(c)  PROVE NobodyWaitsInVain'
  <2>1. /\ Others(c)
        /\ \/ sender'[c] = "failed"
           \/ server'[c] = NoSession /\ Len(down'[c]) = 1
    BY <1>1, <1>4, Connecting
  <2>2. NoSession.step # "none" /\ Len(<<>>) = 0
    BY DEF NoSession
  <2>3. Stirred(c)'
    BY <2>1, <2>2 DEF Stirred, Waiting, Expected
  <2> QED  BY <1>3, <2>1, <2>3
<1>5. ASSUME NEW c \in Sends, Reply(c)  PROVE NobodyWaitsInVain'
  <2>1. /\ Others(c) /\ Waiting(c) /\ server'[c] = server[c]
        /\ \/ Goes(c, "failed", secure[c])
           \/ \E offers : Goes(c, Following(c, offers), secure[c] \/ sender[c] = "STARTTLS")
    BY <1>1, <1>5, Replying
  <2>2. server'[c].step # "none"
    BY <1>1, <2>1 DEF Stirred
  <2>3. Waiting(c)' => up'[c] # <<>>
    <3>1. CASE Goes(c, "failed", secure[c])
      BY <3>1 DEF Goes, Waiting, Expected
    <3>2. ASSUME NEW offers, Goes(c, Following(c, offers), secure[c] \/ sender[c] = "STARTTLS")
          PROVE  Waiting(c)' => up'[c] # <<>>
      <4>1. Following(c, offers) \in Stages /\ (secure[c] \/ sender[c] = "STARTTLS") \in BOOLEAN
        BY <1>1, <2>1, Follows
      <4> QED  BY <1>1, <3>2, <4>1, GoingSends
    <3> QED  BY <2>1, <3>1, <3>2
  <2>4. Stirred(c)'
    BY <2>2, <2>3 DEF Stirred
  <2> QED  BY <1>3, <2>1, <2>4
<1>6. ASSUME NEW c \in Sends, Eof(c)  PROVE NobodyWaitsInVain'
  <2>1. Others(c) /\ sender'[c] \in {"ok", "failed"}
    BY <1>1, <1>6, Ending
  <2>2. Stirred(c)'
    BY <2>1 DEF Stirred, Waiting, Expected
  <2> QED  BY <1>3, <2>1, <2>2
<1>7. ASSUME NEW c \in Sends, Drop(c)  PROVE NobodyWaitsInVain'
  <2>1. Others(c) /\ sender'[c] = "dropped"
    BY <1>1, <1>7, Dropping
  <2>2. Stirred(c)'
    BY <2>1 DEF Stirred, Waiting, Expected
  <2> QED  BY <1>3, <2>1, <2>2
<1>8. ASSUME NEW c \in Sends, Command(c)  PROVE NobodyWaitsInVain'
  <2> DEFINE verb == Head(up[c]).verb
             answer == [code |-> Answer(server[c], verb), offers |-> {}]
  <2>1. /\ Others(c) /\ server[c].step = "commands" /\ server'[c] = After(server[c], verb, c)
        /\ down'[c] = Append(down[c], answer)
    BY <1>1, <1>8, Commanding
  <2>2. server[c] \in Session /\ down[c] \in Seq(Replies)
    BY <1>1 DEF Typed
  <2> HIDE DEF verb, answer
  <2>3. down'[c] # <<>>
    BY <2>1, <2>2
  <2>4. server'[c].step # "none"
    BY <2>1, <2>2 DEF After, Session
  <2>5. Stirred(c)'
    BY <2>3, <2>4 DEF Stirred
  <2> QED  BY <1>3, <2>1, <2>5
<1>9. ASSUME NEW c \in Sends, Data(c)  PROVE NobodyWaitsInVain'
  <2>1. Reading(c)
    BY <1>9 DEF Data, Serving, IInv, Talks, Talk, Untouched
  <2>2. /\ Others(c)
        /\ \/ server'[c] = NoSession /\ Len(down'[c]) = Len(down[c]) + 1
           \/ server'[c].step = "data" /\ Reading(c)'
    BY <1>1, <1>9, <2>1, ReadingOn
  <2>3. CASE server'[c] = NoSession /\ Len(down'[c]) = Len(down[c]) + 1
    <3>1. Len(down[c]) \in Nat /\ Len(<<>>) = 0
      BY <1>1 DEF Typed
    <3>2. Len(down'[c]) # 0
      BY <2>3, <3>1
    <3>3. down'[c] # <<>> /\ server'[c].step # "none"
      BY <2>3, <3>1, <3>2 DEF NoSession
    <3> QED  BY <1>3, <2>2, <3>3 DEF Stirred
  <2>4. CASE server'[c].step = "data" /\ Reading(c)'
    <3>1. up'[c] # <<>>
      BY <2>4 DEF Reading
    <3> QED  BY <1>3, <2>2, <2>4, <3>1 DEF Stirred
  <2> QED  BY <2>2, <2>3, <2>4
<1>10. ASSUME NEW c \in Sends, Hangup(c)  PROVE NobodyWaitsInVain'
  <2>1. Others(c) /\ Closed(c)'
    BY <1>1, <1>10, HangingUp
  <2>2. Stirred(c)'
    BY <2>1 DEF Stirred, Closed
  <2> QED  BY <1>3, <2>1, <2>2
<1>11. ASSUME NEW c \in Sends, Relay(c)  PROVE NobodyWaitsInVain'
  <2>1. Others(c) /\ UNCHANGED <<sender[c], server[c]>>
    BY <1>1, <1>11, Relaying
  <2>2. down'[c] # <<>>
    <3>1. PICK code \in {Expected[sender[c]], 500}, offers \in SUBSET {"STARTTLS", "AUTH"} :
            down' = [down EXCEPT ![c] = Append(@, [code |-> code, offers |-> offers])]
      BY <1>11 DEF Relay
    <3>2. /\ down[c] \in Seq(Replies)
          /\ down'[c] = Append(down[c], [code |-> code, offers |-> offers])
      BY <1>1, <3>1 DEF Typed
    <3> QED  BY <3>2
  <2>3. Stirred(c)'
    BY <1>1, <2>1, <2>2 DEF Stirred, Waiting
  <2> QED  BY <1>3, <2>1, <2>3
<1>12. ASSUME NEW c \in Sends, Cut(c)  PROVE NobodyWaitsInVain'
  <2>1. Others(c) /\ Closed(c)'
    BY <1>1, <1>12, Cutting
  <2>2. Stirred(c)'
    BY <2>1 DEF Stirred, Closed
  <2> QED  BY <1>3, <2>1, <2>2
<1> QED  BY <1>2, <1>4, <1>5, <1>6, <1>7, <1>8, <1>9, <1>10, <1>11, <1>12
         DEF MailNext, Client, Catcher

\* services/email/client.rs:289-372 and server.rs:159-201: no call has a timeout, and a
\* send_email to the catcher is never stuck: whenever it waits it can go on, or the
\* catcher can. This is the safety half of SendsEnd; what fairness adds to it is model-checked.
THEOREM NeverWaitsInVain == MailSpec => []NobodyWaitsInVain
<1>1. MailInit => NobodyWaitsInVain
  BY DEF MailInit, NobodyWaitsInVain, Stirred, Waiting, Expected
<1>2. MailInit => IInv
  BY InitInv
<1>3. IInv /\ [MailNext]_mail_vars => IInv'
  BY NextInv
<1>4. IInv /\ NobodyWaitsInVain /\ [MailNext]_mail_vars => NobodyWaitsInVain'
  BY NextStirred
<1> QED  BY <1>1, <1>2, <1>3, <1>4, PTL DEF MailSpec
=============================================================================
