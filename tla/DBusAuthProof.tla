--------------------------- MODULE DBusAuthProof ---------------------------
(***************************************************************************)
(* The conversation that opens a connection is sound for any users, any    *)
(* peer and any failures of memory: nobody gets in as a user he is not.    *)
(***************************************************************************)
EXTENDS DBusAuth, SequenceTheorems, WellFoundedInduction, TLAPS

(***************************************************************************)
(* What lines and the two objects hold.                                    *)
(***************************************************************************)
Cmds == {"AUTH", "DATA", "CANCEL", "BEGIN", "ERROR", "NEGOTIATE", "OK", "REJECTED", "AGREE",
         "message"}
Claims == Users \cup {"nobody"}
DataSet ==
    {NoData, Bad} \cup {User(u) : u \in Claims} \cup {Challenge(n) : n \in Nat}
    \cup {Answer(n, u) : n \in Nat, u \in Users} \cup {Listed(q) : q \in Seq(Words)}
Lines == {l \in [cmd : Cmds, mech : MechSet \cup {None}, data : DataSet] :
             l.cmd = "REJECTED" => l.data \in {Listed(q) : q \in Seq(Words)}}

ServerObjects ==
    [state : {"auth", "data", "begin", "authenticated", "disconnect"},
     mech : MechSet \cup {None}, identity : Claims \cup {None}, asked : BOOLEAN,
     desired : Claims \cup {None}, authorized : Users \cup {Anon, None}, cookie : BOOLEAN,
     challenge : Nat, failures : Nat, fds : BOOLEAN]

ClientObjects ==
    [state : {"data", "reject", "agree", "authenticated", "disconnect"},
     mech : MechSet, got : BOOLEAN, try : Seq(Words), fds : BOOLEAN]

Types ==
    /\ server \in ServerObjects /\ client \in ClientObjects
    /\ toServer \in Seq(Lines) /\ toClient \in Seq(Lines)
    /\ creds \in SocketUsers /\ oom \in Nat

(***************************************************************************)
(* The inductive invariant.  Of the server's object: it lets in only whom  *)
(* the socket or a cookie vouches for; a rejection forgets everything, as  *)
(* long as memory has not run out; it is disconnected after the last       *)
(* failure.  Of the lines: an answer to a challenge of this conversation   *)
(* is of the user whose cookies the peer can read; a message comes right   *)
(* behind BEGIN, with which the server stops reading lines.                *)
(***************************************************************************)
Sound(s) ==
    /\ s.authorized \in Users => s.authorized \in {creds, Me}
    /\ s.state \in {"begin", "authenticated"} => s.authorized # None
    /\ s.cookie => s.challenge # 0

Forgotten(s) ==
    /\ s.cookie => s.mech = "COOKIE"
    /\ s.state = "auth" =>
          s.authorized = None /\ s.identity = None /\ s.desired = None /\ ~s.cookie

Counted(s) ==
    /\ s.failures <= MaxFailures
    /\ s.failures = MaxFailures => s.state = "disconnect"

KnownAnswer(l) == \A n \in Nat \ {0}, u \in Users : l.data = Answer(n, u) => u = Me

MessagesFollow ==
    ~Ended(server) =>
        \A i \in DOMAIN toServer :
            toServer[i].cmd = "message" => i > 1 /\ toServer[i - 1].cmd = "BEGIN"

IInv ==
    /\ Types
    /\ Sound(server) /\ (oom = 0 => Forgotten(server)) /\ Counted(server)
    /\ \A i \in DOMAIN toServer : KnownAnswer(toServer[i])
    /\ MessagesFollow /\ ~eaten

(***************************************************************************)
(* Between two ends that are both libdbus lines take turns, and what they  *)
(* have agreed on about descriptors follows the conversation.              *)
(***************************************************************************)
One(q, cmd) == Len(q) = 1 /\ q[1].cmd = cmd
Turns ==
    /\ client.state \in {"data", "reject"} =>
          /\ ~client.fds /\ ~server.fds /\ Len(toServer) + Len(toClient) <= 1
          /\ \A i \in DOMAIN toServer : toServer[i].cmd # "NEGOTIATE"
          /\ \A i \in DOMAIN toClient : toClient[i].cmd # "AGREE"
    /\ client.state = "agree" =>
          /\ server.fds => "server" \in fdPossible /\ server.state = "begin"
          /\ \/ One(toServer, "NEGOTIATE") /\ toClient = <<>> /\ ~client.fds
             \/ toServer = <<>> /\ One(toClient, "AGREE") /\ server.fds
             \/ toServer = <<>> /\ One(toClient, "ERROR") /\ ~server.fds
    /\ client.state = "authenticated" =>
          /\ client.fds = server.fds
          /\ \A i \in DOMAIN toServer : toServer[i].cmd \in {"BEGIN", "message"}

\* Against a libdbus server the client has left to try what follows in the order of both.
Rest == [EXTERNAL |-> Mechanisms, COOKIE |-> <<"ANONYMOUS">>, ANONYMOUS |-> <<>>]
Ordered(c) == IF c.got THEN c.try = Rest[c.mech] ELSE c.mech = "EXTERNAL"
Heard(l) == l.cmd = "REJECTED" => l = RejectedLine
PairInv == Wild = {} => Turns
OrderInv == Wild = {} => Ordered(client) /\ \A i \in DOMAIN toClient : Heard(toClient[i])

-----------------------------------------------------------------------------
(* Lemmas: what a line does to the server's object.                        *)

\* s is s0 with what a mechanism has learned
Kept(s0, s) ==
    /\ s \in ServerObjects /\ s.failures = s0.failures /\ s.fds = s0.fds
    /\ s.cookie => s.challenge # 0
    /\ Forgotten(s0) => (s.cookie => s.mech = "COOKIE")

\* r is an outcome that keeps what IInv says of the server s0
Replies(r) == r.out = <<>> \/ \E l \in Lines : r.out = <<l>>
Quiet(s0, r) == r.s.fds = s0.fds /\ (r.out # <<>> => r.out[1].cmd # "AGREE")
Agreed(s0, r) ==
    /\ s0.state = "begin" /\ r.s.state = "begin" /\ "server" \in fdPossible /\ r.s.fds
    /\ r.out = <<Line("AGREE", None, NoData)>>
Reaction(s0, r) ==
    /\ r.s \in ServerObjects /\ r.done = TRUE /\ Replies(r)
    /\ Sound(r.s) /\ Counted(r.s) /\ (Forgotten(s0) => Forgotten(r.s))
    /\ r.s.failures \in {s0.failures, s0.failures + 1}
    /\ (s0.state = "begin" /\ r.s.failures = s0.failures) => r.s.authorized = s0.authorized
    /\ Quiet(s0, r) \/ Agreed(s0, r)
    /\ r.out # <<>> => Heard(r.out[1])

\* The answers without data are lines.
LEMMA PlainLines ==
    ASSUME NEW c \in Cmds \ {"REJECTED"}
    PROVE  Line(c, None, NoData) \in Lines
  BY DEF Line, Lines, DataSet

\* The server's list of mechanisms.
LEMMA RejectedIsLine == RejectedLine \in Lines /\ RejectedLine.cmd = "REJECTED"
<1>1. Mechanisms \in Seq(Words)
  <2>1. DOMAIN Mechanisms = 1..3 /\ Len(Mechanisms) = 3
    BY DEF Mechanisms
  <2>2. \A i \in 1..3 : Mechanisms[i] \in Words
    BY DEF Words, MechSet
  <2>3. Mechanisms = <<Mechanisms[1], Mechanisms[2], Mechanisms[3]>>
    BY DEF Mechanisms
  <2> QED
    BY <2>2, <2>3
<1>2. Listed(Mechanisms) \in {Listed(q) : q \in Seq(Words)}
  BY <1>1
<1> QED
  BY <1>2 DEF RejectedLine, Line, Lines, DataSet, Cmds

\* send_rejected: whatever the mechanism has learned is forgotten.
LEMMA RejectedReaction ==
    ASSUME NEW s0 \in ServerObjects, s0.failures < MaxFailures, NEW s, Kept(s0, s)
    PROVE  Reaction(s0, SendRejected(s))
<1> DEFINE t == [ShutdownMech(s) EXCEPT !.failures = @ + 1]
           u == [t EXCEPT !.state = IF t.failures >= MaxFailures THEN "disconnect" ELSE "auth"]
           l == RejectedLine
<1>1. /\ SendRejected(s).s = u /\ SendRejected(s).done = TRUE
      /\ SendRejected(s).out = <<l>>
  BY DEF SendRejected, Outcome
<1>2. l \in Lines /\ l.cmd = "REJECTED"
  BY RejectedIsLine
<1>3. /\ u \in ServerObjects /\ u.failures = s0.failures + 1 /\ u.fds = s0.fds
      /\ u.authorized = None /\ u.identity = None /\ u.desired = None /\ u.mech = None
      /\ u.cookie = (IF s.mech = "COOKIE" THEN FALSE ELSE s.cookie) /\ u.challenge = s.challenge
      /\ u.state = (IF u.failures >= MaxFailures THEN "disconnect" ELSE "auth")
  <2>1. s \in ServerObjects /\ s.failures = s0.failures /\ s.fds = s0.fds
    BY DEF Kept
  <2>2. ShutdownMech(s) =
          [s EXCEPT !.asked = FALSE, !.identity = None, !.authorized = None, !.desired = None,
                    !.cookie = (IF s.mech = "COOKIE" THEN FALSE ELSE s.cookie), !.mech = None]
    BY <2>1 DEF ShutdownMech, ServerObjects
  <2>3. /\ ShutdownMech(s) \in ServerObjects
        /\ ShutdownMech(s).failures = s.failures /\ ShutdownMech(s).fds = s.fds
        /\ ShutdownMech(s).authorized = None /\ ShutdownMech(s).identity = None
        /\ ShutdownMech(s).desired = None /\ ShutdownMech(s).mech = None
        /\ ShutdownMech(s).cookie = (IF s.mech = "COOKIE" THEN FALSE ELSE s.cookie)
        /\ ShutdownMech(s).challenge = s.challenge
    BY <2>1, <2>2 DEF ServerObjects
  <2> DEFINE v == ShutdownMech(s)
  <2> HIDE DEF v
  <2>4. /\ t \in ServerObjects /\ t.failures = v.failures + 1 /\ t.fds = v.fds
        /\ t.authorized = v.authorized /\ t.identity = v.identity /\ t.desired = v.desired
        /\ t.mech = v.mech /\ t.cookie = v.cookie /\ t.challenge = v.challenge
    <3>1. v.failures \in Nat
      BY <2>3 DEF ServerObjects, v
    <3>2. PICK n \in Nat : n = v.failures + 1
      BY <3>1
    <3>3. t = [v EXCEPT !.failures = n]
      BY <3>2 DEF v
    <3> HIDE DEF t
    <3> QED
      BY <2>3, <3>2, <3>3 DEF ServerObjects, v
  <2> HIDE DEF t
  <2>5. /\ u \in ServerObjects /\ u.failures = t.failures /\ u.fds = t.fds
        /\ u.authorized = t.authorized /\ u.identity = t.identity /\ u.desired = t.desired
        /\ u.mech = t.mech /\ u.cookie = t.cookie /\ u.challenge = t.challenge
        /\ u.state = (IF t.failures >= MaxFailures THEN "disconnect" ELSE "auth")
    BY <2>4 DEF ServerObjects
  <2> QED
    BY <2>1, <2>3, <2>4, <2>5 DEF v
<1>4. Sound(u)
  <2>1. u.authorized \notin Users /\ u.state \notin {"begin", "authenticated"}
    BY <1>3, AuthAssumption DEF None
  <2>2. u.cookie => u.challenge # 0
    BY <1>3 DEF Kept
  <2> QED
    BY <2>1, <2>2 DEF Sound
<1>5. Counted(u)
  BY <1>3, AuthAssumption DEF Counted, ServerObjects
<1>6. Forgotten(s0) => Forgotten(u)
  BY <1>3 DEF Forgotten, Kept
<1>7. Quiet(s0, SendRejected(s)) /\ Replies(SendRejected(s)) /\ Heard(SendRejected(s).out[1])
  BY <1>1, <1>2, <1>3 DEF Quiet, Replies, Heard
<1> HIDE DEF u
<1> QED
  BY <1>1, <1>3, <1>4, <1>5, <1>6, <1>7 DEF Reaction, ServerObjects

\* send_ok, for somebody who is vouched for.
LEMMA OkReaction ==
    ASSUME NEW s0 \in ServerObjects, s0.failures < MaxFailures, s0.state # "begin",
           NEW s, Kept(s0, s), s.authorized # None, s.authorized \in Users => s.authorized \in {creds, Me}
    PROVE  Reaction(s0, SendOk(s))
<1> DEFINE u == [s EXCEPT !.state = "begin"]
           l == Line("OK", None, User(Me))
<1>1. SendOk(s).s = u /\ SendOk(s).done = TRUE /\ SendOk(s).out = <<l>>
  BY DEF SendOk, Outcome
<1>2. l \in Lines /\ l.cmd = "OK"
  BY AuthAssumption DEF Line, Lines, DataSet, Cmds, Claims
<1>3. /\ u \in ServerObjects /\ u.failures = s0.failures /\ u.fds = s0.fds /\ u.state = "begin"
      /\ u.authorized = s.authorized /\ u.cookie = s.cookie /\ u.challenge = s.challenge
      /\ u.mech = s.mech
  BY DEF Kept, ServerObjects
<1>4. Sound(u) /\ Counted(u) /\ (Forgotten(s0) => Forgotten(u))
  BY <1>3, AuthAssumption DEF Sound, Counted, Forgotten, Kept, ServerObjects
<1>5. Quiet(s0, SendOk(s)) /\ Replies(SendOk(s)) /\ Heard(SendOk(s).out[1])
  BY <1>1, <1>2, <1>3 DEF Quiet, Replies, Heard
<1> HIDE DEF u
<1> QED
  BY <1>1, <1>3, <1>4, <1>5 DEF Reaction

\* A question for data.
LEMMA AskReaction ==
    ASSUME NEW s0 \in ServerObjects, s0.failures < MaxFailures, s0.state # "begin",
           NEW s, Kept(s0, s), s.authorized \in Users => s.authorized \in {creds, Me},
           NEW d \in DataSet
    PROVE  Reaction(s0, AskData(s, d))
<1> DEFINE u == [s EXCEPT !.state = "data"]
           l == Line("DATA", None, d)
<1>1. AskData(s, d).s = u /\ AskData(s, d).done = TRUE /\ AskData(s, d).out = <<l>>
  BY DEF AskData, Outcome
<1>2. l \in Lines /\ l.cmd = "DATA"
  BY DEF Line, Lines, Cmds
<1>3. /\ u \in ServerObjects /\ u.failures = s0.failures /\ u.fds = s0.fds /\ u.state = "data"
      /\ u.authorized = s.authorized /\ u.cookie = s.cookie /\ u.challenge = s.challenge
      /\ u.mech = s.mech
  BY DEF Kept, ServerObjects
<1>4. Sound(u) /\ Counted(u) /\ (Forgotten(s0) => Forgotten(u))
  BY <1>3, AuthAssumption DEF Sound, Counted, Forgotten, Kept, ServerObjects
<1>5. Quiet(s0, AskData(s, d)) /\ Replies(AskData(s, d)) /\ Heard(AskData(s, d).out[1])
  BY <1>1, <1>2, <1>3 DEF Quiet, Replies, Heard
<1> HIDE DEF u
<1> QED
  BY <1>1, <1>3, <1>4, <1>5 DEF Reaction

\* send_error: the object stays.
LEMMA ErrorReaction ==
    ASSUME NEW s0 \in ServerObjects, s0.failures < MaxFailures,
           NEW s, Kept(s0, s), Sound(s), Forgotten(s0) => Forgotten(s),
           s.authorized = s0.authorized
    PROVE  Reaction(s0, SendError(s))
<1> DEFINE l == Line("ERROR", None, NoData)
<1>1. SendError(s).s = s /\ SendError(s).done = TRUE /\ SendError(s).out = <<l>>
  BY DEF SendError, Outcome
<1>2. l \in Lines /\ l.cmd = "ERROR"
  BY PlainLines DEF Cmds, Line
<1>3. Counted(s)
  BY AuthAssumption DEF Counted, Kept, ServerObjects
<1>4. Quiet(s0, SendError(s)) /\ Replies(SendError(s)) /\ Heard(SendError(s).out[1])
  BY <1>1, <1>2 DEF Quiet, Replies, Kept, Heard
<1> QED
  BY <1>1, <1>3, <1>4 DEF Reaction, Kept

\* Input data is of one of five kinds.
LEMMA DataKinds ==
    ASSUME NEW d \in DataSet
    PROVE  /\ d[1] = "user" => d[2] \in Claims
           /\ d[1] = "challenge" => d[2] \in Nat
  BY DEF DataSet, NoData, Bad, User, Challenge, Answer, Listed

\* s is what mechanisms work on: s0, with the mechanism that was chosen.
Begun(s0, s) ==
    /\ Kept(s0, s) /\ s.state = s0.state /\ s0.state \in {"auth", "data"}
    /\ s0.failures < MaxFailures
    /\ s.authorized = s0.authorized /\ Sound(s) /\ (Forgotten(s0) => Forgotten(s))

\* The identity a client claims is kept with the rest.
LEMMA IdentifiedKept ==
    ASSUME NEW s0 \in ServerObjects, NEW s, Begun(s0, s), NEW d \in DataSet
    PROVE  /\ Kept(s0, Identified(s, d))
           /\ Identified(s, d) \in ServerObjects
           /\ Identified(s, d).authorized = s.authorized /\ Identified(s, d).mech = s.mech
           /\ Identified(s, d).challenge = s.challenge /\ Identified(s, d).cookie = s.cookie
<1>1. s \in ServerObjects
  BY DEF Begun, Kept
<1>2. (IF d[1] = "user" THEN d[2] ELSE "nobody") \in Claims
  BY DataKinds DEF Claims
<1>3. Identified(s, d) \in ServerObjects
  BY <1>1, <1>2 DEF Identified, ServerObjects
<1>4. /\ Identified(s, d).authorized = s.authorized /\ Identified(s, d).mech = s.mech
      /\ Identified(s, d).challenge = s.challenge /\ Identified(s, d).cookie = s.cookie
      /\ Identified(s, d).failures = s.failures /\ Identified(s, d).fds = s.fds
  BY <1>1 DEF Identified, ServerObjects
<1> QED
  BY <1>3, <1>4 DEF Begun, Kept

\* EXTERNAL lets in the user the socket names, and nobody else.
LEMMA ExternalReaction ==
    ASSUME NEW s0 \in ServerObjects, NEW s1, Begun(s0, s1), NEW d \in DataSet
    PROVE  Reaction(s0, ServerExternal(s1, d))
<1> DEFINE s == Identified(s1, d)
           want == IF s.identity = None THEN creds ELSE s.identity
<1>0. /\ s0.failures < MaxFailures /\ s0.state # "begin" /\ Kept(s0, s1)
      /\ s1.authorized \in Users => s1.authorized \in {creds, Me}
  BY DEF Begun, Sound
<1>1. Kept(s0, s) /\ s \in ServerObjects /\ s.authorized = s1.authorized
  BY IdentifiedKept
<1> HIDE DEF s
<1>2. CASE creds = Anon \/ Repeated(s1, d)
  <2>1. ServerExternal(s1, d) = SendRejected(s1)
    BY <1>2 DEF ServerExternal
  <2> QED
    BY <1>0, <2>1, RejectedReaction
<1>3. CASE ~(creds = Anon \/ Repeated(s1, d)) /\ s.identity = None /\ ~s.asked
  <2> DEFINE u == [s EXCEPT !.asked = TRUE]
  <2>1. ServerExternal(s1, d) = AskData(u, NoData)
    BY <1>3 DEF ServerExternal, s
  <2>2. Kept(s0, u) /\ u.authorized = s1.authorized
    BY <1>1 DEF Kept, ServerObjects
  <2>3. NoData \in DataSet
    BY DEF DataSet
  <2> QED
    BY <1>0, <2>1, <2>2, <2>3, AskReaction
<1>4. CASE /\ ~(creds = Anon \/ Repeated(s1, d)) /\ ~(s.identity = None /\ ~s.asked)
           /\ want \in Users /\ want = creds
  <2> DEFINE u == [s EXCEPT !.desired = want, !.authorized = want]
  <2>1. ServerExternal(s1, d) = SendOk(u)
    BY <1>4 DEF ServerExternal, s
  <2>2. Kept(s0, u) /\ u.authorized = want
    BY <1>1, <1>4 DEF Kept, ServerObjects, Claims
  <2>3. want # None
    BY <1>4, AuthAssumption DEF None
  <2> QED
    BY <1>0, <1>4, <2>1, <2>2, <2>3, OkReaction
<1>5. CASE /\ ~(creds = Anon \/ Repeated(s1, d)) /\ ~(s.identity = None /\ ~s.asked)
           /\ ~(want \in Users /\ want = creds)
  <2>1. ServerExternal(s1, d) = SendRejected(s)
    BY <1>5 DEF ServerExternal, s
  <2> QED
    BY <1>0, <1>1, <2>1, RejectedReaction
<1> QED
  BY <1>2, <1>3, <1>4, <1>5

\* The cookie mechanism lets in only somebody who answers the challenge of this conversation,
\* and so reads the cookies of the user he claims to be.
LEMMA CookieReaction ==
    ASSUME NEW s0 \in ServerObjects, NEW s1, Begun(s0, s1), s1.mech = "COOKIE",
           NEW l \in Lines, KnownAnswer(l)
    PROVE  Reaction(s0, ServerCookie(s1, l.data))
<1> DEFINE d == l.data
           s == Identified(s1, d)
<1>0. /\ s0.failures < MaxFailures /\ s0.state # "begin" /\ Kept(s0, s1)
      /\ s1.authorized \in Users => s1.authorized \in {creds, Me}
      /\ s1 \in ServerObjects
  BY DEF Begun, Sound, Kept
<1>a. d \in DataSet
  BY DEF Lines
<1>1. Kept(s0, s) /\ s \in ServerObjects /\ s.authorized = s1.authorized /\ s.mech = "COOKIE"
  BY <1>a, IdentifiedKept
<1> HIDE DEF s
<1>2. CASE s1.cookie /\ d = Answer(s1.challenge, s1.desired)
  <2> DEFINE u == [s1 EXCEPT !.authorized = s1.desired]
  <2>1. ServerCookie(s1, d) = SendOk(u)
    BY <1>2 DEF ServerCookie, CookieSecond
  <2>2. s1.challenge \in Nat \ {0}
    BY <1>0, <1>2 DEF Kept, ServerObjects
  <2>3. s1.desired \in Users
    <3>1. PICK n \in Nat, v \in Users : d = Answer(n, v)
      BY <1>2, <1>a DEF DataSet, Answer, NoData, Bad, User, Challenge, Listed
    <3> QED
      BY <1>2, <3>1 DEF Answer
  <2>4. s1.desired = Me
    BY <1>2, <2>2, <2>3 DEF KnownAnswer
  <2>5. Kept(s0, u) /\ u.authorized = Me
    BY <1>0, <2>4, AuthAssumption DEF Kept, ServerObjects
  <2>6. Me # None
    BY AuthAssumption DEF None
  <2> QED
    BY <1>0, <2>1, <2>5, <2>6, OkReaction
<1>3. CASE s1.cookie /\ d # Answer(s1.challenge, s1.desired)
  <2>1. ServerCookie(s1, d) = SendRejected(s1)
    BY <1>3 DEF ServerCookie, CookieSecond
  <2> QED
    BY <1>0, <2>1, RejectedReaction
<1>4. CASE ~s1.cookie /\ (Repeated(s1, d) \/ d = NoData \/ s.identity \notin Users)
  <2>1. ServerCookie(s1, d) = SendRejected(s)
    BY <1>4 DEF ServerCookie, CookieFirst, s
  <2> QED
    BY <1>0, <1>1, <2>1, RejectedReaction
<1>5. CASE ~s1.cookie /\ ~(Repeated(s1, d) \/ d = NoData \/ s.identity \notin Users)
  <2> DEFINE u == [s EXCEPT !.desired = s.identity, !.cookie = TRUE, !.challenge = @ + 1]
  <2>1. ServerCookie(s1, d) = AskData(u, Challenge(s.challenge + 1))
    BY <1>5 DEF ServerCookie, CookieFirst, s
  <2>2. Kept(s0, u) /\ u.authorized = s1.authorized
    <3>1. /\ u \in ServerObjects /\ u.mech = s.mech /\ u.failures = s.failures /\ u.fds = s.fds
          /\ u.authorized = s.authorized /\ u.challenge = s.challenge + 1
      <4>1. PICK n \in Nat : n = s.challenge + 1
        BY <1>1 DEF ServerObjects
      <4>2. u = [s EXCEPT !.desired = s.identity, !.cookie = TRUE, !.challenge = n]
        BY <4>1
      <4>3. s.identity \in Claims \cup {None}
        BY <1>1 DEF ServerObjects
      <4> HIDE DEF u
      <4> QED
        BY <1>1, <4>1, <4>2, <4>3 DEF ServerObjects
    <3>2. u.challenge # 0
      BY <1>1, <3>1 DEF ServerObjects
    <3> QED
      BY <1>1, <3>1, <3>2 DEF Kept
  <2>3. Challenge(s.challenge + 1) \in DataSet
    BY <1>1 DEF DataSet, ServerObjects
  <2> QED
    BY <1>0, <2>1, <2>2, <2>3, AskReaction
<1> QED
  BY <1>2, <1>3, <1>4, <1>5

\* ANONYMOUS lets in nobody as a user.
LEMMA AnonymousReaction ==
    ASSUME NEW s0 \in ServerObjects, NEW s, Begun(s0, s), NEW d
    PROVE  Reaction(s0, ServerAnonymous(s, d))
<1>0. s0.failures < MaxFailures /\ s0.state # "begin" /\ Kept(s0, s)
  BY DEF Begun
<1>1. CASE d = Bad
  BY <1>0, <1>1, RejectedReaction DEF ServerAnonymous
<1>2. CASE d # Bad
  <2> DEFINE u == [s EXCEPT !.desired = None, !.authorized = Anon]
  <2>1. ServerAnonymous(s, d) = SendOk(u)
    BY <1>2 DEF ServerAnonymous
  <2>2. Kept(s0, u) /\ u.authorized = Anon
    BY <1>0 DEF Kept, ServerObjects
  <2>3. Anon # None /\ Anon \notin Users
    BY AuthAssumption DEF Anon, None
  <2> QED
    BY <1>0, <2>1, <2>2, <2>3, OkReaction
<1> QED
  BY <1>1, <1>2

\* process_data keeps what IInv says of the server.
LEMMA DataReaction ==
    ASSUME NEW s0 \in ServerObjects, NEW s, Begun(s0, s), NEW l \in Lines, KnownAnswer(l)
    PROVE  Reaction(s0, ServerData(s, l.data))
<1>0. l.data \in DataSet
  BY DEF Lines
<1>1. CASE l.data = Bad /\ s.mech # "ANONYMOUS"
  <2>1. ServerData(s, l.data) = SendError(s)
    BY <1>1 DEF ServerData
  <2> QED
    BY <2>1, ErrorReaction DEF Begun
<1>2. CASE ~(l.data = Bad /\ s.mech # "ANONYMOUS") /\ s.mech = "EXTERNAL"
  <2>1. ServerData(s, l.data) = ServerExternal(s, l.data)
    BY <1>2 DEF ServerData
  <2> QED
    BY <1>0, <2>1, ExternalReaction
<1>3. CASE ~(l.data = Bad /\ s.mech # "ANONYMOUS") /\ s.mech = "COOKIE"
  <2>1. ServerData(s, l.data) = ServerCookie(s, l.data)
    BY <1>3 DEF ServerData
  <2> QED
    BY <1>3, <2>1, CookieReaction
<1>4. CASE ~(l.data = Bad /\ s.mech # "ANONYMOUS") /\ s.mech \notin {"EXTERNAL", "COOKIE"}
  <2>1. ServerData(s, l.data) = ServerAnonymous(s, l.data)
    BY <1>4, SMTT(30) DEF ServerData
  <2> QED
    BY <2>1, AnonymousReaction
<1> QED
  BY <1>1, <1>2, <1>3, <1>4
\* The lines a server at work handles, and the one it sends.
LEMMA HandleReaction ==
    ASSUME NEW s \in ServerObjects, ~Ended(s), Sound(s), Counted(s), NEW l \in Lines, KnownAnswer(l)
    PROVE  /\ Reaction(s, ServerHandle(s, l))
           /\ l.cmd # "NEGOTIATE" => Quiet(s, ServerHandle(s, l))
           /\ l.cmd = "BEGIN" => Ended(ServerHandle(s, l).s)
           /\ l.cmd = "NEGOTIATE" =>
                 \/ Agreed(s, ServerHandle(s, l))
                 \/ /\ ~(s.state = "begin" /\ "server" \in fdPossible)
                    /\ ServerHandle(s, l) = SendError(s)
<1> DEFINE r == ServerHandle(s, l)
<1>1. s.state \in {"auth", "data", "begin"}
  BY DEF Ended, ServerObjects
<1>2. s.failures < MaxFailures
  BY <1>1, AuthAssumption DEF Counted, ServerObjects
<1>3. Kept(s, s)
  BY DEF Kept, Sound, Forgotten
<1>4. Reaction(s, SendRejected(s)) /\ SendRejected(s).out[1].cmd = "REJECTED"
  BY <1>2, <1>3, RejectedReaction, RejectedIsLine DEF SendRejected, Outcome
<1>5. Reaction(s, SendError(s)) /\ SendError(s).out[1].cmd = "ERROR" /\ SendError(s).s = s
  BY <1>2, <1>3, ErrorReaction DEF SendError, Outcome, Line
<1>6. Reaction(s, Disconnect(s)) /\ Quiet(s, Disconnect(s)) /\ Ended(Disconnect(s).s)
  <2> DEFINE u == [s EXCEPT !.state = "disconnect"]
  <2>1. Disconnect(s).s = u /\ Disconnect(s).out = <<>> /\ Disconnect(s).done = TRUE
    BY DEF Disconnect, Outcome
  <2>2. /\ u \in ServerObjects /\ u.state = "disconnect" /\ u.failures = s.failures
        /\ u.fds = s.fds /\ u.authorized = s.authorized /\ u.cookie = s.cookie
        /\ u.mech = s.mech /\ u.challenge = s.challenge
    BY DEF ServerObjects
  <2> HIDE DEF u
  <2> QED
    BY <2>1, <2>2 DEF Reaction, Quiet, Replies, Sound, Counted, Forgotten, Ended
<1>7. CASE s.state = "auth"
  <2> DEFINE t == [s EXCEPT !.mech = l.mech]
  <2>1. r = ServerWaitingForAuth(s, l)
    BY <1>7 DEF ServerHandle
  <2>2. CASE l.cmd = "AUTH"
    <3>1. Begun(s, t)
      <4>1. l.mech \in MechSet \cup {None}
        BY DEF Lines
      <4>2. /\ t \in ServerObjects /\ t.state = s.state /\ t.failures = s.failures
            /\ t.fds = s.fds /\ t.authorized = s.authorized /\ t.cookie = s.cookie
            /\ t.challenge = s.challenge /\ t.identity = s.identity /\ t.desired = s.desired
        BY <4>1 DEF ServerObjects
      <4> HIDE DEF t
      <4> QED
        BY <1>2, <1>7, <4>2 DEF Begun, Kept, Sound, Forgotten
    <3>2. Reaction(s, ServerData(t, l.data))
      BY <3>1, DataReaction
    <3>3. r = ServerData(t, l.data) \/ r = SendRejected(s)
      BY <2>1, <2>2 DEF ServerWaitingForAuth, HandleAuth
    <3> QED
      BY <1>4, <1>7, <2>2, <3>2, <3>3 DEF Reaction, Agreed
  <2>3. CASE l.cmd = "BEGIN"
    BY <1>6, <2>1, <2>3 DEF ServerWaitingForAuth
  <2>4. CASE l.cmd = "ERROR"
    BY <1>4, <1>7, <2>1, <2>4 DEF ServerWaitingForAuth, Reaction, Agreed
  <2>5. CASE l.cmd \notin {"AUTH", "BEGIN", "ERROR"}
    <3>1. r = SendError(s)
      BY <2>1, <2>5 DEF ServerWaitingForAuth
    <3> QED
      BY <1>5, <1>7, <2>5, <3>1 DEF Reaction, Agreed
  <2> QED
    BY <2>2, <2>3, <2>4, <2>5
<1>8. CASE s.state = "data"
  <2>1. r = ServerWaitingForData(s, l)
    BY <1>8 DEF ServerHandle
  <2>2. CASE l.cmd = "DATA"
    <3>1. Begun(s, s)
      BY <1>2, <1>3, <1>8 DEF Begun
    <3>2. r = ServerData(s, l.data)
      BY <2>1, <2>2 DEF ServerWaitingForData
    <3>3. Reaction(s, ServerData(s, l.data))
      BY <3>1, DataReaction
    <3> QED
      BY <1>8, <2>2, <3>2, <3>3 DEF Reaction, Agreed
  <2>3. CASE l.cmd = "BEGIN"
    BY <1>6, <2>1, <2>3 DEF ServerWaitingForData
  <2>4. CASE l.cmd \in {"CANCEL", "ERROR"}
    BY <1>4, <1>8, <2>1, <2>4 DEF ServerWaitingForData, Reaction, Agreed
  <2>5. CASE l.cmd \notin {"DATA", "BEGIN", "CANCEL", "ERROR"}
    <3>1. r = SendError(s)
      BY <2>1, <2>5 DEF ServerWaitingForData
    <3> QED
      BY <1>5, <1>8, <2>5, <3>1 DEF Reaction, Agreed
  <2> QED
    BY <2>2, <2>3, <2>4, <2>5
<1>9. CASE s.state = "begin"
  <2>1. r = ServerWaitingForBegin(s, l)
    BY <1>9 DEF ServerHandle
  <2>2. CASE l.cmd = "BEGIN"
    <3> DEFINE u == [s EXCEPT !.state = "authenticated"]
    <3>1. r = Outcome(u, <<>>)
      BY <2>1, <2>2 DEF ServerWaitingForBegin
    <3>2. /\ u \in ServerObjects /\ u.state = "authenticated" /\ u.failures = s.failures
          /\ u.fds = s.fds /\ u.authorized = s.authorized /\ u.cookie = s.cookie
          /\ u.mech = s.mech /\ u.challenge = s.challenge
      BY DEF ServerObjects
    <3>3. r.s = u /\ r.out = <<>> /\ r.done = TRUE
      BY <3>1 DEF Outcome
    <3> HIDE DEF u, r
    <3>4. Sound(u) /\ Counted(u) /\ (Forgotten(s) => Forgotten(u))
      BY <1>2, <1>9, <3>2, AuthAssumption DEF Sound, Counted, Forgotten, ServerObjects
    <3> QED
      BY <2>2, <3>2, <3>3, <3>4 DEF Reaction, Quiet, Replies, Ended, r
  <2>3. CASE l.cmd = "NEGOTIATE" /\ "server" \in fdPossible
    <3> DEFINE u == [s EXCEPT !.fds = TRUE]
               a == Line("AGREE", None, NoData)
    <3>1. r = Outcome(u, <<a>>)
      BY <2>1, <2>3 DEF ServerWaitingForBegin
    <3>2. /\ u \in ServerObjects /\ u.state = s.state /\ u.failures = s.failures
          /\ u.fds = TRUE /\ u.authorized = s.authorized /\ u.cookie = s.cookie
          /\ u.mech = s.mech /\ u.challenge = s.challenge
      BY DEF ServerObjects
    <3>3. r.s = u /\ r.out = <<a>> /\ r.done = TRUE
      BY <3>1 DEF Outcome
    <3>4. a \in Lines /\ Heard(r.out[1])
      BY <3>3, PlainLines DEF Cmds, Heard, Line
    <3> HIDE DEF u, r
    <3>5. Sound(u) /\ Counted(u) /\ (Forgotten(s) => Forgotten(u))
      BY <1>2, <1>9, <3>2, AuthAssumption DEF Sound, Counted, Forgotten, ServerObjects
    <3>6. Agreed(s, r)
      BY <1>9, <2>3, <3>2, <3>3 DEF Agreed
    <3> QED
      BY <2>3, <3>2, <3>3, <3>4, <3>5, <3>6 DEF Reaction, Replies, r
  <2>4. CASE l.cmd \in {"CANCEL", "ERROR"}
    <3>1. r = SendRejected(s)
      BY <2>1, <2>4 DEF ServerWaitingForBegin
    <3>2. Quiet(s, SendRejected(s))
      BY <1>4 DEF Reaction, Agreed, Quiet, Line
    <3> QED
      BY <1>4, <2>4, <3>1, <3>2
  <2>5. CASE l.cmd \notin {"BEGIN", "CANCEL", "ERROR"} /\ ~(l.cmd = "NEGOTIATE" /\ "server" \in fdPossible)
    <3>1. r = SendError(s)
      BY <2>1, <2>5 DEF ServerWaitingForBegin
    <3>2. Quiet(s, SendError(s))
      BY <1>5 DEF Quiet
    <3> QED
      BY <1>5, <2>5, <3>1, <3>2
  <2> QED
    BY <2>2, <2>3, <2>4, <2>5
<1> QED
  BY <1>1, <1>7, <1>8, <1>9

\* What a handler that runs out of memory leaves behind is no more than what it would have
\* stored, in the state it began in.
LEMMA OutOfMemoryKeeps ==
    ASSUME NEW s \in ServerObjects, ~Ended(s), Sound(s), Counted(s), NEW l \in Lines, KnownAnswer(l)
    PROVE  LET u == ServerOutOfMemory(s, l).s IN
           /\ u \in ServerObjects /\ Sound(u) /\ Counted(u) /\ u.state = s.state
           /\ ServerOutOfMemory(s, l).out = <<>> /\ ServerOutOfMemory(s, l).done = FALSE
           /\ u.fds \in {s.fds, ServerHandle(s, l).s.fds}
<1> DEFINE t == ServerHandle(s, l).s
           m == IF s.state = "auth" THEN None ELSE t.mech
           v == [t EXCEPT !.state = s.state, !.asked = s.asked, !.mech = m]
           u == ServerOutOfMemory(s, l).s
<1>1. Reaction(s, ServerHandle(s, l))
  BY HandleReaction
<1>2. t \in ServerObjects /\ Sound(t) /\ Counted(t)
  BY <1>1 DEF Reaction
<1>3. /\ t.failures \in {s.failures, s.failures + 1}
      /\ (s.state = "begin" /\ t.failures = s.failures) => t.authorized = s.authorized
  BY <1>1 DEF Reaction
<1> HIDE DEF t
<1>4. ServerOutOfMemory(s, l).out = <<>> /\ ServerOutOfMemory(s, l).done = FALSE
  BY DEF ServerOutOfMemory
<1>5. m \in MechSet \cup {None}
  BY <1>2 DEF ServerObjects
<1>6. /\ v \in ServerObjects /\ v.state = s.state /\ v.failures = t.failures /\ v.fds = t.fds
      /\ v.authorized = t.authorized /\ v.cookie = t.cookie /\ v.challenge = t.challenge
  <2> HIDE DEF m
  <2> QED
    BY <1>2, <1>5 DEF ServerObjects
<1>7. u = IF t.failures > s.failures THEN s ELSE v
  BY <1>2 DEF ServerOutOfMemory, t, ServerObjects
<1> HIDE DEF u, v
<1>8. CASE t.failures > s.failures
  BY <1>4, <1>7, <1>8 DEF u, t
<1>9. CASE ~(t.failures > s.failures)
  <2>1. t.failures = s.failures
    BY <1>3, <1>9 DEF ServerObjects
  <2>2. Sound(v)
    BY <1>2, <1>3, <1>6, <2>1 DEF Sound, Ended
  <2>3. Counted(v)
    BY <1>6, <2>1 DEF Counted, Ended
  <2> QED
    BY <1>4, <1>6, <1>7, <1>9, <2>2, <2>3 DEF u, t
<1> QED
  BY <1>8, <1>9
-----------------------------------------------------------------------------
(* Lemmas: what a line does to the client's object.                        *)

\* r is an outcome of the client c at the line l
Response(c, l, r) ==
    /\ r.s \in ClientObjects /\ Replies(r)
    /\ r.out # <<>> => KnownAnswer(r.out[1]) /\ r.out[1].cmd # "message"
    /\ r.s.state = "authenticated" => One(r.out, "BEGIN")
    /\ r.out # <<>> /\ r.out[1].cmd = "AUTH" =>
          r.s.mech # "EXTERNAL" /\ r.s.got /\ (c.got => Len(r.s.try) < Len(c.try))
    /\ Ordered(c) /\ Heard(l) =>
          /\ Ordered(r.s)
          /\ r.out # <<>> /\ r.out[1].cmd = "AUTH" => Rank(r.s.mech) > Rank(c.mech)
    /\ c.state \in {"data", "reject"} =>
          /\ r.s.fds = c.fds
          /\ r.s.state = "agree" => One(r.out, "NEGOTIATE")
          /\ r.s.state \in {"data", "reject"} /\ r.out # <<>> => r.out[1].cmd # "NEGOTIATE"
    /\ c.state = "agree" /\ l.cmd \in {"AGREE", "ERROR"} =>
          r.s.state = "authenticated" /\ r.s.fds = (l.cmd = "AGREE")

LEMMA NoDataAnswers ==
    ASSUME NEW c \in Cmds
    PROVE  KnownAnswer(Line(c, None, NoData))
  BY DEF KnownAnswer, Line, NoData, Answer

\* An outcome without a line, and one with a line that has no data.
LEMMA PlainResponse ==
    ASSUME NEW c, NEW l, NEW u \in ClientObjects, u.state # "authenticated",
           Ordered(c) /\ Heard(l) => Ordered(u),
           c.state \in {"data", "reject"} => u.fds = c.fds /\ u.state # "agree",
           c.state = "agree" => l.cmd \notin {"AGREE", "ERROR"}
    PROVE  Response(c, l, Outcome(u, <<>>))
  BY DEF Response, Outcome, Replies

LEMMA LineResponse ==
    ASSUME NEW c, NEW l, NEW u \in ClientObjects, NEW k \in Cmds \ {"AUTH", "REJECTED", "message"},
           Ordered(c) => Ordered(u),
           u.state = "authenticated" => k = "BEGIN",
           c.state \in {"data", "reject"} =>
              u.fds = c.fds /\ (u.state = "agree" => k = "NEGOTIATE")
              /\ (u.state \in {"data", "reject"} => k # "NEGOTIATE"),
           c.state = "agree" /\ l.cmd \in {"AGREE", "ERROR"} =>
              u.state = "authenticated" /\ u.fds = (l.cmd = "AGREE")
    PROVE  Response(c, l, Outcome(u, <<Line(k, None, NoData)>>))
<1> DEFINE a == Line(k, None, NoData)
<1>1. a \in Lines /\ KnownAnswer(a) /\ a.cmd = k
  BY PlainLines, NoDataAnswers DEF Line
<1>2. Outcome(u, <<a>>).s = u /\ Outcome(u, <<a>>).out = <<a>>
  BY DEF Outcome
<1> HIDE DEF a
<1>3. Replies(Outcome(u, <<a>>))
  BY <1>1, <1>2 DEF Replies
<1> QED
  BY <1>1, <1>2, <1>3 DEF Response, One, a

\* The mechanisms have ranks, and what is to be tried next comes later.
LEMMA Ranks ==
    /\ Rank("EXTERNAL") = 1 /\ Rank("COOKIE") = 2 /\ Rank("ANONYMOUS") = 3
    /\ MechSet = {"EXTERNAL", "COOKIE", "ANONYMOUS"}
<1>1. Mechanisms[1] = "EXTERNAL" /\ Mechanisms[2] = "COOKIE" /\ Mechanisms[3] = "ANONYMOUS"
  BY DEF Mechanisms
<1>2. 1..3 = {1, 2, 3}
  OBVIOUS
<1>3. MechSet = {"EXTERNAL", "COOKIE", "ANONYMOUS"}
  BY <1>1, <1>2 DEF MechSet
<1>4. Rank("EXTERNAL") = 1
  BY <1>1, <1>2 DEF Rank
<1>5. Rank("COOKIE") = 2
  BY <1>1, <1>2 DEF Rank
<1>6. Rank("ANONYMOUS") = 3
  BY <1>1, <1>2 DEF Rank
<1> QED
  BY <1>3, <1>4, <1>5, <1>6

\* Some place is the first that is worth a try.
LEMMA Smallest ==
    ASSUME NEW T, T \subseteq Nat, T # {}
    PROVE  Min(T) \in T /\ \A y \in T : Min(T) <= y
<1> DEFINE R == {ss \in Nat \X Nat : ss[1] < ss[2]}
<1>1. IsWellFoundedOn(R, Nat)
  BY NatLessThanWellFounded DEF OpToRel
<1> HIDE DEF R
<1>2. PICK x \in T : \A y \in T : ~ (<<y, x>> \in R)
  BY <1>1, WFMin
<1>3. ASSUME NEW y \in T PROVE x <= y
  <2>1. x \in Nat /\ y \in Nat
    OBVIOUS
  <2>2. <<y, x>> \notin R
    BY <1>2
  <2>3. y < x => <<y, x>> \in R
    BY <2>1 DEF R
  <2> QED
    BY <2>1, <2>2, <2>3
<1> QED
  BY <1>3 DEF Min

\* What the next attempt is, and what it leaves of the list.
LEMMA NextOfList ==
    ASSUME NEW q \in Seq(Words), Worth(q) # {}
    PROVE  /\ q[Min(Worth(q))] \in MechSet \ {"EXTERNAL"}
           /\ SubSeq(q, Min(Worth(q)) + 1, Len(q)) \in Seq(Words)
           /\ Len(SubSeq(q, Min(Worth(q)) + 1, Len(q))) < Len(q)
<1>0. Worth(q) \subseteq 1..Len(q) /\ 1..Len(q) \subseteq Nat
  BY DEF Worth
<1>1. Min(Worth(q)) \in Worth(q)
  BY <1>0, Smallest
<1>2. PICK i \in 1..Len(q) : i = Min(Worth(q))
  BY <1>0, <1>1
<1>3. q[i] \in MechSet \ {"EXTERNAL"}
  BY <1>1, <1>2 DEF Worth, Mechanisms
<1>4. SubSeq(q, i + 1, Len(q)) \in Seq(Words) /\ Len(SubSeq(q, i + 1, Len(q))) < Len(q)
  <2>1. Len(q) \in Nat /\ i \in Nat \ {0} /\ i <= Len(q)
    OBVIOUS
  <2>2. \A j \in (i + 1)..Len(q) : j \in 1..Len(q)
    BY <2>1
  <2>3. SubSeq(q, i + 1, Len(q)) \in Seq(Words)
    BY <2>1, <2>2, SubSeqProperties
  <2>4. Len(SubSeq(q, i + 1, Len(q))) = (IF i + 1 <= Len(q) THEN Len(q) - i ELSE 0)
    BY <2>1, <2>2, SubSeqProperties
  <2> QED
    BY <2>1, <2>3, <2>4
<1> QED
  BY <1>2, <1>3, <1>4

\* The same against a libdbus server.
LEMMA NextOfRest ==
    ASSUME NEW m \in MechSet
    PROVE  IF m = "ANONYMOUS" THEN Worth(Rest[m]) = {}
           ELSE LET i == Min(Worth(Rest[m]))
                    n == Rest[m][i] IN
                /\ Worth(Rest[m]) # {}
                /\ n \in MechSet /\ Rank(n) > Rank(m) /\ SubSeq(Rest[m], i + 1, Len(Rest[m])) = Rest[n]
<1>0. Mechanisms[1] = "EXTERNAL" /\ Mechanisms[2] = "COOKIE" /\ Mechanisms[3] = "ANONYMOUS"
      /\ DOMAIN Mechanisms = {1, 2, 3} /\ Len(Mechanisms) = 3
  BY DEF Mechanisms
<1>1. CASE m = "EXTERNAL"
  <2>1. Rest[m] = Mechanisms
    BY <1>1 DEF Rest
  <2>2. Worth(Mechanisms) = {2, 3}
    BY <1>0, Ranks DEF Worth
  <2>3. Min({2, 3}) = 2
    BY DEF Min
  <2>4. SubSeq(Mechanisms, 3, 3) = <<"ANONYMOUS">>
    <3> DEFINE t == SubSeq(Mechanisms, 3, 3)
    <3>1. \A k \in 3..3 : Mechanisms[k] \in {"ANONYMOUS"}
      BY <1>0
    <3>2. t \in Seq({"ANONYMOUS"}) /\ Len(t) = 1
      BY <3>1, SubSeqProperties
    <3> HIDE DEF t
    <3>3. t[1] = "ANONYMOUS"
      BY <3>2
    <3>4. <<"ANONYMOUS">> \in Seq({"ANONYMOUS"}) /\ Len(<<"ANONYMOUS">>) = 1
      OBVIOUS
    <3>5. \A k \in 1..Len(t) : t[k] = <<"ANONYMOUS">>[k]
      BY <3>2, <3>3
    <3>6. t = <<"ANONYMOUS">>
      BY <3>2, <3>4, <3>5, SeqEqual
    <3> QED
      BY <3>6 DEF t
  <2>5. Rest["COOKIE"] = <<"ANONYMOUS">>
    BY DEF Rest
  <2>6. m # "ANONYMOUS" /\ Worth(Rest[m]) # {} /\ Min(Worth(Rest[m])) = 2 /\ Rest[m][2] = "COOKIE"
    BY <1>0, <1>1, <2>1, <2>2, <2>3
  <2>7. SubSeq(Rest[m], 2 + 1, Len(Rest[m])) = Rest["COOKIE"]
    <3>1. Len(Rest[m]) = 3 /\ 2 + 1 = 3
      BY <1>0, <2>1
    <3>2. SubSeq(Rest[m], 2 + 1, Len(Rest[m])) = SubSeq(Mechanisms, 3, 3)
      BY <2>1, <3>1
    <3> QED
      BY <2>4, <2>5, <3>2
  <2> QED
    BY <1>1, <2>6, <2>7, Ranks
<1>2. CASE m = "COOKIE"
  <2> DEFINE q == <<"ANONYMOUS">>
  <2>1. Rest[m] = q
    BY <1>2 DEF Rest
  <2>2. Worth(q) = {1}
    BY <1>0, Ranks DEF Worth
  <2>3. Min({1}) = 1
    BY DEF Min
  <2>4. SubSeq(q, 2, 1) = <<>> /\ Len(q) = 1 /\ q[1] = "ANONYMOUS"
    OBVIOUS
  <2>5. Rest["ANONYMOUS"] = <<>>
    BY DEF Rest
  <2> HIDE DEF q
  <2>6. m # "ANONYMOUS" /\ Worth(Rest[m]) # {} /\ Min(Worth(Rest[m])) = 1 /\ Rest[m][1] = "ANONYMOUS"
    BY <1>2, <2>1, <2>2, <2>3, <2>4
  <2>7. SubSeq(Rest[m], 1 + 1, Len(Rest[m])) = Rest["ANONYMOUS"]
    BY <2>1, <2>4, <2>5
  <2> QED
    BY <1>2, <2>6, <2>7, Ranks
<1>3. CASE m = "ANONYMOUS"
  BY <1>3 DEF Rest, Worth
<1> QED
  BY <1>1, <1>2, <1>3, Ranks

\* send_auth for a mechanism of the list claims to be Me.
LEMMA AuthResponse ==
    ASSUME NEW c \in ClientObjects, NEW l, c.state # "agree",
           NEW m \in MechSet \ {"EXTERNAL"}, NEW q \in Seq(Words),
           c.got => Len(q) < Len(c.try),
           Ordered(c) /\ Heard(l) => q = Rest[m] /\ Rank(m) > Rank(c.mech),
           NEW d, d = [c EXCEPT !.got = TRUE, !.try = q]
    PROVE  Response(c, l, SendAuth(d, m))
<1> DEFINE u == [d EXCEPT !.state = "data", !.mech = m]
           a == Line("AUTH", m, InitialResponse(m))
<1>1. SendAuth(d, m).s = u /\ SendAuth(d, m).out = <<a>>
  BY DEF SendAuth, Outcome
<1>2. a \in Lines /\ a.cmd = "AUTH"
  BY AuthAssumption DEF Line, Lines, DataSet, InitialResponse, Cmds, Claims
<1>3. KnownAnswer(a)
  BY DEF KnownAnswer, Line, InitialResponse, Answer, NoData, User
<1>4. /\ u \in ClientObjects /\ u.state = "data" /\ u.fds = c.fds /\ u.mech = m
      /\ u.got = TRUE /\ u.try = q
  BY DEF ClientObjects
<1> HIDE DEF u, a
<1>5. Replies(SendAuth(d, m))
  BY <1>1, <1>2 DEF Replies
<1>6. Ordered(c) /\ Heard(l) => Ordered(u)
  BY <1>4 DEF Ordered
<1> QED
  BY <1>1, <1>2, <1>3, <1>4, <1>5, <1>6 DEF Response, One

\* process_rejected goes on with the next mechanism of the list, or gives up.
LEMMA RejectedResponse ==
    ASSUME NEW c \in ClientObjects, NEW l \in Lines, l.cmd = "REJECTED", c.state \in {"data", "reject"}
    PROVE  Response(c, l, ProcessRejected(c, l)) /\ RecordMechanisms(c, l) \in ClientObjects
           /\ RecordMechanisms(c, l).state = c.state /\ RecordMechanisms(c, l).fds = c.fds
           /\ (Ordered(c) /\ Heard(l) => Ordered(RecordMechanisms(c, l)))
<1> DEFINE d == RecordMechanisms(c, l)
<1>1. PICK q \in Seq(Words) : q = (IF c.got THEN c.try ELSE l.data[2])
  BY DEF ClientObjects, Lines, Listed
<1>2. d = [c EXCEPT !.got = TRUE, !.try = q]
  BY <1>1 DEF RecordMechanisms, ClientObjects
<1>3. /\ d \in ClientObjects /\ d.state = c.state /\ d.fds = c.fds /\ d.mech = c.mech
      /\ d.got = TRUE /\ d.try = q
  BY <1>2 DEF ClientObjects
<1>4. Ordered(c) /\ Heard(l) => q = Rest[c.mech] /\ Ordered(d)
  <2>1. CASE c.got
    BY <1>1, <1>3, <2>1 DEF Ordered
  <2>2. CASE ~c.got
    <3>1. Heard(l) => q = Mechanisms
      BY <1>1, <2>2 DEF Heard, RejectedLine, Line, Listed
    <3> QED
      BY <1>3, <2>2, <3>1 DEF Ordered, Rest
  <2> QED
    BY <2>1, <2>2 DEF ClientObjects
<1>5. CASE Worth(q) = {}
  <2> DEFINE u == [d EXCEPT !.state = "disconnect"]
  <2>1. ProcessRejected(c, l) = Outcome(u, <<>>)
    BY <1>3, <1>5 DEF ProcessRejected, Disconnect
  <2>2. /\ u \in ClientObjects /\ u.state = "disconnect" /\ u.fds = c.fds
        /\ u.got = d.got /\ u.try = d.try /\ u.mech = d.mech
    BY <1>3 DEF ClientObjects
  <2>3. Ordered(c) /\ Heard(l) => Ordered(u)
    BY <1>4, <2>2 DEF Ordered
  <2> HIDE DEF u
  <2> QED
    BY <1>3, <1>4, <2>1, <2>2, <2>3, PlainResponse
<1>6. CASE Worth(q) # {}
  <2> DEFINE i == Min(Worth(q))
             p == SubSeq(q, i + 1, Len(q))
             e == [d EXCEPT !.try = SubSeq(@, i + 1, Len(@))]
  <2>1. ProcessRejected(c, l) = SendAuth(e, q[i])
    BY <1>3, <1>6 DEF ProcessRejected
  <2>2. q[i] \in MechSet \ {"EXTERNAL"} /\ p \in Seq(Words) /\ Len(p) < Len(q)
    BY <1>6, NextOfList
  <2>3. e = [c EXCEPT !.got = TRUE, !.try = p]
    BY <1>2, <1>3 DEF ClientObjects
  <2>4. c.got => Len(p) < Len(c.try)
    BY <1>1, <2>2
  <2>5. Ordered(c) /\ Heard(l) => p = Rest[q[i]] /\ Rank(q[i]) > Rank(c.mech)
    <3>1. c.mech \in MechSet
      BY DEF ClientObjects
    <3> QED
      BY <1>4, <1>6, <3>1, NextOfRest
  <2> HIDE DEF d, e, p, i
  <2>6. Response(c, l, SendAuth(e, q[i]))
    BY <2>2, <2>3, <2>4, <2>5, AuthResponse
  <2> QED
    BY <1>3, <1>4, <2>1, <2>6 DEF d
<1> QED
  BY <1>5, <1>6

\* The answer to a challenge is made with the cookies of Me.
LEMMA DataResponse ==
    ASSUME NEW c \in ClientObjects, NEW l, c.state = "data", NEW d \in DataSet
    PROVE  Response(c, l, ClientData(c, d))
<1>0. c.state # "agree" /\ c.state # "authenticated" /\ "ERROR" \in Cmds \ {"AUTH", "REJECTED", "message"}
  BY DEF Cmds
<1>1. CASE c.mech # "COOKIE"
  <2>1. ClientData(c, d) = Outcome(c, <<>>)
    BY <1>1 DEF ClientData
  <2> QED
    BY <1>0, <2>1, PlainResponse
<1>2. CASE c.mech = "COOKIE" /\ d[1] = "challenge"
  <2> DEFINE a == Line("DATA", None, Answer(d[2], Me))
  <2>1. ClientData(c, d) = Outcome(c, <<a>>)
    BY <1>2 DEF ClientData
  <2>2. d[2] \in Nat
    BY <1>2, DataKinds
  <2>3. a \in Lines /\ a.cmd = "DATA"
    BY <2>2, AuthAssumption DEF Line, Lines, DataSet, Cmds
  <2>4. KnownAnswer(a)
    BY DEF KnownAnswer, Line, Answer
  <2>5. Outcome(c, <<a>>).s = c /\ Outcome(c, <<a>>).out = <<a>>
    BY DEF Outcome
  <2> HIDE DEF a
  <2>6. Replies(Outcome(c, <<a>>))
    BY <2>3, <2>5 DEF Replies
  <2> QED
    BY <1>0, <2>1, <2>3, <2>4, <2>5, <2>6 DEF Response
<1>3. CASE c.mech = "COOKIE" /\ d[1] # "challenge"
  <2>1. ClientData(c, d) = Outcome(c, <<Line("ERROR", None, NoData)>>)
    BY <1>3 DEF ClientData, SendError
  <2> QED
    BY <1>0, <2>1, LineResponse
<1> QED
  BY <1>1, <1>2, <1>3

\* What the client does with a line.
LEMMA HandleResponse ==
    ASSUME NEW c \in ClientObjects, ~Ended(c), NEW l \in Lines
    PROVE  Response(c, l, ClientHandle(c, l)) /\ ClientHandle(c, l).done = TRUE
<1> DEFINE r == ClientHandle(c, l)
<1>0. c.state \in {"data", "reject", "agree"} /\ l.data \in DataSet
  BY DEF Ended, ClientObjects, Lines
<1>1. r.done = TRUE
  BY <1>0, SMTT(30) DEF ClientHandle, ClientWaitingForData, ClientWaitingForReject, ClientWaitingForAgree,
     ClientData, ProcessRejected, ProcessOk, SendBegin, SendAuth, SendError, Disconnect, Outcome
<1>2. Response(c, l, SendError(c)) \/ (c.state = "agree" /\ l.cmd \in {"AGREE", "ERROR"})
  <2>1. SendError(c) = Outcome(c, <<Line("ERROR", None, NoData)>>)
    BY DEF SendError
  <2>2. "ERROR" \in Cmds \ {"AUTH", "REJECTED", "message"}
    BY DEF Cmds
  <2> QED
    BY <1>0, <2>1, <2>2, LineResponse
<1>3. ASSUME c.state \in {"data", "reject"} PROVE Response(c, l, Disconnect(c))
  <2> DEFINE u == [c EXCEPT !.state = "disconnect"]
  <2>1. u \in ClientObjects /\ u.state = "disconnect" /\ u.fds = c.fds /\ (Ordered(c) => Ordered(u))
    BY DEF ClientObjects, Ordered
  <2>2. Disconnect(c) = Outcome(u, <<>>)
    BY DEF Disconnect
  <2> HIDE DEF u
  <2> QED
    BY <1>3, <2>1, <2>2, PlainResponse
<1>4. CASE c.state = "data"
  <2>1. r = ClientWaitingForData(c, l)
    BY <1>4 DEF ClientHandle
  <2>2. CASE l.cmd = "DATA"
    BY <1>0, <1>4, <2>1, <2>2, DataResponse, <1>1 DEF ClientWaitingForData
  <2>3. CASE l.cmd = "REJECTED"
    <3>1. r = ProcessRejected(c, l)
      BY <2>1, <2>3 DEF ClientWaitingForData
    <3> QED
      BY <1>1, <1>4, <2>3, <3>1, RejectedResponse
  <2>4. CASE l.cmd = "OK"
    <3>1. r = ProcessOk(c, l)
      BY <2>1, <2>4 DEF ClientWaitingForData
    <3>2. CASE l.data = Bad
      BY <1>1, <1>3, <1>4, <3>1, <3>2 DEF ProcessOk
    <3>3. CASE l.data # Bad /\ "client" \in fdPossible
      <4> DEFINE u == [c EXCEPT !.state = "agree"]
      <4>1. u \in ClientObjects /\ u.state = "agree" /\ u.fds = c.fds /\ (Ordered(c) => Ordered(u))
        BY DEF ClientObjects, Ordered
      <4>2. r = Outcome(u, <<Line("NEGOTIATE", None, NoData)>>)
        BY <3>1, <3>3 DEF ProcessOk
      <4>3. "NEGOTIATE" \in Cmds \ {"AUTH", "REJECTED", "message"}
        BY DEF Cmds
      <4> HIDE DEF u
      <4> QED
        BY <1>1, <1>4, <4>1, <4>2, <4>3, LineResponse
    <3>4. CASE l.data # Bad /\ "client" \notin fdPossible
      <4> DEFINE u == [c EXCEPT !.state = "authenticated"]
      <4>1. u \in ClientObjects /\ u.state = "authenticated" /\ u.fds = c.fds /\ (Ordered(c) => Ordered(u))
        BY DEF ClientObjects, Ordered
      <4>2. r = Outcome(u, <<Line("BEGIN", None, NoData)>>)
        BY <3>1, <3>4 DEF ProcessOk, SendBegin
      <4>3. "BEGIN" \in Cmds \ {"AUTH", "REJECTED", "message"}
        BY DEF Cmds
      <4> HIDE DEF u
      <4> QED
        BY <1>1, <1>4, <4>1, <4>2, <4>3, LineResponse
    <3> QED
      BY <3>2, <3>3, <3>4
  <2>5. CASE l.cmd = "ERROR"
    <3> DEFINE u == [c EXCEPT !.state = "reject"]
    <3>1. u \in ClientObjects /\ u.state = "reject" /\ u.fds = c.fds /\ (Ordered(c) => Ordered(u))
      BY DEF ClientObjects, Ordered
    <3>2. r = Outcome(u, <<Line("CANCEL", None, NoData)>>)
      BY <2>1, <2>5 DEF ClientWaitingForData
    <3>3. "CANCEL" \in Cmds \ {"AUTH", "REJECTED", "message"}
      BY DEF Cmds
    <3> HIDE DEF u
    <3> QED
      BY <1>1, <1>4, <3>1, <3>2, <3>3, LineResponse
  <2>6. CASE l.cmd \notin {"DATA", "REJECTED", "OK", "ERROR"}
    BY <1>1, <1>2, <1>4, <2>1, <2>6 DEF ClientWaitingForData
  <2> QED
    BY <2>2, <2>3, <2>4, <2>5, <2>6
<1>5. CASE c.state = "reject"
  <2>1. r = ClientWaitingForReject(c, l)
    BY <1>5 DEF ClientHandle
  <2>2. CASE l.cmd = "REJECTED"
    <3>1. r = ProcessRejected(c, l)
      BY <2>1, <2>2 DEF ClientWaitingForReject
    <3> QED
      BY <1>1, <1>5, <2>2, <3>1, RejectedResponse
  <2>3. CASE l.cmd # "REJECTED"
    BY <1>1, <1>3, <1>5, <2>1, <2>3 DEF ClientWaitingForReject
  <2> QED
    BY <2>2, <2>3
<1>6. CASE c.state = "agree"
  <2>1. r = ClientWaitingForAgree(c, l)
    BY <1>6 DEF ClientHandle
  <2>2. CASE l.cmd \in {"AGREE", "ERROR"}
    <3> DEFINE e == [c EXCEPT !.fds = l.cmd = "AGREE"]
               u == [e EXCEPT !.state = "authenticated"]
    <3>1. (l.cmd = "AGREE") \in BOOLEAN
      OBVIOUS
    <3>2. /\ u \in ClientObjects /\ u.state = "authenticated" /\ u.fds = (l.cmd = "AGREE")
          /\ u.got = c.got /\ u.try = c.try /\ u.mech = c.mech
      BY DEF ClientObjects
    <3>5. Ordered(c) => Ordered(u)
      BY <3>2 DEF Ordered
    <3>3. r = Outcome(u, <<Line("BEGIN", None, NoData)>>)
      BY <2>1, <2>2 DEF ClientWaitingForAgree, SendBegin
    <3>4. "BEGIN" \in Cmds \ {"AUTH", "REJECTED", "message"}
      BY DEF Cmds
    <3> HIDE DEF u
    <3> QED
      BY <1>1, <1>6, <3>2, <3>3, <3>4, <3>5, LineResponse
  <2>3. CASE l.cmd \notin {"AGREE", "ERROR"}
    BY <1>1, <1>2, <1>6, <2>1, <2>3 DEF ClientWaitingForAgree
  <2> QED
    BY <2>2, <2>3
<1> QED
  BY <1>0, <1>4, <1>5, <1>6
-----------------------------------------------------------------------------
(* The invariant.                                                          *)

LEMMA Heads ==
    ASSUME NEW q \in Seq(Lines), q # <<>>
    PROVE  /\ 1 \in DOMAIN q /\ Head(q) = q[1] /\ Head(q) \in Lines /\ Tail(q) \in Seq(Lines)
           /\ Len(Tail(q)) = Len(q) - 1
           /\ \A i \in DOMAIN Tail(q) : i \in Nat \ {0} /\ i + 1 \in DOMAIN q /\ Tail(q)[i] = q[i + 1]
  OBVIOUS

LEMMA Answered ==
    ASSUME NEW r, Replies(r), NEW q \in Seq(Lines)
    PROVE  q \o r.out \in Seq(Lines)
<1>1. r.out \in Seq(Lines)
  <2>1. CASE r.out = <<>>
    BY <2>1
  <2>2. ASSUME NEW l \in Lines, r.out = <<l>> PROVE r.out \in Seq(Lines)
    BY <2>2
  <2> QED
    BY <2>1, <2>2 DEF Replies
<1> QED
  BY <1>1

LEMMA InitInv ==
    ASSUME Init
    PROVE  IInv
<1>1. NewServer \in ServerObjects
  BY DEF NewServer, ServerObjects
<1>2. NewClient \in ClientObjects
  BY Ranks DEF NewClient, ClientObjects
<1>3. Line("AUTH", "EXTERNAL", User(Me)) \in Lines
  BY Ranks, AuthAssumption DEF Line, Lines, DataSet, Cmds, Claims
<1>4. toServer \in Seq(Lines) /\ toClient \in Seq(Lines)
  BY <1>3 DEF Init
<1>5. Sound(server) /\ Forgotten(server) /\ Counted(server)
  BY AuthAssumption DEF Init, NewServer, Sound, Forgotten, Counted, None
<1>6. \A i \in DOMAIN toServer : KnownAnswer(toServer[i]) /\ toServer[i].cmd # "message"
  BY DEF Init, KnownAnswer, Line, Answer, User
<1> QED
  BY <1>1, <1>2, <1>4, <1>5, <1>6 DEF Init, IInv, Types, MessagesFollow

\* A step of the server: the line at the head was no message.
LEMMA ServerStepInv ==
    ASSUME IInv, ServerStep
    PROVE  IInv'
<1> DEFINE h == Head(toServer)
<1>1. PICK r \in {ServerHandle(server, h)}
                 \cup (IF oom < MaxOom THEN {ServerOutOfMemory(server, h)} ELSE {}) :
         /\ server' = r.s
         /\ toClient' = toClient \o r.out
         /\ toServer' = (IF r.done THEN Tail(toServer) ELSE toServer)
         /\ oom' = (IF r.done THEN oom ELSE oom + 1)
         /\ eaten' = (eaten \/ (h.cmd = "message" /\ r.done))
  BY DEF ServerStep
<1>2. /\ ~Ended(server) /\ toServer # <<>> /\ UNCHANGED <<client, creds>>
      /\ server \in ServerObjects /\ Sound(server) /\ Counted(server)
      /\ toServer \in Seq(Lines) /\ toClient \in Seq(Lines) /\ oom \in Nat
      /\ client \in ClientObjects /\ creds \in SocketUsers
  BY DEF ServerStep, config, IInv, Types
<1>3. h = toServer[1] /\ 1 \in DOMAIN toServer /\ h \in Lines /\ KnownAnswer(h) /\ h.cmd # "message"
  <2>1. h = toServer[1] /\ 1 \in DOMAIN toServer /\ h \in Lines
    BY <1>2, Heads
  <2>2. ~(1 > 1)
    OBVIOUS
  <2> QED
    BY <1>2, <2>1, <2>2 DEF IInv, MessagesFollow
<1> HIDE DEF h
<1>4. /\ r.s \in ServerObjects /\ Sound(r.s)' /\ Counted(r.s) /\ Replies(r) /\ r.done \in BOOLEAN
      /\ r.done => (Forgotten(server) => Forgotten(r.s)) /\ (h.cmd = "BEGIN" => Ended(r.s))
  <2>1. CASE r = ServerHandle(server, h)
    <3>1. Reaction(server, r) /\ (h.cmd = "BEGIN" => Ended(r.s))
      BY <1>2, <1>3, <2>1, HandleReaction
    <3> QED
      BY <1>2, <3>1 DEF Reaction, Sound
  <2>2. CASE r = ServerOutOfMemory(server, h)
    BY <1>2, <1>3, <2>2, OutOfMemoryKeeps DEF Replies, Sound
  <2> QED
    BY <1>1, <2>1, <2>2
<1>5. /\ server' \in ServerObjects /\ Sound(server)' /\ Counted(server)' /\ ~eaten'
  BY <1>1, <1>3, <1>4 DEF IInv, Sound, Counted
<1>6. oom' \in Nat /\ (oom' = 0 => Forgotten(server)')
  BY <1>1, <1>2, <1>4 DEF IInv, Forgotten
<1>7. toClient' \in Seq(Lines)
  BY <1>1, <1>2, <1>4, Answered
<1>8. toServer' \in Seq(Lines) /\ \A i \in DOMAIN toServer' : KnownAnswer(toServer'[i])
  BY <1>1, <1>2, <1>4, Heads DEF IInv
<1>9. MessagesFollow'
  <2> SUFFICES ASSUME ~Ended(server)', NEW i \in DOMAIN toServer', toServer'[i].cmd = "message"
               PROVE  i > 1 /\ toServer'[i - 1].cmd = "BEGIN"
    BY DEF MessagesFollow
  <2>1. CASE ~r.done
    BY <1>1, <1>2, <2>1 DEF IInv, MessagesFollow
  <2>2. CASE r.done
    <3>1. toServer' = Tail(toServer)
      BY <1>1, <2>2
    <3>2. i \in Nat \ {0} /\ i + 1 \in DOMAIN toServer /\ toServer'[i] = toServer[i + 1]
      BY <1>2, <3>1, Heads
    <3>3. i + 1 > 1 /\ toServer[i].cmd = "BEGIN"
      BY <1>2, <3>2 DEF IInv, MessagesFollow
    <3>4. i # 1
      BY <1>1, <1>3, <1>4, <2>2, <3>3 DEF Ended
    <3>5. i - 1 \in DOMAIN Tail(toServer) /\ (i - 1) + 1 = i
      BY <1>2, <3>1, <3>2, <3>4
    <3>6. toServer'[i - 1] = toServer[i]
      BY <1>2, <3>1, <3>5, Heads
    <3> QED
      BY <3>2, <3>3, <3>4, <3>6
  <2> QED
    BY <1>4, <2>1, <2>2
<1> QED
  BY <1>2, <1>5, <1>6, <1>7, <1>8, <1>9 DEF IInv, Types

\* What a client that is libdbus adds to the stream.
LEMMA ClientStepInv ==
    ASSUME IInv, ClientStep
    PROVE  IInv'
<1> DEFINE h == Head(toClient)
<1>1. PICK r \in {ClientHandle(client, h)}
                 \cup (IF oom < MaxOom THEN {ClientOutOfMemory(client, h)} ELSE {}) :
         /\ client' = r.s
         /\ toServer' = toServer \o WithMessage(r.s, r.out)
         /\ toClient' = (IF r.done THEN Tail(toClient) ELSE toClient)
         /\ oom' = (IF r.done THEN oom ELSE oom + 1)
  BY DEF ClientStep
<1>2. /\ ~Ended(client) /\ toClient # <<>> /\ UNCHANGED <<server, creds, eaten>>
      /\ toServer \in Seq(Lines) /\ toClient \in Seq(Lines) /\ oom \in Nat
      /\ server \in ServerObjects /\ client \in ClientObjects /\ creds \in SocketUsers
  BY DEF ClientStep, config, IInv, Types
<1>3. h \in Lines
  BY <1>2, Heads
<1> HIDE DEF h
<1>4. /\ r.s \in ClientObjects /\ r.done \in BOOLEAN
      /\ \/ WithMessage(r.s, r.out) = <<>>
         \/ \E l \in Lines : /\ WithMessage(r.s, r.out) = <<l>>
                            /\ KnownAnswer(l) /\ l.cmd # "message"
         \/ \E l \in Lines : /\ WithMessage(r.s, r.out) = Append(<<l>>, Line("message", None, NoData))
                            /\ KnownAnswer(l) /\ l.cmd = "BEGIN"
  <2>1. CASE r = ClientHandle(client, h)
    <3>1. Response(client, h, r) /\ r.done = TRUE
      BY <1>2, <1>3, <2>1, HandleResponse
    <3>2. CASE r.out = <<>>
      <4>1. r.s.state # "authenticated"
        BY <3>1, <3>2 DEF Response, One
      <4> QED
        BY <3>1, <3>2, <4>1 DEF Response, WithMessage
    <3>3. ASSUME NEW l \in Lines, r.out = <<l>>
          PROVE  /\ KnownAnswer(l) /\ l.cmd # "message"
                 /\ WithMessage(r.s, r.out) = <<l>> \/ (l.cmd = "BEGIN"
                       /\ WithMessage(r.s, r.out) = Append(<<l>>, Line("message", None, NoData)))
      <4>1. r.out # <<>> /\ r.out[1] = l
        BY <3>3
      <4>2. /\ KnownAnswer(l) /\ l.cmd # "message"
            /\ r.s.state = "authenticated" => l.cmd = "BEGIN"
        BY <3>1, <4>1 DEF Response, One
      <4> QED
        BY <3>3, <4>2 DEF WithMessage
    <3> QED
      BY <3>1, <3>2, <3>3 DEF Response, Replies
  <2>2. CASE r = ClientOutOfMemory(client, h)
    <3>1. r.out = <<>> /\ r.done = FALSE
      BY <2>2 DEF ClientOutOfMemory
    <3>2. r.s \in ClientObjects /\ r.s.state = client.state
      <4>1. CASE client.state # "agree" /\ h.cmd = "REJECTED"
        <5>1. client.state \in {"data", "reject"}
          BY <1>2, <4>1 DEF Ended, ClientObjects
        <5> QED
          BY <1>2, <1>3, <2>2, <4>1, <5>1, RejectedResponse DEF ClientOutOfMemory
      <4>2. CASE client.state = "agree" \/ h.cmd # "REJECTED"
        BY <1>2, <2>2, <4>2 DEF ClientOutOfMemory, ClientObjects
      <4> QED
        BY <4>1, <4>2
    <3> QED
      BY <1>2, <3>1, <3>2 DEF WithMessage, Ended
  <2> QED
    BY <1>1, <2>1, <2>2
<1> DEFINE w == WithMessage(r.s, r.out)
           m == Line("message", None, NoData)
<1>5. m \in Lines /\ KnownAnswer(m) /\ m.cmd = "message"
  BY PlainLines, NoDataAnswers DEF Cmds, Line
<1> HIDE DEF w, m
<1>6. toServer' = toServer \o w
  BY <1>1 DEF w
<1>7. /\ toServer' \in Seq(Lines) /\ \A i \in DOMAIN toServer' : KnownAnswer(toServer'[i])
      /\ MessagesFollow'
  <2>1. CASE w = <<>>
    <3>1. toServer' = toServer
      BY <1>2, <1>6, <2>1
    <3> QED
      BY <1>2, <3>1 DEF IInv, MessagesFollow
  <2>2. ASSUME NEW l \in Lines, w = <<l>>, KnownAnswer(l), l.cmd # "message"
        PROVE  <1>7!:
    <3>1. toServer' = Append(toServer, l)
      BY <1>2, <1>6, <2>2
    <3>2. /\ toServer' \in Seq(Lines) /\ DOMAIN toServer' = 1..(Len(toServer) + 1)
          /\ toServer'[Len(toServer) + 1] = l
          /\ \A i \in 1..Len(toServer) : toServer'[i] = toServer[i]
      BY <1>2, <3>1
    <3>3. \A i \in DOMAIN toServer' : i \in DOMAIN toServer \/ i = Len(toServer) + 1
      BY <1>2, <3>2
    <3>4. DOMAIN toServer = 1..Len(toServer) /\ Len(toServer) \in Nat
      BY <1>2
    <3>5. \A i \in DOMAIN toServer' : KnownAnswer(toServer'[i])
      BY <2>2, <3>2, <3>3, <3>4 DEF IInv
    <3>6. \A i \in DOMAIN toServer' : toServer'[i].cmd = "message" => i \in DOMAIN toServer
      BY <2>2, <3>2, <3>3
    <3>7. MessagesFollow'
      <4> SUFFICES ASSUME ~Ended(server)', NEW i \in DOMAIN toServer', toServer'[i].cmd = "message"
                   PROVE  i > 1 /\ toServer'[i - 1].cmd = "BEGIN"
        BY DEF MessagesFollow
      <4>1. i \in DOMAIN toServer /\ toServer[i].cmd = "message" /\ ~Ended(server)
        BY <1>2, <3>2, <3>4, <3>6
      <4>2. i > 1 /\ toServer[i - 1].cmd = "BEGIN"
        BY <4>1 DEF IInv, MessagesFollow
      <4>3. i - 1 \in 1..Len(toServer)
        BY <3>4, <4>1, <4>2
      <4> QED
        BY <3>2, <4>2, <4>3
    <3> QED
      BY <3>2, <3>5, <3>7
  <2>3. ASSUME NEW l \in Lines, w = Append(<<l>>, m), KnownAnswer(l), l.cmd = "BEGIN"
        PROVE  <1>7!:
    <3> DEFINE n == Len(toServer)
    <3>1. n \in Nat /\ w \in Seq(Lines) /\ Len(w) = 2 /\ w[1] = l /\ w[2] = m
      BY <1>2, <1>5, <2>3
    <3>2. /\ toServer' \in Seq(Lines) /\ DOMAIN toServer' = 1..(n + 2)
          /\ toServer'[n + 1] = l /\ toServer'[n + 2] = m
          /\ \A i \in 1..n : toServer'[i] = toServer[i]
      <4>1. toServer \o w \in Seq(Lines) /\ Len(toServer \o w) = n + 2
        BY <1>2, <3>1, ConcatProperties
      <4>2. (toServer \o w)[n + 1] = w[1] /\ (toServer \o w)[n + 2] = w[2]
        BY <1>2, <3>1, ConcatProperties
      <4>3. \A i \in 1..n : (toServer \o w)[i] = toServer[i]
        BY <1>2, <3>1, ConcatProperties
      <4> QED
        BY <1>6, <3>1, <4>1, <4>2, <4>3
    <3>3. \A i \in DOMAIN toServer' : i \in 1..n \/ i = n + 1 \/ i = n + 2
      BY <3>1, <3>2
    <3>4. DOMAIN toServer = 1..n
      BY <1>2
    <3> HIDE DEF n
    <3>5. \A i \in DOMAIN toServer' : KnownAnswer(toServer'[i])
      BY <1>5, <2>3, <3>2, <3>3, <3>4 DEF IInv
    <3>6. MessagesFollow'
      <4> SUFFICES ASSUME ~Ended(server)', NEW i \in DOMAIN toServer', toServer'[i].cmd = "message"
                   PROVE  i > 1 /\ toServer'[i - 1].cmd = "BEGIN"
        BY DEF MessagesFollow
      <4>1. CASE i \in 1..n
        <5>1. toServer[i].cmd = "message" /\ ~Ended(server)
          BY <1>2, <3>2, <4>1
        <5>2. i > 1 /\ toServer[i - 1].cmd = "BEGIN"
          BY <3>4, <4>1, <5>1 DEF IInv, MessagesFollow
        <5>3. i - 1 \in 1..n
          BY <3>1, <4>1, <5>2
        <5> QED
          BY <3>2, <5>2, <5>3
      <4>2. CASE i = n + 1
        BY <2>3, <3>2, <4>2
      <4>3. CASE i = n + 2
        <5>1. i > 1 /\ i - 1 = n + 1
          BY <3>1, <4>3
        <5> QED
          BY <2>3, <3>2, <5>1
      <4> QED
        BY <3>3, <4>1, <4>2, <4>3
    <3> QED
      BY <3>2, <3>5, <3>6
  <2> QED
    BY <1>4, <2>1, <2>2, <2>3 DEF w, m
<1>8. toClient' \in Seq(Lines)
  BY <1>1, <1>2, <1>4, Heads
<1>9. oom' \in Nat /\ (oom' = 0 => Forgotten(server)')
  BY <1>1, <1>2, <1>4 DEF IInv, Forgotten
<1> QED
  BY <1>1, <1>2, <1>4, <1>7, <1>8, <1>9 DEF IInv, Types, Sound, Counted
\* An arbitrary peer sends one line, with the cookies of Me or with an old answer.
LEMMA WildClientInv ==
    ASSUME IInv, WildClient
    PROVE  IInv'
<1>1. server.challenge \in Nat
  BY DEF IInv, Types, ServerObjects
<1>2. \A d \in Guesses : d \in DataSet /\ \A n \in Nat \ {0}, u \in Users : d = Answer(n, u) => u = Me
  <2>1. Me \in Users /\ 0..server.challenge \subseteq Nat
    BY <1>1, AuthAssumption
  <2> QED
    BY <2>1 DEF Guesses, DataSet, Answer, NoData, Bad, User, Claims
<1>3. PICK l : toServer' = <<l>> /\ l \in Lines /\ KnownAnswer(l) /\ l.cmd # "message"
  <2>1. CASE \E m \in MechSet, d \in Guesses : toServer' = <<Line("AUTH", m, d)>>
    BY <1>2, <2>1 DEF Line, Lines, Cmds, KnownAnswer
  <2>2. CASE \E d \in Guesses : toServer' = <<Line("DATA", None, d)>>
    BY <1>2, <2>2 DEF Line, Lines, Cmds, KnownAnswer
  <2>3. CASE \E c \in {"CANCEL", "BEGIN", "ERROR", "NEGOTIATE", "OK"} : toServer' = <<Line(c, None, NoData)>>
    <3>1. PICK c \in {"CANCEL", "BEGIN", "ERROR", "NEGOTIATE", "OK"} : toServer' = <<Line(c, None, NoData)>>
      BY <2>3
    <3>2. c \in Cmds /\ c # "message"
      BY DEF Cmds
    <3>3. Line(c, None, NoData).cmd = c
      BY DEF Line
    <3> QED
      BY <3>1, <3>2, <3>3, PlainLines, NoDataAnswers
  <2> QED
    BY <2>1, <2>2, <2>3 DEF WildClient
<1>4. /\ toServer' \in Seq(Lines) /\ DOMAIN toServer' = {1} /\ toServer'[1] = l
  BY <1>3
<1>5. /\ toClient' = <<>> /\ UNCHANGED <<client, server, creds, oom, eaten>>
  BY DEF WildClient, config
<1> QED
  BY <1>3, <1>4, <1>5 DEF IInv, Types, Sound, Forgotten, Counted, MessagesFollow, Ended

LEMMA WildServerInv ==
    ASSUME IInv, WildServer
    PROVE  IInv'
<1>1. PICK l : toClient' = <<l>> /\ l \in Lines
  <2>1. CASE \E c \in {"ERROR", "AGREE", "CANCEL"} : toClient' = <<Line(c, None, NoData)>>
    <3>1. \A c \in {"ERROR", "AGREE", "CANCEL"} : c \in Cmds \ {"REJECTED"}
      BY DEF Cmds
    <3> QED
      BY <2>1, <3>1, PlainLines
  <2>4. CASE \E q \in Offers : toClient' = <<Line("REJECTED", None, Listed(q))>>
    <3>1. PICK q \in Offers : toClient' = <<Line("REJECTED", None, Listed(q))>>
      BY <2>4
    <3>2. q \in Seq(Words)
      <4>1. PICK n \in 0..MaxListed : q \in [1..n -> Words]
        BY DEF Offers
      <4> QED
        BY <4>1, AuthAssumption
    <3>3. Line("REJECTED", None, Listed(q)) \in Lines
      <4>1. Listed(q) \in {Listed(p) : p \in Seq(Words)}
        BY <3>2
      <4> QED
        BY <4>1 DEF Line, Lines, DataSet, Cmds
    <3> QED
      BY <3>1, <3>3
  <2>2. CASE \E d \in {Bad, User(Me)} : toClient' = <<Line("OK", None, d)>>
    BY <2>2, AuthAssumption DEF Line, Lines, DataSet, Cmds, Claims
  <2>3. CASE \E d \in {NoData, Bad, Challenge(1)} : toClient' = <<Line("DATA", None, d)>>
    BY <2>3 DEF Line, Lines, DataSet, Cmds
  <2> QED
    BY <2>1, <2>2, <2>3, <2>4 DEF WildServer
<1>2. toClient' \in Seq(Lines)
  BY <1>1
<1>3. /\ toServer' = <<>> /\ UNCHANGED <<client, server, creds, oom, eaten>>
  BY DEF WildServer, config
<1> QED
  BY <1>2, <1>3 DEF IInv, Types, Sound, Forgotten, Counted, MessagesFollow

LEMMA StutterInv ==
    ASSUME IInv, UNCHANGED vars
    PROVE  IInv'
  BY DEF IInv, Types, Sound, Forgotten, Counted, MessagesFollow, Ended, vars, config

LEMMA Invariance == Spec => []IInv
<1>1. Init => IInv
  BY InitInv
<1>2. IInv /\ [Next]_vars => IInv'
  BY ServerStepInv, ClientStepInv, WildClientInv, WildServerInv, StutterInv DEF Next
<1> QED
  BY <1>1, <1>2, PTL DEF Spec
-----------------------------------------------------------------------------
(* Two ends that are both libdbus.                                         *)

\* The queues as long as they are, and what they hold.
LEMMA OneLine ==
    ASSUME NEW q \in Seq(Lines), q # <<>>, Len(q) <= 1
    PROVE  Len(q) = 1 /\ Head(q) = q[1] /\ Tail(q) = <<>> /\ DOMAIN q = {1}
<1>1. Len(q) = 1 /\ Head(q) = q[1]
  <2>1. Len(q) \in Nat \ {0}
    BY EmptySeq
  <2> DEFINE n == Len(q)
  <2>2. n \in Nat \ {0} /\ n <= 1
    BY <2>1
  <2> HIDE DEF n
  <2>3. n = 1
    BY <2>2
  <2>4. Head(q) = q[1]
    BY Heads
  <2> QED
    BY <2>3, <2>4 DEF n
<1>2. Tail(q) \in Seq(Lines) /\ Len(Tail(q)) = 0
  BY <1>1, Heads
<1>3. Tail(q) = <<>>
  BY <1>2, EmptySeq
<1>4. DOMAIN q = 1..1
  BY <1>1
<1> QED
  BY <1>1, <1>3, <1>4

\* What is sent into an empty queue.
LEMMA Sent ==
    ASSUME NEW r, Replies(r), NEW q \in Seq(Lines), q = <<>>
    PROVE  /\ q \o r.out = r.out /\ Len(r.out) <= 1 /\ r.out \in Seq(Lines)
           /\ \A i \in DOMAIN r.out : i = 1 /\ r.out # <<>>
<1>1. CASE r.out = <<>>
  BY <1>1
<1>2. ASSUME NEW l \in Lines, r.out = <<l>>
      PROVE  /\ q \o r.out = r.out /\ Len(r.out) <= 1 /\ r.out \in Seq(Lines)
             /\ \A i \in DOMAIN r.out : i = 1 /\ r.out # <<>>
  <2>1. /\ r.out \in Seq(Lines) /\ Len(r.out) = 1 /\ DOMAIN r.out = {1} /\ r.out # <<>>
    BY <1>2
  <2> QED
    BY <2>1
<1> QED
  BY <1>1, <1>2 DEF Replies

LEMMA ServerStepTurns ==
    ASSUME IInv, Turns, ServerStep
    PROVE  Turns'
<1> DEFINE h == Head(toServer)
<1>1. PICK r \in {ServerHandle(server, h)}
                 \cup (IF oom < MaxOom THEN {ServerOutOfMemory(server, h)} ELSE {}) :
         /\ server' = r.s
         /\ toClient' = toClient \o r.out
         /\ toServer' = (IF r.done THEN Tail(toServer) ELSE toServer)
  BY DEF ServerStep
<1>2. /\ ~Ended(server) /\ toServer # <<>> /\ UNCHANGED <<client, fdPossible>>
      /\ server \in ServerObjects /\ Sound(server) /\ Counted(server)
      /\ toServer \in Seq(Lines) /\ toClient \in Seq(Lines)
      /\ client \in ClientObjects
  BY DEF ServerStep, config, IInv, Types
<1>3. h = toServer[1] /\ 1 \in DOMAIN toServer /\ h \in Lines /\ KnownAnswer(h)
  BY <1>2, Heads DEF IInv
<1> HIDE DEF h
<1> DEFINE a == ServerHandle(server, h)
<1>4. /\ Reaction(server, a)
      /\ h.cmd # "NEGOTIATE" => Quiet(server, a)
      /\ h.cmd = "NEGOTIATE" =>
            \/ Agreed(server, a)
            \/ ~(server.state = "begin" /\ "server" \in fdPossible) /\ a = SendError(server)
  BY <1>2, <1>3, HandleReaction
<1>5. \/ r = a
      \/ /\ r = ServerOutOfMemory(server, h) /\ r.out = <<>> /\ r.done = FALSE
         /\ r.s.state = server.state /\ r.s.fds \in {server.fds, a.s.fds}
  <2>1. r = a \/ r = ServerOutOfMemory(server, h)
    BY <1>1
  <2>2. LET u == ServerOutOfMemory(server, h) IN
        u.out = <<>> /\ u.done = FALSE /\ u.s.state = server.state /\ u.s.fds \in {server.fds, a.s.fds}
    BY <1>2, <1>3, OutOfMemoryKeeps
  <2> QED
    BY <2>1, <2>2
<1>6. a.done = TRUE /\ Replies(a)
  BY <1>4 DEF Reaction
<1> HIDE DEF a
<1>7. CASE client.state \in {"data", "reject"}
  <2>1. /\ ~client.fds /\ ~server.fds /\ Len(toServer) = 1 /\ toClient = <<>>
        /\ Tail(toServer) = <<>> /\ h.cmd # "NEGOTIATE"
    BY <1>2, <1>3, <1>7, OneLine DEF Turns
  <2>2. Quiet(server, a)
    BY <1>4, <2>1
  <2>3. CASE r = a
    <3>1. toServer' = <<>> /\ toClient' = a.out /\ Len(a.out) <= 1 /\ Len(a.out) \in Nat
      BY <1>1, <1>2, <1>6, <2>1, <2>3, Sent
    <3>2. \A i \in DOMAIN a.out : a.out[i].cmd # "AGREE"
      BY <1>2, <1>6, <2>1, <2>2, Sent DEF Quiet
    <3>3. server'.fds = server.fds
      BY <1>1, <2>2, <2>3 DEF Quiet
    <3> QED
      BY <1>2, <1>7, <2>1, <3>1, <3>2, <3>3 DEF Turns
  <2>4. CASE r # a
    <3>1. toServer' = toServer /\ toClient' = toClient
      BY <1>1, <1>2, <1>5, <2>1, <2>4
    <3>2. server'.fds = server.fds
      BY <1>1, <1>5, <2>2, <2>4 DEF Quiet
    <3> QED
      BY <1>2, <1>7, <3>1, <3>2 DEF Turns
  <2> QED
    BY <2>3, <2>4
<1>8. CASE client.state = "agree"
  <2>1. One(toServer, "NEGOTIATE") /\ toClient = <<>> /\ ~client.fds
    BY <1>2, <1>8 DEF Turns
  <2>2. h.cmd = "NEGOTIATE" /\ Tail(toServer) = <<>>
    <3>1. Len(toServer) = 1 /\ Len(toServer) <= 1 /\ toServer[1].cmd = "NEGOTIATE"
      BY <2>1 DEF One
    <3> QED
      BY <1>2, <1>3, <3>1, OneLine
  <2>3. server.fds => "server" \in fdPossible /\ server.state = "begin"
    BY <1>8 DEF Turns
  <2>4. CASE r = a /\ Agreed(server, a)
    <3>1. toServer' = <<>> /\ toClient' = a.out /\ a.out = <<Line("AGREE", None, NoData)>>
      BY <1>1, <1>2, <1>6, <2>1, <2>2, <2>4, Sent DEF Agreed
    <3>2. One(toClient', "AGREE")
      BY <3>1 DEF One, Line
    <3> QED
      BY <1>1, <1>2, <1>8, <2>4, <3>1, <3>2 DEF Turns, Agreed
  <2>5. CASE r = a /\ ~Agreed(server, a)
    <3>1. a.s = server /\ a.out = <<Line("ERROR", None, NoData)>> /\ ~server.fds
      BY <1>4, <2>2, <2>3, <2>5 DEF SendError, Outcome
    <3>2. toServer' = <<>> /\ toClient' = a.out
      BY <1>1, <1>2, <1>6, <2>1, <2>2, <2>5, Sent
    <3>3. One(toClient', "ERROR")
      BY <3>1, <3>2 DEF One, Line
    <3> QED
      BY <1>1, <1>2, <1>8, <2>5, <3>1, <3>2, <3>3 DEF Turns
  <2>6. CASE r # a
    <3>1. toServer' = toServer /\ toClient' = toClient
      BY <1>1, <1>2, <1>5, <2>1, <2>6
    <3>2. server'.fds => "server" \in fdPossible /\ server'.state = "begin"
      <4>1. server'.state = server.state /\ server'.fds \in {server.fds, a.s.fds}
        BY <1>1, <1>5, <2>6
      <4>2. \/ "server" \in fdPossible /\ server.state = "begin"
            \/ a.s = server
        BY <1>4, <2>2 DEF Agreed, SendError, Outcome
      <4> QED
        BY <2>3, <4>1, <4>2
    <3> QED
      BY <1>2, <1>8, <2>1, <3>1, <3>2 DEF Turns
  <2> QED
    BY <2>4, <2>5, <2>6
<1>9. CASE client.state = "authenticated"
  <2>1. client.fds = server.fds /\ \A i \in DOMAIN toServer : toServer[i].cmd \in {"BEGIN", "message"}
    BY <1>9 DEF Turns
  <2>2. Quiet(server, a)
    BY <1>3, <1>4, <2>1
  <2>3. server'.fds = server.fds
    BY <1>1, <1>5, <2>2 DEF Quiet
  <2>4. \A i \in DOMAIN toServer' : toServer'[i].cmd \in {"BEGIN", "message"}
    BY <1>1, <1>2, <2>1, Heads
  <2> QED
    BY <1>2, <1>9, <2>1, <2>3, <2>4 DEF Turns
<1>10. CASE client.state = "disconnect"
  BY <1>2, <1>10 DEF Turns
<1> QED
  BY <1>2, <1>7, <1>8, <1>9, <1>10 DEF ClientObjects

LEMMA ClientStepTurns ==
    ASSUME IInv, Turns, ClientStep
    PROVE  Turns'
<1> DEFINE h == Head(toClient)
<1>1. PICK r \in {ClientHandle(client, h)}
                 \cup (IF oom < MaxOom THEN {ClientOutOfMemory(client, h)} ELSE {}) :
         /\ client' = r.s
         /\ toServer' = toServer \o WithMessage(r.s, r.out)
         /\ toClient' = (IF r.done THEN Tail(toClient) ELSE toClient)
  BY DEF ClientStep
<1>2. /\ ~Ended(client) /\ toClient # <<>> /\ UNCHANGED <<server, fdPossible>>
      /\ toServer \in Seq(Lines) /\ toClient \in Seq(Lines) /\ client \in ClientObjects
  BY DEF ClientStep, config, IInv, Types
<1>3. h = toClient[1] /\ 1 \in DOMAIN toClient /\ h \in Lines
  BY <1>2, Heads
<1> HIDE DEF h
<1>4. toServer = <<>> /\ Tail(toClient) = <<>> /\ client.state \in {"data", "reject", "agree"}
  <2>1. client.state \in {"data", "reject", "agree"}
    BY <1>2 DEF Ended, ClientObjects
  <2>2. Len(toServer) \in Nat /\ Len(toClient) \in Nat \ {0} /\ (Len(toServer) = 0 => toServer = <<>>)
    BY <1>2
  <2>3. CASE client.state \in {"data", "reject"}
    BY <1>2, <2>1, <2>2, <2>3, OneLine DEF Turns
  <2>4. CASE client.state = "agree"
    <3>1. toServer = <<>> /\ Len(toClient) = 1
      BY <1>2, <2>4 DEF Turns, One
    <3>2. Len(toClient) <= 1
      BY <3>1
    <3> QED
      BY <1>2, <2>1, <3>1, <3>2, OneLine
  <2> QED
    BY <2>1, <2>3, <2>4
<1>5. CASE r = ClientHandle(client, h)
  <2>1. Response(client, h, r) /\ r.done = TRUE
    BY <1>2, <1>3, <1>5, HandleResponse
  <2>2. toClient' = <<>> /\ r.out \in Seq(Lines) /\ Len(r.out) <= 1
        /\ \A i \in DOMAIN r.out : i = 1 /\ r.out # <<>>
    BY <1>1, <1>2, <1>4, <2>1, Sent DEF Response
  <2>3. CASE r.s.state = "authenticated"
    <3> DEFINE m == Line("message", None, NoData)
               w == Append(r.out, m)
    <3>1. m \in Lines /\ m.cmd = "message"
      BY PlainLines DEF Cmds, Line
    <3> HIDE DEF m
    <3>2. One(r.out, "BEGIN") /\ r.out \in Seq(Lines)
      BY <2>1, <2>2, <2>3 DEF Response
    <3>3. /\ w \in Seq(Lines) /\ DOMAIN w = {1, 2} /\ w[1] = r.out[1] /\ w[2] = m
      BY <3>1, <3>2 DEF One
    <3>4. toServer' = w
      BY <1>1, <1>4, <2>3, <3>3 DEF WithMessage, m
    <3> HIDE DEF w
    <3>5. \A i \in DOMAIN toServer' : toServer'[i].cmd \in {"BEGIN", "message"}
      BY <3>1, <3>2, <3>3, <3>4 DEF One
    <3>6. client'.fds = server.fds
      <4>1. CASE client.state \in {"data", "reject"}
        <5>1. ~client.fds /\ ~server.fds /\ client'.fds = client.fds
          BY <1>1, <2>1, <4>1 DEF Turns, Response
        <5>2. client.fds \in BOOLEAN /\ server.fds \in BOOLEAN
          BY DEF IInv, Types, ClientObjects, ServerObjects
        <5> QED
          BY <5>1, <5>2
      <4>2. CASE client.state = "agree"
        <5>1. \/ h.cmd = "AGREE" /\ server.fds
              \/ h.cmd = "ERROR" /\ ~server.fds
          BY <1>2, <1>3, <4>2 DEF Turns, One
        <5> QED
          BY <1>1, <1>2, <2>1, <4>2, <5>1 DEF Response, ClientObjects, IInv, Types, ServerObjects
      <4> QED
        BY <1>4, <4>1, <4>2
    <3> QED
      BY <1>1, <1>2, <2>3, <3>5, <3>6 DEF Turns
  <2>4. CASE r.s.state # "authenticated"
    <3>1. toServer' = r.out
      BY <1>1, <1>4, <2>2, <2>4 DEF WithMessage
    <3>2. client.state \in {"data", "reject"}
      BY <1>2, <1>3, <1>4, <2>1, <2>4 DEF Turns, One, Response
    <3>3. /\ ~client'.fds /\ ~server.fds /\ client'.state = r.s.state
      BY <1>1, <2>1, <3>2 DEF Turns, Response
    <3>4. r.s.state = "agree" => One(r.out, "NEGOTIATE")
      BY <2>1, <3>2 DEF Response
    <3>5. r.s.state \in {"data", "reject"} => \A i \in DOMAIN r.out : r.out[i].cmd # "NEGOTIATE"
      BY <2>1, <2>2, <3>2 DEF Response
    <3>6. Len(toServer') + Len(toClient') <= 1 /\ DOMAIN toClient' = {}
      BY <2>2, <3>1
    <3> QED
      BY <1>2, <2>2, <2>4, <3>1, <3>3, <3>4, <3>5, <3>6 DEF Turns
  <2> QED
    BY <2>3, <2>4
<1>6. CASE r = ClientOutOfMemory(client, h)
  <2>1. r.out = <<>> /\ r.done = FALSE
    BY <1>6 DEF ClientOutOfMemory
  <2>2. client'.state = client.state
        /\ (client.state \in {"data", "reject"} => client'.fds = client.fds)
        /\ (client.state = "agree" /\ h.cmd # "AGREE" => client'.fds = client.fds)
    <3>1. CASE client.state # "agree" /\ h.cmd = "REJECTED"
      BY <1>1, <1>2, <1>3, <1>4, <1>6, <3>1, RejectedResponse DEF ClientOutOfMemory
    <3>2. CASE client.state = "agree" \/ h.cmd # "REJECTED"
      BY <1>1, <1>2, <1>6, <3>2 DEF ClientOutOfMemory, ClientObjects
    <3> QED
      BY <3>1, <3>2
  <2>3. WithMessage(r.s, r.out) = <<>>
    BY <1>1, <1>2, <2>1, <2>2 DEF WithMessage, Ended
  <2>4. toServer' = toServer /\ toClient' = toClient
    BY <1>1, <1>4, <2>1, <2>3
  <2>5. CASE client.state \in {"data", "reject"}
    BY <1>2, <2>2, <2>4, <2>5 DEF Turns
  <2>6. CASE client.state = "agree"
    BY <1>2, <1>3, <1>4, <2>2, <2>4, <2>6 DEF Turns, One
  <2> QED
    BY <1>4, <2>5, <2>6
<1> QED
  BY <1>1, <1>5, <1>6
LEMMA PairInvariance == Spec => []PairInv
<1>1. Init => PairInv
  <2>1. ASSUME Init, Wild = {} PROVE Turns
    <3>1. toServer = <<Line("AUTH", "EXTERNAL", User(Me))>> /\ toClient = <<>>
      BY <2>1 DEF Init
    <3>2. Len(toServer) + Len(toClient) <= 1 /\ DOMAIN toServer = {1} /\ toServer[1].cmd = "AUTH"
      BY <3>1 DEF Line
    <3> QED
      BY <2>1, <3>1, <3>2 DEF Init, NewClient, NewServer, Turns
  <2> QED
    BY <2>1 DEF PairInv
<1>2. IInv /\ PairInv /\ [Next]_vars => PairInv'
  <2> SUFFICES ASSUME IInv, Wild = {}, Turns, [Next]_vars PROVE Turns'
    BY DEF PairInv
  <2>1. CASE UNCHANGED vars
    BY <2>1 DEF Turns, vars, config, One
  <2> QED
    BY <2>1, ServerStepTurns, ClientStepTurns DEF Next, WildClient, WildServer
<1> QED
  BY <1>1, <1>2, Invariance, PTL DEF Spec

\* The conversation is sound.  From IInv: who is let in is vouched for, because authorized is
\* never a user for whom nothing speaks and none that was let in is without it; what a rejection
\* forgets; that a message never stands at the head of the lines of a server at work.  From
\* PairInv: what two libdbus ends hold of descriptors.
THEOREM PeersAreAuthentic == Spec => []ConversationIsSound
<1>1. IInv => TypeOK
  BY DEF IInv, Types, TypeOK, ServerObjects, ClientObjects
<1>2. IInv => IdentityIsProven /\ RejectionForgets /\ NoMessageEaten
  BY DEF IInv, Sound, Forgotten, IdentityIsProven, RejectionForgets, NoMessageEaten
<1>3. PairInv => (Wild = {} => FdsAgree)
  BY DEF PairInv, Turns, FdsAgree
<1> QED
  BY <1>1, <1>2, <1>3, Invariance, PairInvariance, PTL DEF ConversationIsSound

\* After the last failure the server is disconnected for good.
THEOREM FailuresEnd == Spec => [][FailuresAreFinal]_vars
<1>1. IInv /\ [Next]_vars => [FailuresAreFinal]_vars
  <2> SUFFICES ASSUME IInv, Next, server.failures = MaxFailures PROVE UNCHANGED server
    BY DEF FailuresAreFinal
  <2>1. Ended(server)
    BY DEF IInv, Counted, Ended
  <2> QED
    BY <2>1 DEF Next, ServerStep, ClientStep, WildClient, WildServer
<1> QED
  BY <1>1, Invariance, PTL DEF Spec
-----------------------------------------------------------------------------
(* The order of the attempts.                                              *)

\* What a step of the client puts into the stream, and what it leaves of the list.
LEMMA ClientAttempts ==
    ASSUME IInv, ClientStep
    PROVE  /\ Attempt => /\ client'.mech # "EXTERNAL" /\ client'.got
                         /\ client.got => Len(client'.try) < Len(client.try)
           /\ Ordered(client) /\ Heard(Head(toClient)) =>
                 Ordered(client)' /\ (Attempt => Rank(client'.mech) > Rank(client.mech))
           /\ toClient' = toClient \/ toClient' = Tail(toClient)
<1> DEFINE h == Head(toClient)
<1>1. PICK r \in {ClientHandle(client, h), ClientOutOfMemory(client, h)} :
         /\ client' = r.s /\ toServer' = toServer \o WithMessage(r.s, r.out)
         /\ toClient' = (IF r.done THEN Tail(toClient) ELSE toClient)
  BY DEF ClientStep
<1>2. /\ toClient # <<>> /\ ~Ended(client)
      /\ toServer \in Seq(Lines) /\ toClient \in Seq(Lines) /\ client \in ClientObjects
  BY DEF ClientStep, IInv, Types
<1>3. h \in Lines
  BY <1>2, Heads
<1>4. toClient' = toClient \/ toClient' = Tail(toClient)
  BY <1>1
<1> HIDE DEF h
<1>5. CASE r = ClientHandle(client, h)
  <2>1. Response(client, h, r)
    BY <1>2, <1>3, <1>5, HandleResponse
  <2>2. Attempt => r.out # <<>> /\ r.out[1].cmd = "AUTH"
    <3>1. CASE r.s.state = "authenticated"
      <4> DEFINE m == Line("message", None, NoData)
                 w == Append(r.out, m)
      <4>1. m \in Lines /\ m.cmd = "message"
        BY PlainLines DEF Cmds, Line
      <4> HIDE DEF m
      <4>2. PICK l \in Lines : r.out = <<l>>
        BY <2>1, <3>1 DEF Response, Replies, One
      <4>3. w \in Seq(Lines) /\ Len(w) = 2 /\ w[2] = m
        BY <4>1, <4>2
      <4>4. toServer' = toServer \o w
        BY <1>1, <3>1 DEF WithMessage, m
      <4> HIDE DEF w
      <4>5. toServer'[Len(toServer')] = m
        <5>1. toServer \in Seq(Lines) /\ w \in Seq(Lines) /\ Len(toServer) \in Nat
          BY <1>2, <4>3
        <5>2. Len(toServer \o w) = Len(toServer) + Len(w)
          BY <5>1, ConcatProperties
        <5>3. \A i \in 1..Len(toServer) + Len(w) :
                 (toServer \o w)[i] = (IF i <= Len(toServer) THEN toServer[i] ELSE w[i - Len(toServer)])
          BY <5>1, ConcatProperties
        <5>4. Len(toServer') = Len(toServer) + 2
          BY <4>3, <4>4, <5>2
        <5>5. (toServer \o w)[Len(toServer) + 2] = w[2]
          BY <4>3, <5>1, <5>3
        <5> QED
          BY <4>3, <4>4, <5>4, <5>5
      <4> QED
        BY <4>1, <4>5 DEF Attempt
    <3>2. CASE r.s.state # "authenticated" /\ r.out = <<>>
      <4>1. toServer' = toServer
        BY <1>1, <1>2, <3>2 DEF WithMessage
      <4> QED
        BY <1>2, <4>1 DEF Attempt
    <3>3. ASSUME r.s.state # "authenticated", NEW l \in Lines, r.out = <<l>>
          PROVE  Attempt => r.out # <<>> /\ r.out[1].cmd = "AUTH"
      <4>1. toServer' = toServer \o <<l>>
        BY <1>1, <3>3 DEF WithMessage
      <4>2. toServer'[Len(toServer')] = l
        BY <1>2, <4>1
      <4> QED
        BY <3>3, <4>2 DEF Attempt
    <3> QED
      BY <2>1, <3>1, <3>2, <3>3 DEF Response, Replies
  <2> QED
    BY <1>1, <1>4, <2>1, <2>2 DEF Response, Ordered, h
<1>6. CASE r = ClientOutOfMemory(client, h)
  <2>1. r.out = <<>> /\ r.s.state = client.state
    BY <1>2, <1>6 DEF ClientOutOfMemory, RecordMechanisms, ClientObjects
  <2>2. toServer' = toServer
    BY <1>1, <1>2, <2>1 DEF WithMessage, Ended
  <2>3. ~Attempt
    BY <1>2, <2>2 DEF Attempt
  <2>4. Ordered(client) /\ Heard(h) => Ordered(r.s)
    <3>1. CASE client.state # "agree" /\ h.cmd = "REJECTED"
      <4>1. client.state \in {"data", "reject"}
        BY <1>2, <3>1 DEF Ended, ClientObjects
      <4> QED
        BY <1>2, <1>3, <1>6, <3>1, <4>1, RejectedResponse DEF ClientOutOfMemory
    <3>2. CASE client.state = "agree" \/ h.cmd # "REJECTED"
      BY <1>2, <1>6, <3>2 DEF ClientOutOfMemory, ClientObjects, Ordered
    <3> QED
      BY <3>1, <3>2
  <2> QED
    BY <1>1, <1>4, <2>3, <2>4 DEF Ordered, h
<1> QED
  BY <1>1, <1>5, <1>6

\* Only the client adds to its stream.
LEMMA OthersAttemptNothing ==
    ASSUME IInv, ServerStep \/ WildServer
    PROVE  ~Attempt /\ UNCHANGED client
<1>1. toServer \in Seq(Lines)
  BY DEF IInv, Types
<1>2. CASE ServerStep
  <2>1. toServer # <<>> /\ (toServer' = toServer \/ toServer' = Tail(toServer))
    BY <1>2 DEF ServerStep
  <2>2. Len(toServer) \in Nat /\ Len(Tail(toServer)) = Len(toServer) - 1
    BY <1>1, <2>1, Heads
  <2> QED
    BY <1>2, <2>1, <2>2 DEF Attempt, ServerStep
<1>3. CASE WildServer
  BY <1>1, <1>3 DEF Attempt, WildServer
<1> QED
  BY <1>2, <1>3

\* A libdbus server offers its own list, always the same.
LEMMA OrderInvariance == Spec => []OrderInv
<1>1. Init => OrderInv
  BY DEF Init, OrderInv, NewClient, Ordered
<1>2. IInv /\ OrderInv /\ [Next]_vars => OrderInv'
  <2> SUFFICES ASSUME IInv, Wild = {}, [Next]_vars, Ordered(client),
                      \A i \in DOMAIN toClient : Heard(toClient[i])
               PROVE  Ordered(client)' /\ \A i \in DOMAIN toClient' : Heard(toClient'[i])
    BY DEF OrderInv
  <2>0. toClient \in Seq(Lines) /\ toServer \in Seq(Lines)
    BY DEF IInv, Types
  <2>1. CASE UNCHANGED vars
    BY <2>1 DEF Ordered, vars
  <2>2. CASE ServerStep
    <3> DEFINE h == Head(toServer)
    <3>1. PICK r \in {ServerHandle(server, h), ServerOutOfMemory(server, h)} :
             toClient' = toClient \o r.out /\ UNCHANGED client
      BY <2>2 DEF ServerStep
    <3>2. /\ server \in ServerObjects /\ Sound(server) /\ Counted(server) /\ ~Ended(server)
          /\ h \in Lines /\ KnownAnswer(h)
      BY <2>0, <2>2, Heads DEF IInv, Types, ServerStep
    <3>3. Replies(r) /\ (r.out # <<>> => Heard(r.out[1]))
      <4>1. CASE r = ServerHandle(server, h)
        BY <3>2, <4>1, HandleReaction DEF Reaction
      <4>2. CASE r = ServerOutOfMemory(server, h)
        BY <3>2, <4>2 DEF ServerOutOfMemory, Replies
      <4> QED
        BY <3>1, <4>1, <4>2
    <3>4. CASE r.out = <<>>
      BY <2>0, <3>1, <3>4 DEF Ordered
    <3>5. ASSUME NEW l \in Lines, r.out = <<l>> PROVE \A i \in DOMAIN toClient' : Heard(toClient'[i])
      <4>1. Heard(l)
        BY <3>3, <3>5
      <4>2. toClient' = Append(toClient, l)
        BY <2>0, <3>1, <3>5
      <4>3. \A i \in DOMAIN toClient' : toClient'[i] = l \/ (i \in DOMAIN toClient /\ toClient'[i] = toClient[i])
        BY <2>0, <4>2
      <4> QED
        BY <4>1, <4>3
    <3> QED
      BY <3>1, <3>3, <3>4, <3>5 DEF Replies, Ordered
  <2>3. CASE ClientStep
    <3>1. toClient # <<>>
      BY <2>3 DEF ClientStep
    <3>2. Heard(Head(toClient))
      BY <2>0, <3>1, Heads
    <3>3. Ordered(client)' /\ (toClient' = toClient \/ toClient' = Tail(toClient))
      BY <2>3, <3>2, ClientAttempts
    <3>4. \A i \in DOMAIN Tail(toClient) : Heard(Tail(toClient)[i])
      BY <2>0, <3>1, Heads
    <3> QED
      BY <3>3, <3>4
  <2> QED
    BY <2>1, <2>2, <2>3 DEF Next, WildClient, WildServer
<1> QED
  BY <1>1, <1>2, Invariance, PTL DEF Spec

\* Whatever lists a server sends, the attempts of the client run out, and against a libdbus server
\* each mechanism is tried once, in the client's own order.
THEOREM MechanismsRunOut == Spec => [][MechanismsInOrder]_vars
<1>1. IInv /\ OrderInv /\ [Next]_vars => [MechanismsInOrder]_vars
  <2> SUFFICES ASSUME IInv, OrderInv, Next, "client" \notin Wild, Attempt
               PROVE  /\ client'.mech # "EXTERNAL" /\ client'.got
                      /\ client.got => Len(client'.try) < Len(client.try)
                      /\ Wild = {} => Rank(client'.mech) > Rank(client.mech)
    BY DEF MechanismsInOrder, Mechanisms
  <2>1. ClientStep
    BY OthersAttemptNothing DEF Next, WildClient
  <2>2. toClient \in Seq(Lines) /\ toClient # <<>>
    BY <2>1 DEF ClientStep, IInv, Types
  <2>3. Wild = {} => Ordered(client) /\ Heard(Head(toClient))
    BY <2>2, Heads DEF OrderInv
  <2> QED
    BY <2>1, <2>3, ClientAttempts
<1> QED
  BY <1>1, Invariance, OrderInvariance, PTL DEF Spec
=============================================================================
