-------------------------- MODULE RoomSystem_proofs --------------------------
(***************************************************************************)
(* Theorems about a client and its room on Bun, for every set of           *)
(* connections and users, every clock and every bound on what is done.     *)
(***************************************************************************)
EXTENDS RoomSystem, Roster_proofs, FiniteSetTheorems, FunctionTheorems

-----------------------------------------------------------------------------
(* What the room does, as its clients see it, when all are served. *)

\* Each connected client is sent the frame f.
Say(f) ==
    \A r \in Sockets : sent'[r] = IF conn[r] = "open" THEN sent[r] \o <<f>> ELSE sent[r]

SayTwo(f, g) ==
    \A r \in Sockets :
      sent'[r] = IF conn[r] = "open" THEN (sent[r] \o <<f>>) \o <<g>> ELSE sent[r]

\* What the theorems of the room have shown.
RoomInv == ~gated /\ TypeOK /\ RosterInvariant

LEMMA SaidToAll ==
    ASSUME RoomInv, NEW f, NEW ses \in [Sockets -> Session], NEW F,
           F \subseteq sessions, \A r \in F : conn[r] # "open",
           Deliver(<<f>>, F, ses, sent)
    PROVE  session' = ses /\ sessions' = sessions \ F /\ Say(f)
<1> USE DEF RoomInv
<1>1. \A r \in Sockets : ~Blocked(ses[r])
  BY DEF Blocked
<1>2. \A r \in Sockets : conn[r] = "open" => r \in sessions \ F
  BY DEF RosterInvariant
<1>3. session' = ses
  BY <1>1 DEF Deliver
<1>4. sessions' = sessions \ F
  BY DEF Deliver
<1>5. Say(f)
  BY <1>1, <1>2 DEF Deliver, Say
<1> QED BY <1>3, <1>4, <1>5

LEMMA SaidTwiceToAll ==
    ASSUME RoomInv, NEW f \in Frame, NEW g \in Frame, NEW ses \in [Sockets -> Session],
           Deliver(<<f>> \o <<g>>, {}, ses, sent)
    PROVE  session' = ses /\ sessions' = sessions /\ SayTwo(f, g)
<1> USE DEF RoomInv
<1> DEFINE b == <<f>>
           c == <<g>>
<1>1. \A r \in Sockets : ~Blocked(ses[r])
  BY DEF Blocked
<1>2. \A r \in Sockets : conn[r] = "open" => r \in sessions
  BY DEF RosterInvariant
<1>3. b \in Seq(Frame) /\ c \in Seq(Frame) /\ \A r \in Sockets : sent[r] \in Seq(Frame)
  BY DEF TypeOK
<1>4. /\ session' = ses /\ sessions' = sessions \ {}
      /\ \A r \in Sockets :
           sent'[r] = IF conn[r] = "open" THEN sent[r] \o (b \o c) ELSE sent[r]
  BY <1>1, <1>2 DEF Deliver
<1> HIDE DEF b, c
<1>5. \A r \in Sockets : sent[r] \o (b \o c) = (sent[r] \o b) \o c
  <2>1. ASSUME NEW r \in Sockets
        PROVE  sent[r] \o (b \o c) = (sent[r] \o b) \o c
    <3> DEFINE a == sent[r]
    <3>1. a \in Seq(Frame)
      BY <1>3
    <3> HIDE DEF a
    <3>2. (a \o b) \o c = a \o (b \o c)
      BY <1>3, <3>1, ConcatAssociative
    <3> QED BY <3>2 DEF a
  <2> QED BY <2>1
<1>6. SayTwo(f, g)
  BY <1>4, <1>5 DEF SayTwo, b, c
<1> QED BY <1>4, <1>6

\* A login: quit for the user of before, if any, and joined.
LEMMA LoginSays ==
    ASSUME Platform = "bun", RoomInv, NEW t \in logins, LoginOpenRoom(t)
    PROVE  LET s    == t.socket
               old  == session[s].address
               join == Joined({Who(s, t.user)})
               quit == Quit({Who(s, old)})
           IN  /\ s \in sessions /\ t.user \in Users
               /\ old \in Users \cup {NoUser} /\ old # t.user
               /\ session' = [session EXCEPT ![s].address = t.user]
               /\ sessions' = sessions /\ conn' = conn
               /\ old = NoUser => Say(join)
               /\ old # NoUser => SayTwo(quit, join)
<1> DEFINE s    == t.socket
           old  == session[s].address
           ses  == [session EXCEPT ![s].address = t.user]
           join == Joined({Who(s, t.user)})
           quit == Quit({Who(s, old)})
           none == {}
<1>1. /\ s \in sessions /\ s \in Sockets /\ session \in [Sockets -> Session]
      /\ t.user \in Users
  BY DEF RoomInv, RosterInvariant, TypeOK, Login
<1>2. old \in Users \cup {NoUser}
  BY <1>1 DEF Session
<1>3. ses \in [Sockets -> Session]
  BY <1>1, SessionUpdate
<1>4. join \in Frame /\ quit \in Frame
  BY <1>1, <1>2, Presences
<1>5. Throwing(sessions, session) = {none}
  BY DEF Throwing
<1>6. old # t.user /\ conn' = conn
  BY DEF LoginOpenRoom
<1>7. Deliver(IF old = NoUser THEN Burst(join, none, ses)
              ELSE Burst(quit, none, session) \o <<join>>, none, ses, sent)
  BY <1>5 DEF LoginOpenRoom
<1>8. none \subseteq sessions /\ sessions \ none = sessions /\ \A r \in none : conn[r] # "open"
  OBVIOUS
<1>9. Burst(join, none, ses) = <<join>> /\ Burst(quit, none, session) = <<quit>>
  BY <1>4, BurstAlone
<1> HIDE DEF ses, join, quit, old
<1>10. CASE old = NoUser
  <2>1. Deliver(<<join>>, none, ses, sent)
    BY <1>7, <1>9, <1>10
  <2> HIDE DEF none
  <2>2. session' = ses /\ sessions' = sessions /\ Say(join)
    BY <1>3, <1>8, <2>1, SaidToAll
  <2> QED BY <1>1, <1>2, <1>6, <1>10, <2>2 DEF old, ses, join, quit
<1>11. CASE old # NoUser
  <2>1. Deliver(<<quit>> \o <<join>>, none, ses, sent)
    BY <1>7, <1>9, <1>11
  <2>2. session' = ses /\ sessions' = sessions /\ SayTwo(quit, join)
    BY <1>3, <1>4, <2>1, SaidTwiceToAll
  <2> QED BY <1>1, <1>2, <1>6, <1>11, <2>2 DEF old, ses, join, quit
<1> QED BY <1>10, <1>11

\* A logout: quit.
LEMMA LogoutSays ==
    ASSUME Platform = "bun", RoomInv, NEW s \in Sockets, Logout(s)
    PROVE  LET old  == session[s].address
           IN  /\ s \in sessions /\ old \in Users
               /\ session' = [session EXCEPT ![s].address = NoUser]
               /\ sessions' = sessions /\ conn' = conn
               /\ Say(Quit({Who(s, old)}))
<1> DEFINE old  == session[s].address
           ses  == [session EXCEPT ![s].address = NoUser]
           quit == Quit({Who(s, old)})
           none == {}
<1>1. session \in [Sockets -> Session] /\ s \in sessions /\ conn' = conn
  BY DEF RoomInv, TypeOK, Logout, Request
<1>2. old \in Users
  <2>1. old # NoUser
    BY DEF Logout
  <2> QED BY <1>1, <2>1 DEF Session
<1>3. ses \in [Sockets -> Session]
  BY <1>1, SessionUpdate
<1>4. quit \in Frame
  BY <1>2, Presences
<1>5. Throwing(sessions, session) = {none}
  BY DEF Throwing
<1>6. Deliver(Burst(quit, none, session), none, ses, sent)
  BY <1>5 DEF Logout
<1>7. none \subseteq sessions /\ sessions \ none = sessions /\ \A r \in none : conn[r] # "open"
  OBVIOUS
<1>8. Burst(quit, none, session) = <<quit>>
  BY <1>4, BurstAlone
<1> HIDE DEF ses, quit
<1>9. Deliver(<<quit>>, none, ses, sent)
  BY <1>6, <1>8
<1> HIDE DEF none
<1>10. session' = ses /\ sessions' = sessions /\ Say(quit)
  BY <1>3, <1>7, <1>9, SaidToAll
<1> QED BY <1>1, <1>2, <1>10 DEF ses, quit

\* A chat message: its frame.
LEMMA ChatSays ==
    ASSUME Platform = "bun", RoomInv, NEW s \in Sockets, NEW now \in Clock, SendChat(s, now)
    PROVE  LET chat == Chat(Stamp(now), session[s].address)
           IN  /\ session[s].address # NoUser
               /\ session' = session /\ sessions' = sessions /\ conn' = conn
               /\ chat \in Message /\ Say(chat)
<1> DEFINE chat == Chat(Stamp(now), session[s].address)
           none == {}
<1>1. session \in [Sockets -> Session] /\ conn' = conn /\ session[s].address # NoUser
  BY DEF RoomInv, TypeOK, SendChat
<1>2. chat \in Message
  <2>1. Stamp(now) \in Nat
    BY BoundsAssumption DEF Maximum, Stamp, RoomInv, TypeOK
  <2>2. session[s].address \in Users
    BY <1>1 DEF Session
  <2> QED BY <2>1, <2>2, FrameTypes
<1>3. chat \in Frame
  BY <1>2, FrameTypes
<1>4. Throwing(sessions, session) = {none}
  BY DEF Throwing
<1>5. Deliver(Burst(chat, none, session), none, session, sent)
  BY <1>4 DEF SendChat
<1>6. none \subseteq sessions /\ sessions \ none = sessions /\ \A r \in none : conn[r] # "open"
  OBVIOUS
<1> HIDE DEF chat
<1>7. Burst(chat, none, session) = <<chat>>
  BY <1>3, BurstAlone
<1>8. Deliver(<<chat>>, none, session, sent)
  BY <1>5, <1>7
<1> HIDE DEF none
<1>9. session' = session /\ sessions' = sessions /\ Say(chat)
  BY <1>1, <1>6, <1>8, SaidToAll
<1> QED BY <1>1, <1>2, <1>9 DEF chat

\* A close event: quit, if the session has a user.
LEMMA CloseSays ==
    ASSUME Platform = "bun", RoomInv, NEW s \in Sockets, CloseEvent(s)
    PROVE  LET left == session[s].address
           IN  /\ conn[s] = "leaving" /\ conn' = [conn EXCEPT ![s] = "closed"]
               /\ sessions' = sessions \ {s} /\ session' = session
               /\ \/ /\ s \in sessions /\ left \in Users
                     /\ Say(Quit({Who(s, left)}))
                  \/ /\ s \notin sessions \/ left = NoUser
                     /\ sent' = sent
<1> DEFINE left == session[s].address
           quit == Quit({Who(s, left)})
           none == {}
           self == {s}
<1>1. /\ session \in [Sockets -> Session]
      /\ conn[s] = "leaving" /\ conn' = [conn EXCEPT ![s] = "closed"]
  BY DEF RoomInv, TypeOK, CloseEvent
<1>2. CASE s \in sessions /\ left # NoUser
  <2>1. left \in Users
    BY <1>1, <1>2 DEF Session
  <2>2. quit \in Frame
    BY <2>1, Presences
  <2>3. Throwing(sessions \ {s}, session) = {none}
    BY DEF Throwing
  <2>4. Deliver(Burst(quit, none, session), none \cup self, session, sent)
    BY <1>2, <2>3 DEF CloseEvent
  <2>5. none \cup self = self
    OBVIOUS
  <2> HIDE DEF quit
  <2>6. Burst(quit, none, session) = <<quit>>
    BY <2>2, BurstAlone
  <2>7. Deliver(<<quit>>, self, session, sent)
    BY <2>4, <2>5, <2>6
  <2>8. self \subseteq sessions /\ \A r \in self : conn[r] # "open"
    BY <1>1, <1>2
  <2> HIDE DEF self
  <2>9. session' = session /\ sessions' = sessions \ self /\ Say(quit)
    BY <1>1, <2>7, <2>8, SaidToAll
  <2> QED BY <1>1, <1>2, <2>1, <2>9 DEF quit, self
<1>3. CASE ~(s \in sessions /\ left # NoUser)
  BY <1>1, <1>3 DEF CloseEvent
<1> QED BY <1>2, <1>3

-----------------------------------------------------------------------------
(* Streams of frames. *)

\* The presences of a frame are of users on connections.
Named(f) == f.type \in {"joined", "quit"} => f.who \subseteq [id : Sockets, user : Users]

\* Nobody is announced who is announced already.
StreamFits(frames) ==
    \A i \in DOMAIN frames :
      /\ Named(frames[i])
      /\ frames[i].type = "joined" =>
           \A p \in frames[i].who : ~Announced(SubSeq(frames, 1, i - 1), p)

\* What was received stays what was received.
LEMMA PrefixStays ==
    ASSUME NEW a \in Seq(Frame), NEW b \in Seq(Frame), NEW k \in 0..Len(a)
    PROVE  SubSeq(a \o b, 1, k) = SubSeq(a, 1, k)
<1> DEFINE c == a \o b
           s == SubSeq(c, 1, k)
           t == SubSeq(a, 1, k)
<1>1. /\ c \in Seq(Frame) /\ Len(a) \in Nat /\ Len(b) \in Nat
      /\ Len(c) = Len(a) + Len(b)
      /\ \A i \in 1..Len(a) : c[i] = a[i]
  BY Concat, ConcatProperties
<1> HIDE DEF c
<1>2. k \in 0..Len(c) /\ 1..k \subseteq 1..Len(a)
  BY <1>1
<1>3. s \in Seq(Frame) /\ Len(s) = k /\ \A j \in 1..k : s[j] = c[j]
  BY <1>1, <1>2, PrefixOf
<1>4. t \in Seq(Frame) /\ Len(t) = k /\ \A j \in 1..k : t[j] = a[j]
  BY PrefixOf
<1> HIDE DEF s, t
<1>5. s = t
  BY <1>1, <1>2, <1>3, <1>4, SeqEqual
<1> QED BY <1>5 DEF s, t, c

LEMMA WholePrefix ==
    ASSUME NEW a \in Seq(Frame)
    PROVE  SubSeq(a, 1, Len(a)) = a
BY SubSeqFull

\* Frames of which only the first announces anybody, and nobody announced before.
LEMMA StreamConcat ==
    ASSUME NEW a \in Seq(Frame), NEW b \in Seq(Frame), StreamFits(a),
           \A i \in DOMAIN b :
             /\ Named(b[i])
             /\ b[i].type = "joined" => i = 1 /\ \A p \in b[i].who : ~Announced(a, p)
    PROVE  a \o b \in Seq(Frame) /\ StreamFits(a \o b)
<1> DEFINE c == a \o b
<1>1. /\ c \in Seq(Frame) /\ Len(a) \in Nat /\ Len(b) \in Nat
      /\ DOMAIN a = 1..Len(a) /\ DOMAIN b = 1..Len(b)
      /\ DOMAIN c = 1..(Len(a) + Len(b))
      /\ \A i \in 1..Len(a) : c[i] = a[i]
      /\ \A i \in 1..Len(b) : c[Len(a) + i] = b[i]
  BY Concat
<1>2. ASSUME NEW i \in 1..(Len(a) + 1)
      PROVE  SubSeq(c, 1, i - 1) = SubSeq(a, 1, i - 1)
  <2>1. i - 1 \in 0..Len(a)
    BY <1>1
  <2> QED BY <2>1, PrefixStays
<1> HIDE DEF c
<1>3. ASSUME NEW i \in DOMAIN c
      PROVE  /\ Named(c[i])
             /\ c[i].type = "joined" =>
                  \A p \in c[i].who : ~Announced(SubSeq(c, 1, i - 1), p)
  <2>1. CASE i \in 1..Len(a)
    <3>1. c[i] = a[i] /\ i \in 1..(Len(a) + 1)
      BY <1>1, <2>1
    <3>2. SubSeq(c, 1, i - 1) = SubSeq(a, 1, i - 1)
      BY <1>2, <3>1
    <3> QED BY <1>1, <2>1, <3>1, <3>2 DEF StreamFits
  <2>2. CASE i - Len(a) \in 1..Len(b)
    <3> DEFINE k == i - Len(a)
    <3>1. k \in DOMAIN b /\ Len(a) + k = i
      BY <1>1, <1>3, <2>2
    <3>2. c[i] = b[k]
      BY <1>1, <3>1
    <3>3. k = 1 => SubSeq(c, 1, i - 1) = a
      <4> DEFINE n == Len(a)
      <4>1. n \in Nat /\ i \in Int /\ k = i - n
        BY <1>1, <1>3
      <4> HIDE DEF k, n
      <4>2. k = 1 => i \in 1..(n + 1) /\ i - 1 = n
        BY <4>1
      <4> QED BY <1>2, <4>2, WholePrefix DEF n
    <3> HIDE DEF k
    <3> QED BY <3>1, <3>2, <3>3
  <2>3. i \in 1..Len(a) \/ i - Len(a) \in 1..Len(b)
    BY <1>1, <1>3
  <2> QED BY <2>1, <2>2, <2>3
<1>4. StreamFits(c)
  BY <1>3 DEF StreamFits
<1> QED BY <1>1, <1>4 DEF c

LEMMA StreamAppend ==
    ASSUME NEW a \in Seq(Frame), NEW f \in Frame, StreamFits(a), Named(f),
           f.type = "joined" => \A p \in f.who : ~Announced(a, p)
    PROVE  a \o <<f>> \in Seq(Frame) /\ StreamFits(a \o <<f>>)
<1> DEFINE b == <<f>>
<1>1. b \in Seq(Frame) /\ DOMAIN b = {1} /\ b[1] = f
  OBVIOUS
<1> HIDE DEF b
<1>2. a \o b \in Seq(Frame) /\ StreamFits(a \o b)
  BY <1>1, StreamConcat
<1> QED BY <1>2 DEF b

\* The start of a stream: nobody has left, and those are announced who are in
\* the room.
LEMMA OpenSays ==
    ASSUME Platform = "bun", RoomInv, NEW s \in Sockets, Open(s)
    PROVE  /\ conn[s] = "new" /\ conn' = [conn EXCEPT ![s] = "open"]
           /\ sessions' = sessions \cup {s}
           /\ \A q \in Sockets : session'[q].address = session[q].address
           /\ session[s].address = NoUser
           /\ \E frames \in Seq(Frame) :
                /\ sent' = [sent EXCEPT ![s] = frames]
                /\ StreamFits(frames)
                /\ \E i \in DOMAIN frames : frames[i].type = "challenge"
                /\ \A i \in DOMAIN frames :
                     /\ frames[i].type # "quit"
                     /\ frames[i].type = "joined" =>
                          \A p \in frames[i].who : p.id \in sessions
<1> USE DEF RoomInv
<1> DEFINE online == {Who(r, session[r].address) :
                        r \in {q \in sessions : session[q].address # NoUser}}
           roster == IF online = {} THEN <<>> ELSE <<Joined(online)>>
           front  == roster \o Latest
           last   == <<Challenge>>
           frames == front \o last
           Fine(f) == /\ f.type # "quit" /\ Named(f)
                      /\ f.type = "joined" => \A p \in f.who : p.id \in sessions
<1>1. /\ session \in [Sockets -> Session] /\ sessions \in SUBSET Sockets
      /\ \A q \in Sockets : session[q].address \in Users \cup {NoUser}
  BY DEF TypeOK, Session
<1>2. /\ conn[s] = "new" /\ s \notin sessions /\ session[s].address = NoUser
  BY DEF Open, RosterInvariant
<1>3. /\ conn' = [conn EXCEPT ![s] = "open"]
      /\ sessions' = sessions \cup {s}
      /\ session' = [session EXCEPT ![s] = [NewSession EXCEPT !.blocked = <<>>]]
      /\ sent' = [sent EXCEPT ![s] = frames]
  BY DEF Open
<1>4. \A q \in Sockets : session'[q].address = session[q].address
  BY <1>1, <1>2, <1>3 DEF NewSession
<1>5. /\ roster \in Seq(Frame) /\ StreamFits(roster)
      /\ \A i \in DOMAIN roster : Fine(roster[i])
  <2>1. /\ online \subseteq [id : Sockets, user : Users]
        /\ online \in SUBSET Presence
        /\ \A p \in online : p.id \in sessions
    BY <1>1 DEF Who, Presence
  <2>2. Joined(online) \in Frame /\ Joined(online).type = "joined"
        /\ Joined(online).who = online
    BY <2>1, FrameTypes DEF Joined
  <2> HIDE DEF online
  <2>3. Fine(Joined(online))
    BY <2>1, <2>2 DEF Named
  <2>4. <<>> \in Seq(Frame) /\ StreamFits(<<>>) /\ DOMAIN <<>> = {}
    BY EmptySeq DEF StreamFits
  <2> DEFINE f == Joined(online)
  <2>5. \A p : ~Announced(<<>>, p)
    BY <2>4 DEF Announced
  <2> HIDE DEF f, Fine
  <2>6. <<>> \o <<f>> \in Seq(Frame) /\ StreamFits(<<>> \o <<f>>)
    <3>1. f \in Frame /\ Named(f)
      BY <2>2, <2>3 DEF f, Fine
    <3> DEFINE a == <<>>
    <3>2. a \in Seq(Frame) /\ StreamFits(a) /\ \A p : ~Announced(a, p)
      BY <2>4, <2>5
    <3> HIDE DEF a
    <3>3. a \o <<f>> \in Seq(Frame) /\ StreamFits(a \o <<f>>)
      BY <3>1, <3>2, StreamAppend
    <3> QED BY <3>3 DEF a
  <2>7. <<f>> \in Seq(Frame) /\ DOMAIN <<f>> = {1} /\ <<f>>[1] = f
    BY <2>2 DEF f
  <2>8. <<>> \o <<f>> = <<f>>
    BY <2>7, ConcatEmptySeq
  <2>9. CASE online = {}
    BY <2>4, <2>9
  <2>10. CASE online # {}
    <3>1. roster = <<f>>
      BY <2>10 DEF f
    <3> QED BY <2>3, <2>6, <2>7, <2>8, <3>1 DEF f
  <2> QED BY <2>9, <2>10
<1>6. Latest \in Seq(Frame) /\ \A i \in DOMAIN Latest : Latest[i].type = "chat"
  <2>1. Latest \in Seq(Message)
    BY LatestType DEF TypeOK
  <2>2. \A i \in DOMAIN Latest : Latest[i] \in Message
    BY <2>1, ElementOfSeq
  <2> QED BY <2>1, <2>2, MessagesSayNothing DEF Message
<1> HIDE DEF roster
<1>7. front \in Seq(Frame) /\ StreamFits(front)
  BY <1>5, <1>6, StreamConcat DEF Named
<1>8. last \in Seq(Frame) /\ DOMAIN last = {1} /\ last[1].type = "challenge"
  BY FrameTypes DEF Challenge
<1> HIDE DEF last
<1>9. \A i \in DOMAIN front : Fine(front[i])
  <2> SUFFICES ASSUME NEW i \in DOMAIN front PROVE Fine(front[i])
    OBVIOUS
  <2> DEFINE n == Len(roster)
  <2>1. /\ n \in Nat /\ Len(Latest) \in Nat
        /\ DOMAIN roster = 1..n /\ DOMAIN Latest = 1..Len(Latest)
        /\ DOMAIN front = 1..(n + Len(Latest))
        /\ \A j \in 1..n : front[j] = roster[j]
        /\ \A j \in 1..Len(Latest) : front[n + j] = Latest[j]
    BY <1>5, <1>6, Concat
  <2> HIDE DEF front, n
  <2>2. CASE i \in 1..n
    BY <1>5, <2>1, <2>2
  <2>3. CASE i - n \in 1..Len(Latest)
    <3>1. front[i] = Latest[i - n]
      <4>1. n + (i - n) = i
        BY <2>1
      <4> QED BY <2>1, <2>3, <4>1
    <3>2. front[i].type = "chat"
      BY <1>6, <2>1, <2>3, <3>1
    <3> QED BY <3>2 DEF Named
  <2>4. i \in 1..n \/ i - n \in 1..Len(Latest)
    BY <2>1
  <2> QED BY <2>2, <2>3, <2>4
<1> HIDE DEF front
<1>10. frames \in Seq(Frame) /\ StreamFits(frames)
  BY <1>7, <1>8, StreamConcat DEF Named
<1>11. /\ Len(front) \in Nat /\ DOMAIN front = 1..Len(front)
       /\ Len(last) = 1
       /\ DOMAIN frames = 1..(Len(front) + 1)
       /\ \A j \in 1..Len(front) : frames[j] = front[j]
       /\ frames[Len(front) + 1] = last[1]
  <2>1. Len(last) = 1
    BY DEF last
  <2> QED BY <1>7, <1>8, <2>1, Concat
<1> HIDE DEF frames
<1>12. \E i \in DOMAIN frames : frames[i].type = "challenge"
  <2>1. Len(front) + 1 \in DOMAIN frames
    BY <1>11
  <2> QED BY <1>8, <1>11, <2>1
<1>13. ASSUME NEW i \in DOMAIN frames PROVE Fine(frames[i])
  <2>1. CASE i \in 1..Len(front)
    BY <1>9, <1>11, <2>1
  <2>2. CASE i = Len(front) + 1
    <3>1. frames[i].type = "challenge"
      BY <1>8, <1>11, <2>2
    <3> QED BY <3>1 DEF Named
  <2> QED BY <1>11, <2>1, <2>2
<1> QED BY <1>2, <1>3, <1>4, <1>10, <1>12, <1>13

-----------------------------------------------------------------------------
(* What the connected clients have been told, and how. *)

\* Nobody is announced who is no longer in the room.
Forgotten ==
    \A r \in Connected, q \in Sockets \ Listed, u \in Users :
      ~Announced(sent[r], Who(q, u))

StreamsFit == \A r \in Sockets : StreamFits(sent[r]) /\ QuitsFit(sent[r])

ServerInv == RoomInv /\ Forgotten /\ StreamsFit

LEMMA FrameAdded ==
    ASSUME NEW a \in Seq(Frame), NEW f \in Frame, NEW p
    PROVE  /\ a \o <<f>> \in Seq(Frame)
           /\ Announced(a \o <<f>>, p) <=>
                \/ f.type = "joined" /\ p \in f.who
                \/ Announced(a, p) /\ ~(f.type = "quit" /\ p \in f.who)
<1> DEFINE b == <<f>>
<1>1. /\ b \in Seq(Frame)
      /\ Announced(b, p) <=> f.type = "joined" /\ p \in f.who
      /\ Leaves(b, p) <=> f.type = "quit" /\ p \in f.who
  BY OneFrame
<1> HIDE DEF b
<1>2. a \o b \in Seq(Frame)
  BY <1>1, ConcatProperties
<1>3. Announced(a \o b, p) <=> Announced(b, p) \/ (Announced(a, p) /\ ~Leaves(b, p))
  BY <1>1, AnnouncedConcat
<1> QED BY <1>1, <1>2, <1>3 DEF b

\* The clients that are connected are told exactly who is in the room.
LEMMA RollCall ==
    ASSUME Platform = "bun", ServerInv
    PROVE  \A r \in Connected, q \in Sockets, u \in Users :
             Announced(sent[r], Who(q, u)) <=> q \in sessions /\ session[q].address = u
<1> SUFFICES ASSUME NEW r \in Connected, NEW q \in Sockets, NEW u \in Users
             PROVE  Announced(sent[r], Who(q, u)) <=>
                      q \in sessions /\ session[q].address = u
  OBVIOUS
<1> USE DEF ServerInv, RoomInv
<1>1. CASE q \in Listed
  <2>1. Announced(sent[r], Who(q, u)) <=> session[q].address = u
    BY <1>1 DEF RosterInvariant, Known
  <2>2. q \notin sessions => session[q].address = NoUser
    BY <1>1 DEF Listed, RosterInvariant
  <2> QED BY <2>1, <2>2, NoUserAssumption
<1>2. CASE q \notin Listed
  BY <1>2 DEF Forgotten, Listed
<1> QED BY <1>1, <1>2

LEMMA SaidFits ==
    ASSUME ServerInv, NEW f \in Frame, Named(f), Say(f),
           f.type = "joined" =>
             \A r \in Connected : \A p \in f.who : ~Announced(sent[r], p),
           f.type = "quit" =>
             \A r \in Connected : \A p \in f.who : Announced(sent[r], p)
    PROVE  StreamsFit'
<1> SUFFICES ASSUME NEW r \in Sockets
             PROVE  StreamFits(sent'[r]) /\ QuitsFit(sent'[r])
  BY DEF StreamsFit
<1>1. sent[r] \in Seq(Frame) /\ StreamFits(sent[r]) /\ QuitsFit(sent[r])
  BY DEF ServerInv, StreamsFit, RoomInv, TypeOK
<1>2. CASE conn[r] = "open"
  <2>1. r \in Connected
    BY <1>2 DEF Connected
  <2>2. sent'[r] = sent[r] \o <<f>>
    BY <1>2 DEF Say
  <2>3. StreamFits(sent[r] \o <<f>>)
    BY <1>1, <2>1, StreamAppend
  <2>4. QuitsFit(sent[r] \o <<f>>)
    BY <1>1, <2>1, QuitsAppend
  <2> QED BY <2>2, <2>3, <2>4
<1>3. CASE conn[r] # "open"
  BY <1>1, <1>3 DEF Say
<1> QED BY <1>2, <1>3

LEMMA SaidForgets ==
    ASSUME ServerInv, NEW f \in Frame, Say(f), Connected' \subseteq Connected,
           Listed \subseteq Listed',
           f.type = "joined" => \A p \in f.who : p.id \in Listed
    PROVE  Forgotten'
<1>1. ASSUME NEW r \in Connected', NEW q \in Sockets \ Listed', NEW u \in Users
      PROVE  ~Announced(sent'[r], Who(q, u))
  <2>1. r \in Connected /\ r \in Sockets /\ q \in Sockets \ Listed /\ conn[r] = "open"
        /\ sent[r] \in Seq(Frame)
    BY <1>1 DEF Connected, ServerInv, RoomInv, TypeOK
  <2>2. ~Announced(sent[r], Who(q, u))
    BY <2>1 DEF ServerInv, Forgotten
  <2>3. sent'[r] = sent[r] \o <<f>>
    BY <2>1 DEF Say
  <2>4. f.type = "joined" => Who(q, u) \notin f.who
    BY <2>1 DEF Who
  <2>5. Announced(sent[r] \o <<f>>, Who(q, u)) <=>
          \/ f.type = "joined" /\ Who(q, u) \in f.who
          \/ Announced(sent[r], Who(q, u)) /\ ~(f.type = "quit" /\ Who(q, u) \in f.who)
    BY <2>1, FrameAdded
  <2> QED BY <2>2, <2>3, <2>4, <2>5
<1> QED BY <1>1 DEF Forgotten

LEMMA NamedPresence ==
    ASSUME NEW s \in Sockets, NEW u \in Users
    PROVE  /\ Joined({Who(s, u)}) \in Frame /\ Quit({Who(s, u)}) \in Frame
           /\ Named(Joined({Who(s, u)})) /\ Named(Quit({Who(s, u)}))
           /\ Joined({Who(s, u)}).type = "joined" /\ Joined({Who(s, u)}).who = {Who(s, u)}
           /\ Quit({Who(s, u)}).type = "quit" /\ Quit({Who(s, u)}).who = {Who(s, u)}
<1>1. /\ Joined({Who(s, u)}) \in Frame /\ Quit({Who(s, u)}) \in Frame
      /\ Joined({Who(s, u)}).type = "joined" /\ Joined({Who(s, u)}).who = {Who(s, u)}
      /\ Quit({Who(s, u)}).type = "quit" /\ Quit({Who(s, u)}).who = {Who(s, u)}
  BY Presences
<1>2. Who(s, u) \in [id : Sockets, user : Users]
  BY DEF Who
<1> QED BY <1>1, <1>2 DEF Named

LEMMA LogoutTells ==
    ASSUME Platform = "bun", ServerInv, NEW s \in Sockets, Logout(s)
    PROVE  StreamsFit' /\ Forgotten'
<1> DEFINE old == session[s].address
           f   == Quit({Who(s, old)})
<1>1. /\ s \in sessions /\ old \in Users
      /\ sessions' = sessions /\ conn' = conn /\ Say(f)
  BY LogoutSays DEF ServerInv
<1>2. f \in Frame /\ Named(f) /\ f.type = "quit" /\ f.who = {Who(s, old)}
  BY <1>1, NamedPresence
<1>3. \A r \in Connected : Announced(sent[r], Who(s, old))
  BY <1>1, RollCall
<1>4. Connected' \subseteq Connected /\ Listed \subseteq Listed'
  BY <1>1 DEF Connected, Listed
<1> HIDE DEF f, old
<1>5. StreamsFit'
  BY <1>1, <1>2, <1>3, SaidFits
<1>6. Forgotten'
  BY <1>1, <1>2, <1>4, SaidForgets
<1> QED BY <1>5, <1>6

LEMMA ChatTells ==
    ASSUME Platform = "bun", ServerInv, NEW s \in Sockets, NEW now \in Clock,
           SendChat(s, now)
    PROVE  StreamsFit' /\ Forgotten'
<1> DEFINE f == Chat(Stamp(now), session[s].address)
<1>1. f \in Message /\ sessions' = sessions /\ conn' = conn /\ Say(f)
  BY ChatSays DEF ServerInv
<1> HIDE DEF f
<1>2. f \in Frame /\ f.type = "chat" /\ Named(f)
  BY <1>1, FrameTypes DEF Message, Named
<1>3. Connected' \subseteq Connected /\ Listed \subseteq Listed'
  BY <1>1 DEF Connected, Listed
<1>4. StreamsFit'
  BY <1>1, <1>2, SaidFits
<1>5. Forgotten'
  BY <1>1, <1>2, <1>3, SaidForgets
<1> QED BY <1>4, <1>5

LEMMA CloseTells ==
    ASSUME Platform = "bun", ServerInv, NEW s \in Sockets, CloseEvent(s)
    PROVE  StreamsFit' /\ Forgotten'
<1> DEFINE left == session[s].address
           f    == Quit({Who(s, left)})
<1>1. /\ conn[s] = "leaving" /\ conn' = [conn EXCEPT ![s] = "closed"]
      /\ sessions' = sessions \ {s}
      /\ \/ /\ s \in sessions /\ left \in Users
            /\ Say(f)
         \/ /\ s \notin sessions \/ left = NoUser
            /\ sent' = sent
  BY CloseSays DEF ServerInv
<1>2. /\ conn \in [Sockets -> {"new", "open", "leaving", "closed"}]
      /\ sent \in [Sockets -> Seq(Frame)]
  BY DEF ServerInv, RoomInv, TypeOK
<1>3. Connected' = Connected /\ s \notin Connected /\ Listed' = Listed \ {s}
  BY <1>1, <1>2 DEF Connected, Listed
<1>4. CASE s \in sessions /\ left \in Users /\ Say(f)
  <2>1. f \in Frame /\ Named(f) /\ f.type = "quit" /\ f.who = {Who(s, left)}
    BY <1>4, NamedPresence
  <2>2. \A r \in Connected : Announced(sent[r], Who(s, left))
    BY <1>4, RollCall
  <2> HIDE DEF f
  <2>3. StreamsFit'
    BY <1>4, <2>1, <2>2, SaidFits
  <2>4. ASSUME NEW r \in Connected', NEW q \in Sockets \ Listed', NEW u \in Users
        PROVE  ~Announced(sent'[r], Who(q, u))
    <3>1. r \in Connected /\ sent[r] \in Seq(Frame) /\ conn[r] = "open"
      BY <1>2, <1>3, <2>4 DEF Connected
    <3>2. sent'[r] = sent[r] \o <<f>>
      BY <1>4, <3>1 DEF Say, Connected
    <3>3. Announced(sent[r] \o <<f>>, Who(q, u)) <=>
            Announced(sent[r], Who(q, u)) /\ Who(q, u) \notin f.who
      BY <2>1, <3>1, FrameAdded
    <3>4. CASE q = s
      <4>1. Announced(sent[r], Who(s, u)) => left = u
        BY <3>1, RollCall
      <4> QED BY <2>1, <3>2, <3>3, <3>4, <4>1
    <3>5. CASE q # s
      BY <1>3, <3>1, <3>2, <3>3, <3>5 DEF ServerInv, Forgotten
    <3> QED BY <3>4, <3>5
  <2> QED BY <2>3, <2>4 DEF Forgotten
<1>5. CASE (s \notin sessions \/ left = NoUser) /\ sent' = sent
  <2>1. StreamsFit'
    BY <1>5 DEF ServerInv, StreamsFit
  <2>2. ASSUME NEW r \in Connected, NEW u \in Users PROVE ~Announced(sent[r], Who(s, u))
    BY <1>5, RollCall, NoUserAssumption
  <2>3. Forgotten'
    BY <1>3, <1>5, <2>2 DEF ServerInv, Forgotten
  <2> QED BY <2>1, <2>3
<1> QED BY <1>1, <1>4, <1>5

LEMMA LoginTells ==
    ASSUME Platform = "bun", ServerInv, NEW t \in logins, LoginOpenRoom(t)
    PROVE  StreamsFit' /\ Forgotten'
<1> DEFINE s   == t.socket
           old == session[s].address
           g   == Joined({Who(s, t.user)})
           f   == Quit({Who(s, old)})
<1>1. /\ s \in sessions /\ t.user \in Users /\ old \in Users \cup {NoUser} /\ old # t.user
      /\ sessions' = sessions /\ conn' = conn
      /\ old = NoUser => Say(g)
      /\ old # NoUser => SayTwo(f, g)
  BY LoginSays DEF ServerInv
<1>2. s \in Sockets /\ s \in Listed
  BY <1>1 DEF ServerInv, RoomInv, TypeOK, Listed
<1>3. g \in Frame /\ Named(g) /\ g.type = "joined" /\ g.who = {Who(s, t.user)}
  BY <1>1, <1>2, NamedPresence
<1>4. \A r \in Connected : /\ ~Announced(sent[r], Who(s, t.user))
                           /\ old # NoUser => Announced(sent[r], Who(s, old))
  BY <1>1, <1>2, RollCall
<1>5. Connected' = Connected /\ Listed = Listed'
  BY <1>1 DEF Connected, Listed
<1> HIDE DEF g
<1>6. CASE old = NoUser
  <2>1. StreamsFit'
    BY <1>1, <1>3, <1>4, <1>6, SaidFits
  <2>2. \A p \in g.who : p.id \in Listed
    BY <1>2, <1>3 DEF Who
  <2>3. Forgotten'
    BY <1>1, <1>3, <1>5, <1>6, <2>2, SaidForgets
  <2> QED BY <2>1, <2>3
<1>7. CASE old # NoUser
  <2>1. f \in Frame /\ Named(f) /\ f.type = "quit" /\ f.who = {Who(s, old)}
    BY <1>1, <1>2, <1>7, NamedPresence
  <2>2. \A r \in Sockets : sent[r] \in Seq(Frame) /\ StreamFits(sent[r]) /\ QuitsFit(sent[r])
    BY DEF ServerInv, StreamsFit, RoomInv, TypeOK
  <2>3. ASSUME NEW r \in Sockets
        PROVE  StreamFits(sent'[r]) /\ QuitsFit(sent'[r])
    <3>1. CASE conn[r] = "open"
      <4> DEFINE mid == sent[r] \o <<f>>
      <4>1. r \in Connected
        BY <3>1 DEF Connected
      <4>2. mid \in Seq(Frame) /\ StreamFits(mid)
        BY <2>1, <2>2, StreamAppend
      <4>3. QuitsFit(mid)
        BY <1>4, <1>7, <2>1, <2>2, <4>1, QuitsAppend
      <4>4. ~Announced(mid, Who(s, t.user))
        <5>1. Announced(mid, Who(s, t.user)) => Announced(sent[r], Who(s, t.user))
          <6> DEFINE p == Who(s, t.user)
          <6>1. sent[r] \in Seq(Frame) /\ f \in Frame /\ f.type = "quit"
            BY <2>1, <2>2
          <6> HIDE DEF p, f
          <6>2. Announced(sent[r] \o <<f>>, p) =>
                  f.type = "joined" \/ Announced(sent[r], p)
            BY <6>1, FrameAdded
          <6> QED BY <6>1, <6>2 DEF p
        <5> QED BY <1>4, <4>1, <5>1
      <4>5. sent'[r] = mid \o <<g>>
        BY <1>1, <1>7, <3>1 DEF SayTwo
      <4> HIDE DEF mid
      <4>6. StreamFits(mid \o <<g>>)
        BY <1>3, <4>2, <4>4, StreamAppend
      <4>7. QuitsFit(mid \o <<g>>)
        BY <1>3, <4>2, <4>3, QuitsAppend
      <4> QED BY <4>5, <4>6, <4>7
    <3>2. CASE conn[r] # "open"
      BY <1>1, <1>7, <2>2, <3>2 DEF SayTwo
    <3> QED BY <3>1, <3>2
  <2>4. ASSUME NEW r \in Connected', NEW q \in Sockets \ Listed', NEW u \in Users
        PROVE  ~Announced(sent'[r], Who(q, u))
    <3> DEFINE mid == sent[r] \o <<f>>
    <3>1. r \in Connected /\ r \in Sockets /\ conn[r] = "open" /\ q \in Sockets \ Listed
          /\ q # s
      BY <1>2, <1>5, <2>4 DEF Connected
    <3>2. ~Announced(sent[r], Who(q, u))
      BY <3>1 DEF ServerInv, Forgotten
    <3>3. mid \in Seq(Frame) /\ ~Announced(mid, Who(q, u))
      BY <2>1, <2>2, <3>1, <3>2, FrameAdded
    <3>4. sent'[r] = mid \o <<g>>
      BY <1>1, <1>7, <3>1 DEF SayTwo
    <3> HIDE DEF mid
    <3>5. Who(q, u) \notin g.who
      BY <1>3, <3>1, WhoIs
    <3>6. ~Announced(mid \o <<g>>, Who(q, u))
      BY <1>3, <3>3, <3>5, FrameAdded
    <3> QED BY <3>4, <3>6
  <2> QED BY <2>3, <2>4 DEF StreamsFit, Forgotten
<1> QED BY <1>6, <1>7

LEMMA OpenTells ==
    ASSUME Platform = "bun", ServerInv, NEW s \in Sockets, Open(s)
    PROVE  StreamsFit' /\ Forgotten'
<1>1. /\ conn[s] = "new" /\ conn' = [conn EXCEPT ![s] = "open"]
      /\ sessions' = sessions \cup {s}
  BY OpenSays DEF ServerInv
<1>2. PICK frames \in Seq(Frame) :
        /\ sent' = [sent EXCEPT ![s] = frames]
        /\ StreamFits(frames)
        /\ \A i \in DOMAIN frames :
             /\ frames[i].type # "quit"
             /\ frames[i].type = "joined" =>
                  \A p \in frames[i].who : p.id \in sessions
  BY OpenSays DEF ServerInv
<1>3. /\ conn \in [Sockets -> {"new", "open", "leaving", "closed"}]
      /\ sent \in [Sockets -> Seq(Frame)] /\ sessions \subseteq Sockets
  BY DEF ServerInv, RoomInv, TypeOK
<1>4. Listed' = Listed /\ Connected' = Connected \cup {s}
  BY <1>1, <1>3 DEF Listed, Connected
<1>5. QuitsFit(frames)
  BY <1>2 DEF QuitsFit
<1>6. StreamsFit'
  BY <1>2, <1>3, <1>5 DEF ServerInv, StreamsFit
<1>7. ASSUME NEW r \in Connected', NEW q \in Sockets \ Listed', NEW u \in Users
      PROVE  ~Announced(sent'[r], Who(q, u))
  <2>1. CASE r = s
    <3>1. q \notin sessions
      BY <1>4, <1>7 DEF Listed
    <3>2. \A i \in DOMAIN frames : frames[i].type = "joined" => Who(q, u) \notin frames[i].who
      BY <1>2, <3>1 DEF Who
    <3> QED BY <1>2, <1>3, <2>1, <3>2 DEF Announced
  <2>2. CASE r # s
    BY <1>2, <1>3, <1>4, <1>7, <2>2 DEF ServerInv, Forgotten, Connected
  <2> QED BY <2>1, <2>2
<1> QED BY <1>6, <1>7 DEF Forgotten

\* The turns that nobody hears of.
LEMMA UnheardTurns ==
    ASSUME Platform = "bun", ServerInv,
           \/ \E s \in Sockets : Disconnect(s) \/ \E u \in Users : RequestLogin(s, u)
           \/ \E t \in logins : LoginFails(t) \/ LoginRepeats(t) \/ ChainRefuses(t)
           \/ UNCHANGED vars
    PROVE  /\ UNCHANGED <<sessions, session, sent>>
           /\ \A r \in Sockets : \/ conn'[r] = conn[r]
                                 \/ conn[r] = "open" /\ conn'[r] = "leaving"
<1>1. conn \in [Sockets -> {"new", "open", "leaving", "closed"}]
  BY DEF ServerInv, RoomInv, TypeOK
<1>2. ASSUME NEW s \in Sockets, Disconnect(s)
      PROVE  /\ UNCHANGED <<sessions, session, sent>>
             /\ \A r \in Sockets : \/ conn'[r] = conn[r]
                                   \/ conn[r] = "open" /\ conn'[r] = "leaving"
  BY <1>1, <1>2 DEF Disconnect
<1>3. ASSUME NEW s \in Sockets, NEW u \in Users, RequestLogin(s, u)
      PROVE  UNCHANGED <<sessions, session, sent, conn>>
  BY <1>3 DEF RequestLogin
<1>4. ASSUME NEW t \in logins, LoginFails(t) \/ LoginRepeats(t) \/ ChainRefuses(t)
      PROVE  UNCHANGED <<sessions, session, sent, conn>>
  BY <1>4 DEF LoginFails, LoginRepeats, ChainRefuses
<1>5. CASE UNCHANGED vars
  BY <1>5 DEF vars
<1> QED BY <1>2, <1>3, <1>4, <1>5

LEMMA UnheardTells ==
    ASSUME Platform = "bun", ServerInv, UNCHANGED <<sessions, session, sent>>,
           \A r \in Sockets : \/ conn'[r] = conn[r]
                              \/ conn[r] = "open" /\ conn'[r] = "leaving"
    PROVE  StreamsFit' /\ Forgotten'
<1>1. StreamsFit'
  BY DEF ServerInv, StreamsFit
<1>2. Connected' \subseteq Connected
  BY DEF Connected
<1>3. Listed \subseteq Listed'
  BY DEF Listed, ServerInv, RoomInv, RosterInvariant
<1>4. Forgotten'
  BY <1>2, <1>3 DEF ServerInv, Forgotten, Listed, Connected
<1> QED BY <1>1, <1>4

LEMMA OnlyOpenRooms ==
    ASSUME Platform = "bun", ServerInv
    PROVE  /\ ~ \E t \in logins : LoginGatedRoom(t) \/ ChainPasses(t)
           /\ ~Hibernate
BY DEF ServerInv, RoomInv, RosterInvariant, LoginGatedRoom, ChainPasses, Hibernate

\* Every turn of the room keeps what its clients have been told right.
LEMMA ServerStep ==
    ASSUME Platform = "bun", ServerInv, [Next]_vars
    PROVE  ServerInv'
<1>1. RoomInv'
  <2>1. gated' = gated
    BY DEF Next, vars, Open, Disconnect, CloseEvent, Logout, RequestLogin, SendChat,
           LoginFails, LoginRepeats, LoginOpenRoom, LoginGatedRoom, ChainRefuses,
           ChainPasses, Hibernate
  <2>2. TypeOK'
    BY TypeStep DEF ServerInv, RoomInv
  <2>3. RosterInvariant'
    BY RosterStep DEF ServerInv, RoomInv
  <2> QED BY <2>1, <2>2, <2>3 DEF ServerInv, RoomInv
<1>2. ASSUME NEW s \in Sockets, Open(s) \/ CloseEvent(s) \/ Logout(s)
      PROVE  StreamsFit' /\ Forgotten'
  BY <1>2, OpenTells, CloseTells, LogoutTells
<1>3. ASSUME NEW s \in Sockets, NEW now \in Clock, SendChat(s, now)
      PROVE  StreamsFit' /\ Forgotten'
  BY <1>3, ChatTells
<1>4. ASSUME NEW t \in logins, LoginOpenRoom(t)
      PROVE  StreamsFit' /\ Forgotten'
  BY <1>4, LoginTells
<1>5. ASSUME \/ \E s \in Sockets : Disconnect(s) \/ \E u \in Users : RequestLogin(s, u)
             \/ \E t \in logins : LoginFails(t) \/ LoginRepeats(t) \/ ChainRefuses(t)
             \/ UNCHANGED vars
      PROVE  StreamsFit' /\ Forgotten'
  BY <1>5, UnheardTurns, UnheardTells
<1>6. StreamsFit' /\ Forgotten'
  BY <1>2, <1>3, <1>4, <1>5, OnlyOpenRooms DEF Next
<1> QED BY <1>1, <1>6 DEF ServerInv

\* A stream that has begun only grows.
Grows ==
    \A r \in Sockets : conn[r] # "new" =>
      conn'[r] # "new" /\ \E more \in Seq(Frame) : sent'[r] = sent[r] \o more

LEMMA SaidGrows ==
    ASSUME ServerInv, NEW f \in Frame, Say(f) \/ \E g \in Frame : SayTwo(g, f)
    PROVE  \A r \in Sockets : \E more \in Seq(Frame) : sent'[r] = sent[r] \o more
<1> SUFFICES ASSUME NEW r \in Sockets
             PROVE  \E more \in Seq(Frame) : sent'[r] = sent[r] \o more
  OBVIOUS
<1> DEFINE a == sent[r]
           b == <<f>>
           none == <<>>
<1>1. a \in Seq(Frame) /\ b \in Seq(Frame) /\ none \in Seq(Frame) /\ a \o none = a
  BY EmptySeq, ConcatEmptySeq DEF ServerInv, RoomInv, TypeOK
<1>2. CASE sent'[r] = a
  BY <1>1, <1>2
<1>3. CASE sent'[r] = a \o b
  BY <1>1, <1>3
<1>4. ASSUME NEW g \in Frame, sent'[r] = (a \o <<g>>) \o b
      PROVE  \E more \in Seq(Frame) : sent'[r] = sent[r] \o more
  <2> DEFINE c == <<g>>
  <2>1. c \in Seq(Frame)
    BY <1>4
  <2> HIDE DEF a, b, c
  <2>2. (a \o c) \o b = a \o (c \o b)
    BY <1>1, <2>1, ConcatAssociative
  <2>3. c \o b \in Seq(Frame)
    BY <1>1, <2>1, ConcatProperties
  <2> QED BY <1>4, <2>2, <2>3 DEF a, c
<1> QED BY <1>2, <1>3, <1>4 DEF Say, SayTwo

LEMMA ServerGrows ==
    ASSUME Platform = "bun", ServerInv, [Next]_vars
    PROVE  Grows
<1>1. /\ conn \in [Sockets -> {"new", "open", "leaving", "closed"}]
      /\ sent \in [Sockets -> Seq(Frame)]
  BY DEF ServerInv, RoomInv, TypeOK
<1> DEFINE More == \A r \in Sockets : \E more \in Seq(Frame) : sent'[r] = sent[r] \o more
<1>2. CASE UNCHANGED <<conn, sent>> \/ /\ sent' = sent
                                       /\ \A r \in Sockets : \/ conn'[r] = conn[r]
                                                             \/ conn'[r] \in {"leaving", "closed"}
  <2>1. \A r \in Sockets : sent[r] \o <<>> = sent[r] /\ <<>> \in Seq(Frame)
    BY <1>1, EmptySeq, ConcatEmptySeq
  <2> QED BY <1>2, <2>1 DEF Grows
<1>3. ASSUME More, conn' = conn PROVE Grows
  BY <1>3 DEF Grows
<1> HIDE DEF More
<1>4. ASSUME NEW s \in Sockets, Open(s) PROVE Grows
  <2>1. conn[s] = "new" /\ conn' = [conn EXCEPT ![s] = "open"]
    BY <1>4, OpenSays DEF ServerInv
  <2>2. \A r \in Sockets : r # s => sent'[r] = sent[r] /\ conn'[r] = conn[r]
    BY <1>1, <1>4, <2>1 DEF Open
  <2>3. \A r \in Sockets : sent[r] \o <<>> = sent[r] /\ <<>> \in Seq(Frame)
    BY <1>1, EmptySeq, ConcatEmptySeq
  <2> QED BY <2>1, <2>2, <2>3 DEF Grows
<1>5. ASSUME NEW s \in Sockets, Logout(s) PROVE Grows
  <2> DEFINE f == Quit({Who(s, session[s].address)})
  <2>1. s \in Sockets /\ session[s].address \in Users /\ conn' = conn /\ Say(f)
    BY <1>5, LogoutSays DEF ServerInv
  <2>2. f \in Frame
    BY <2>1, NamedPresence
  <2> HIDE DEF f
  <2>3. More
    BY <2>1, <2>2, SaidGrows DEF More
  <2> QED BY <1>3, <2>1, <2>3
<1>6. ASSUME NEW s \in Sockets, NEW now \in Clock, SendChat(s, now) PROVE Grows
  <2> DEFINE f == Chat(Stamp(now), session[s].address)
  <2>1. f \in Message /\ conn' = conn /\ Say(f)
    BY <1>6, ChatSays DEF ServerInv
  <2> HIDE DEF f
  <2>2. f \in Frame
    BY <2>1, FrameTypes
  <2>3. More
    BY <2>1, <2>2, SaidGrows DEF More
  <2> QED BY <1>3, <2>1, <2>3
<1>7. ASSUME NEW s \in Sockets, CloseEvent(s) PROVE Grows
  <2> DEFINE f == Quit({Who(s, session[s].address)})
  <2>1. /\ conn' = [conn EXCEPT ![s] = "closed"]
        /\ (session[s].address \in Users /\ Say(f)) \/ sent' = sent
    BY <1>7, CloseSays DEF ServerInv
  <2>2. session[s].address \in Users => f \in Frame
    BY NamedPresence
  <2> HIDE DEF f
  <2>3. CASE session[s].address \in Users /\ Say(f)
    <3>1. More
      BY <2>2, <2>3, SaidGrows DEF More
    <3>2. \A r \in Sockets : conn[r] # "new" => conn'[r] # "new"
      BY <1>1, <2>1
    <3> QED BY <3>1, <3>2 DEF Grows, More
  <2>4. CASE sent' = sent
    BY <1>1, <1>2, <2>1, <2>4
  <2> QED BY <2>1, <2>3, <2>4
<1>8. ASSUME NEW t \in logins, LoginOpenRoom(t) PROVE Grows
  <2> DEFINE s   == t.socket
             old == session[s].address
             f   == Quit({Who(s, old)})
             g   == Joined({Who(s, t.user)})
  <2>1. /\ s \in sessions /\ t.user \in Users /\ old \in Users \cup {NoUser} /\ conn' = conn
        /\ old = NoUser => Say(g)
        /\ old # NoUser => SayTwo(f, g)
    BY <1>8, LoginSays DEF ServerInv
  <2>2. s \in Sockets
    BY <2>1 DEF ServerInv, RoomInv, TypeOK
  <2>3. g \in Frame /\ (old # NoUser => f \in Frame)
    BY <2>1, <2>2, NamedPresence
  <2> HIDE DEF old, f, g
  <2>4. More
    BY <2>1, <2>3, SaidGrows DEF More
  <2> QED BY <1>3, <2>1, <2>4
<1>9. ASSUME \/ \E s \in Sockets : Disconnect(s) \/ \E u \in Users : RequestLogin(s, u)
             \/ \E t \in logins : LoginFails(t) \/ LoginRepeats(t) \/ ChainRefuses(t)
             \/ UNCHANGED vars
      PROVE  Grows
  BY <1>2, <1>9, UnheardTurns
<1> QED BY <1>4, <1>5, <1>6, <1>7, <1>8, <1>9, OnlyOpenRooms DEF Next

-----------------------------------------------------------------------------
(* The client. *)

RoomStates == [step    : {"Connecting", "Connected"},
               address : Users \cup {NoUser},
               status  : {"none", "NoAccount", "LoggedOut", "LoggedIn"},
               session : Own \cup {NoSocket, Undefined},
               users   : [Users -> Nat],
               pending : Nat]

LoginMail == [type : {"login"}, user : Users, challenge : Own]
Mail      == LoginMail \cup {LogoutMessage, ChatMessage}

\* A status comes with the fields that it needs, and a login with the account
\* that the client knows.
StatusFits(r, u) ==
    /\ r.step = "Connecting" => r.status = "none"
    /\ r.status = "NoAccount" => r.address = NoUser /\ r.session = NoSocket
    /\ r.status = "LoggedOut" => r.address # NoUser
    /\ r.status = "LoggedIn" => r.address # NoUser /\ r.session \in Own /\ r.address = u

\* The websocket of the client is the only one that is connecting or open, and
\* the only one that receives.
WiresFit ==
    \A s \in Own :
      /\ ready[s] \in {"connecting", "open"} => websocket = s
      /\ ready[s] = "open" => conn[s] # "new" /\ read[s] <= Len(sent[s])
      /\ ready[s] # "open" => read[s] = 0

ClientTypes ==
    /\ registration \in Users \cup {NoUser}
    /\ known \in Users \cup {NoUser}
    /\ acts \in Nat
    /\ websocket \in Own \cup {NoSocket}
    /\ ready \in [Own -> {"none", "connecting", "open", "closing", "closed"}]
    /\ room \in RoomStates
    /\ savedSession \in Own \cup {NoSocket}
    /\ loginOnChallengeReceived \in BOOLEAN
    /\ signing \in SUBSET LoginMail
    /\ outbox \in [Own -> Seq(Mail)]
    /\ read \in [Own -> Nat]
    /\ reported \in BOOLEAN

ClientInv == ClientTypes /\ StatusFits(room, known) /\ WiresFit

\* q is r logged out, or never logged in.
OutOf(r, q) ==
    /\ q \in RoomStates /\ q.step = "Connected" /\ q.status = "LoggedOut"
    /\ q.address \in Users /\ q.users = r.users /\ q.pending = r.pending

LEMMA LoggedOutIs ==
    ASSUME NEW r \in RoomStates, NEW u \in Users,
           NEW f \in Own \cup {NoSocket, Undefined}
    PROVE  /\ OutOf(r, LoggedOut(r, u, f))
           /\ LoggedOut(r, u, f).session = f /\ LoggedOut(r, u, f).address = u
BY DEF OutOf, LoggedOut, RoomStates

LEMMA OutOfOut ==
    ASSUME NEW r, NEW q, NEW p, OutOf(r, q), OutOf(q, p)
    PROVE  OutOf(r, p)
BY DEF OutOf

LEMMA LoginStartsFits ==
    ASSUME ClientTypes, NEW r \in RoomStates, NEW u \in Users \cup {NoUser},
           LoginStarts(r, u)
    PROVE  \/ room' = r /\ signing' = signing
           \/ /\ u \in Users /\ savedSession \in Own
              /\ r.step = "Connected" /\ r.status # "LoggedIn"
              /\ room' = LoggedOut(r, u, savedSession) /\ OutOf(r, room')
              /\ signing' = signing \cup {LoginMessage(u, savedSession)}
              /\ LoginMessage(u, savedSession) \in LoginMail
<1>1. CASE CanLogin(r) /\ u # NoUser
  <2>1. /\ room' = LoggedOut(r, u, savedSession)
        /\ signing' = signing \cup {LoginMessage(u, savedSession)}
    BY <1>1 DEF LoginStarts
  <2>2. u \in Users /\ savedSession \in Own /\ r.step = "Connected" /\ r.status # "LoggedIn"
    BY <1>1 DEF ClientTypes, CanLogin
  <2>3. LoginMessage(u, savedSession) \in LoginMail
    BY <2>2 DEF LoginMessage, LoginMail
  <2>4. OutOf(r, LoggedOut(r, u, savedSession))
    BY <2>2, LoggedOutIs
  <2> QED BY <2>1, <2>2, <2>3, <2>4
<1>2. CASE ~(CanLogin(r) /\ u # NoUser)
  BY <1>2 DEF LoginStarts
<1> QED BY <1>1, <1>2

LEMMA AutoLoginFits ==
    ASSUME ClientTypes, NEW r \in RoomStates, NEW u \in Users \cup {NoUser},
           NEW waiting \in BOOLEAN, AutoLogin(r, u, waiting)
    PROVE  /\ room' = r \/ OutOf(r, room')
           /\ signing' \in SUBSET LoginMail
           /\ loginOnChallengeReceived' \in BOOLEAN
<1>1. CASE savedSession = NoSocket
  BY <1>1 DEF AutoLogin, ClientTypes
<1>2. CASE savedSession # NoSocket
  <2>1. LoginStarts(r, u) /\ loginOnChallengeReceived' = waiting
    BY <1>2 DEF AutoLogin
  <2> QED BY <2>1, LoginStartsFits DEF ClientTypes
<1> QED BY <1>1, <1>2

LEMMA SavedFieldType ==
    ASSUME ClientTypes
    PROVE  SavedField \in Own \cup {NoSocket, Undefined}
BY DEF ClientTypes, SavedField

\* What a change of the registration makes of the room.
Mild(q, u) ==
    \/ q = room /\ (room.status = "LoggedIn" => u = known)
    \/ room.step = "Connecting" /\ q = Connecting(u)
    \/ room.step = "Connected" /\ OutOf(room, q)

LEMMA RegistrationFits ==
    ASSUME ClientInv, NEW u \in Users \cup {NoUser}, NEW s,
           RegistrationChanges(known, u, s)
    PROVE  /\ Mild(room', u)
           /\ signing' \in SUBSET LoginMail
           /\ loginOnChallengeReceived' \in BOOLEAN
           /\ outbox' = outbox \/ outbox' = Sent(s, LogoutMessage)
<1> DEFINE loggedIn == room.step = "Connected" /\ room.status = "LoggedIn"
           out == LoggedOut(room, u, SavedField)
<1>1. /\ ClientTypes /\ StatusFits(room, known) /\ room \in RoomStates
      /\ signing \in SUBSET LoginMail /\ loginOnChallengeReceived \in BOOLEAN
  BY DEF ClientInv, ClientTypes
<1>2. u \in Users => out \in RoomStates /\ OutOf(room, out)
  <2>1. u \in Users => OutOf(room, out)
    BY <1>1, SavedFieldType, LoggedOutIs
  <2> QED BY <2>1 DEF OutOf
<1>3. room.status = "LoggedIn" => loggedIn /\ known # NoUser
  BY <1>1 DEF StatusFits, RoomStates
<1> HIDE DEF out
<1>4. ASSUME NEW waiting \in BOOLEAN, u # NoUser, AutoLogin(out, u, waiting)
      PROVE  /\ OutOf(room, room')
             /\ signing' \in SUBSET LoginMail /\ loginOnChallengeReceived' \in BOOLEAN
  <2>1. out \in RoomStates /\ OutOf(room, out)
    BY <1>2, <1>4
  <2>2. /\ room' = out \/ OutOf(out, room')
        /\ signing' \in SUBSET LoginMail /\ loginOnChallengeReceived' \in BOOLEAN
    BY <1>1, <1>4, <2>1, AutoLoginFits
  <2> QED BY <2>1, <2>2, OutOfOut
<1>5. CASE known = u /\ UNCHANGED <<room, signing, outbox, loginOnChallengeReceived>>
  BY <1>1, <1>5 DEF Mild
<1>6. CASE /\ known # u /\ room.step = "Connecting" /\ room' = Connecting(u)
           /\ UNCHANGED <<signing, outbox, loginOnChallengeReceived>>
  BY <1>1, <1>6 DEF Mild
<1>7. CASE /\ room.step = "Connected" /\ known = NoUser /\ u # NoUser
           /\ AutoLogin(out, u, loginOnChallengeReceived) /\ UNCHANGED outbox
  BY <1>1, <1>4, <1>7 DEF Mild
<1>8. CASE /\ loggedIn /\ known # u /\ known # NoUser
           /\ outbox' = Sent(s, LogoutMessage)
           /\ u # NoUser /\ AutoLogin(out, u, FALSE)
  BY <1>1, <1>4, <1>8 DEF Mild
<1>9. CASE /\ loggedIn /\ known # u /\ known # NoUser
           /\ outbox' = Sent(s, LogoutMessage)
           /\ room' = LoggedOut(room, room.address, room.session)
           /\ loginOnChallengeReceived' = FALSE /\ UNCHANGED signing
  <2>1. room.address \in Users /\ room.session \in Own \cup {NoSocket, Undefined}
    BY <1>1, <1>9 DEF RoomStates, StatusFits
  <2>2. OutOf(room, room')
    BY <1>1, <1>9, <2>1, LoggedOutIs
  <2> QED BY <1>1, <1>9, <2>2 DEF Mild
<1>10. CASE /\ room.step = "Connected" /\ ~loggedIn /\ known # u /\ known # NoUser
            /\ loginOnChallengeReceived' = (loginOnChallengeReceived /\ u = NoUser)
            /\ UNCHANGED <<room, signing, outbox>>
  <2>1. loginOnChallengeReceived' \in BOOLEAN
    BY <1>10
  <2> QED BY <1>1, <1>3, <1>10, <2>1 DEF Mild
<1> QED BY <1>5, <1>6, <1>7, <1>8, <1>9, <1>10 DEF RegistrationChanges, out

LEMMA MildFits ==
    ASSUME ClientInv, NEW u \in Users \cup {NoUser}, NEW q, Mild(q, u)
    PROVE  q \in RoomStates /\ StatusFits(q, u)
<1>1. room \in RoomStates /\ StatusFits(room, known)
  BY DEF ClientInv, ClientTypes
<1>2. CASE q = room /\ (room.status = "LoggedIn" => u = known)
  BY <1>1, <1>2 DEF StatusFits
<1>3. CASE room.step = "Connecting" /\ q = Connecting(u)
  BY <1>3 DEF Connecting, NoUsers, RoomStates, StatusFits
<1>4. CASE OutOf(room, q)
  BY <1>4, NoUserAssumption DEF OutOf, StatusFits
<1> QED BY <1>2, <1>3, <1>4 DEF Mild

LEMMA SentType ==
    ASSUME ClientTypes, NEW s \in Own, NEW m \in Mail
    PROVE  Sent(s, m) \in [Own -> Seq(Mail)]
<1>1. outbox \in [Own -> Seq(Mail)]
  BY DEF ClientTypes
<1>2. Append(outbox[s], m) \in Seq(Mail)
  BY <1>1, AppendProperties
<1> QED BY <1>1, <1>2 DEF Sent

\* A message more that waits for its echo.
Pends == room' = [room EXCEPT !.pending = @ + 1] /\ known' = known

\* No other websocket becomes open, and the one that is open has not moved.
Rewired ==
    \A s \in Own :
      /\ ready'[s] \in {"connecting", "open"} => websocket' = s
      /\ ready'[s] = "open" => ready[s] = "open" /\ read'[s] = read[s]
      /\ ready'[s] # "open" => read'[s] = 0

LEMMA NotRewired ==
    ASSUME ClientInv, UNCHANGED <<websocket, ready, read>>
    PROVE  Rewired
BY DEF ClientInv, WiresFit, Rewired

LEMMA StopFits ==
    ASSUME ClientInv, Stop
    PROVE  ClientTypes' /\ Mild(room', known') /\ Rewired /\ reported' = reported
<1> USE DEF ClientInv, ClientTypes
<1>1. /\ websocket \in Own /\ websocket' = NoSocket
      /\ ready' = [ready EXCEPT ![websocket] =
                     IF @ \in {"connecting", "open"} THEN "closing" ELSE @]
      /\ read' = [read EXCEPT ![websocket] = 0]
      /\ UNCHANGED <<registration, known, acts, room, savedSession,
                     loginOnChallengeReceived, signing, outbox, reported>>
  BY DEF Stop
<1>2. ready' \in [Own -> {"none", "connecting", "open", "closing", "closed"}]
  BY <1>1
<1>3. read' \in [Own -> Nat]
  BY <1>1
<1>4. ClientTypes'
  BY <1>1, <1>2, <1>3
<1>5. Rewired
  BY <1>1, <1>2, <1>3 DEF WiresFit, Rewired
<1>6. Mild(room', known')
  BY <1>1 DEF Mild
<1> QED BY <1>1, <1>4, <1>5, <1>6

LEMMA StartFits ==
    ASSUME ClientInv, NEW s \in Own, Start(s)
    PROVE  ClientTypes' /\ Mild(room', known') /\ Rewired /\ reported' = reported
<1>1. /\ websocket = NoSocket /\ ready[s] = "none"
      /\ websocket' = s /\ ready' = [ready EXCEPT ![s] = "connecting"]
      /\ known' = registration
      /\ RegistrationChanges(known, registration, s)
      /\ UNCHANGED <<registration, acts, savedSession, read, reported>>
  BY DEF Start
<1>2. /\ ClientTypes /\ registration \in Users \cup {NoUser}
      /\ ready \in [Own -> {"none", "connecting", "open", "closing", "closed"}]
  BY DEF ClientInv, ClientTypes
<1>3. /\ Mild(room', registration)
      /\ signing' \in SUBSET LoginMail
      /\ loginOnChallengeReceived' \in BOOLEAN
      /\ outbox' = outbox \/ outbox' = Sent(s, LogoutMessage)
  BY <1>1, <1>2, RegistrationFits
<1>4. room' \in RoomStates
  BY <1>2, <1>3, MildFits
<1>5. outbox' \in [Own -> Seq(Mail)]
  BY <1>2, <1>3, SentType DEF ClientTypes, Mail
<1>6. ready' \in [Own -> {"none", "connecting", "open", "closing", "closed"}]
  BY <1>1, <1>2
<1>7. ClientTypes'
  BY <1>1, <1>2, <1>3, <1>4, <1>5, <1>6 DEF ClientTypes
<1>8. Rewired
  BY <1>1, <1>2, FieldAssumption, OwnAssumption DEF ClientInv, WiresFit, Rewired
<1> QED BY <1>1, <1>3, <1>7, <1>8

LEMMA RegisterFits ==
    ASSUME ClientInv, NEW u \in Users \cup {NoUser}, ChangeRegistration(u)
    PROVE  ClientTypes' /\ Mild(room', known') /\ Rewired /\ reported' = reported
<1>1. /\ acts' = acts + 1 /\ registration' = u
      /\ UNCHANGED <<websocket, ready, savedSession, read, reported>>
  BY DEF ChangeRegistration
<1>2. ClientTypes
  BY DEF ClientInv
<1>3. Rewired
  BY <1>1, NotRewired
<1>4. CASE websocket = NoSocket
  <2>1. UNCHANGED <<known, room, signing, outbox, loginOnChallengeReceived>>
    BY <1>4 DEF ChangeRegistration
  <2>2. ClientTypes'
    BY <1>1, <1>2, <2>1 DEF ClientTypes
  <2> QED BY <1>1, <1>3, <2>1, <2>2 DEF Mild
<1>5. CASE websocket # NoSocket
  <2>1. known' = u /\ RegistrationChanges(known, u, websocket) /\ websocket \in Own
    BY <1>2, <1>5 DEF ChangeRegistration, ClientTypes
  <2>2. /\ Mild(room', u)
        /\ signing' \in SUBSET LoginMail
        /\ loginOnChallengeReceived' \in BOOLEAN
        /\ outbox' = outbox \/ outbox' = Sent(websocket, LogoutMessage)
    BY <2>1, RegistrationFits
  <2>3. room' \in RoomStates
    BY <2>2, MildFits
  <2>4. outbox' \in [Own -> Seq(Mail)]
    BY <1>2, <2>1, <2>2, SentType DEF ClientTypes, Mail
  <2>5. ClientTypes'
    BY <1>1, <1>2, <2>1, <2>2, <2>3, <2>4 DEF ClientTypes
  <2> QED BY <1>1, <1>3, <2>1, <2>2, <2>5
<1> QED BY <1>4, <1>5

LEMMA SignedFits ==
    ASSUME ClientInv, NEW m \in signing, Signed(m)
    PROVE  ClientTypes' /\ Mild(room', known') /\ Rewired /\ reported' = reported
<1>1. /\ signing' = signing \ {m}
      /\ outbox' = IF websocket = NoSocket THEN outbox ELSE Sent(websocket, m)
      /\ UNCHANGED <<registration, known, acts, websocket, ready, room, savedSession,
                     loginOnChallengeReceived, read, reported>>
  BY DEF Signed
<1>2. ClientTypes /\ m \in Mail
  BY DEF ClientInv, ClientTypes, Mail
<1>3. outbox' \in [Own -> Seq(Mail)]
  BY <1>1, <1>2, SentType DEF ClientTypes
<1>4. ClientTypes'
  BY <1>1, <1>2, <1>3 DEF ClientTypes
<1> QED BY <1>1, <1>4, NotRewired DEF Mild

LEMMA LogInFits ==
    ASSUME ClientInv, LogIn
    PROVE  ClientTypes' /\ Mild(room', known') /\ Rewired /\ reported' = reported
<1>1. /\ acts' = acts + 1 /\ LoginStarts(room, known) /\ CanLogin(room)
      /\ UNCHANGED <<registration, known, websocket, ready, savedSession,
                     loginOnChallengeReceived, outbox, read, reported>>
  BY DEF LogIn
<1>2. ClientTypes /\ room \in RoomStates /\ known \in Users \cup {NoUser}
  BY DEF ClientInv, ClientTypes
<1>3. \/ room' = room /\ signing' = signing
      \/ /\ room.step = "Connected"
         /\ OutOf(room, room')
         /\ signing' = signing \cup {LoginMessage(known, savedSession)}
         /\ LoginMessage(known, savedSession) \in LoginMail
  BY <1>1, <1>2, LoginStartsFits
<1>4. Mild(room', known')
  BY <1>1, <1>3 DEF Mild
<1>5. room' \in RoomStates
  BY <1>1, <1>2, <1>4, MildFits
<1>6. signing' \in SUBSET LoginMail
  BY <1>2, <1>3 DEF ClientTypes
<1>7. ClientTypes'
  BY <1>1, <1>2, <1>5, <1>6 DEF ClientTypes
<1> QED BY <1>1, <1>4, <1>7, NotRewired

LEMMA SendMessageFits ==
    ASSUME ClientInv, SendMessage
    PROVE  ClientTypes' /\ Pends /\ Rewired /\ reported' = reported
<1>1. /\ acts' = acts + 1 /\ websocket # NoSocket
      /\ room' = [room EXCEPT !.pending = @ + 1]
      /\ outbox' = Sent(websocket, ChatMessage)
      /\ UNCHANGED <<registration, known, websocket, ready, savedSession,
                     loginOnChallengeReceived, signing, read, reported>>
  BY DEF SendMessage
<1>2. ClientTypes /\ websocket \in Own /\ ChatMessage \in Mail
  BY <1>1 DEF ClientInv, ClientTypes, Mail
<1>3. outbox' \in [Own -> Seq(Mail)]
  BY <1>1, <1>2, SentType
<1>4. room' \in RoomStates
  <2> DEFINE more == room.pending + 1
  <2>1. room \in RoomStates /\ room.pending \in Nat
    BY <1>2 DEF ClientTypes, RoomStates
  <2>2. more \in Nat /\ room' = [room EXCEPT !.pending = more]
    BY <1>1, <2>1
  <2> HIDE DEF more
  <2> QED BY <2>1, <2>2 DEF RoomStates
<1>5. acts' \in Nat
  BY <1>1, <1>2 DEF ClientTypes
<1>6. ClientTypes'
  BY <1>1, <1>2, <1>3, <1>4, <1>5 DEF ClientTypes
<1> QED BY <1>1, <1>6, NotRewired DEF Pends

LEMMA OnClosedFits ==
    ASSUME ClientInv, NEW s \in Own, OnClosed(s)
    PROVE  /\ ClientTypes' /\ Rewired /\ reported' = reported /\ known' = known
           /\ room' = Connecting(room.address)
<1>1. /\ ready' = [ready EXCEPT ![s] = "closed"] /\ read' = [read EXCEPT ![s] = 0]
      /\ room' = Connecting(room.address)
      /\ UNCHANGED <<registration, known, acts, websocket, savedSession,
                     loginOnChallengeReceived, signing, outbox, reported>>
  BY DEF OnClosed
<1>2. ClientTypes /\ room.address \in Users \cup {NoUser}
  BY DEF ClientInv, ClientTypes, RoomStates
<1>3. room' \in RoomStates
  BY <1>1, <1>2 DEF Connecting, NoUsers, RoomStates
<1>4. /\ ready' \in [Own -> {"none", "connecting", "open", "closing", "closed"}]
      /\ read' \in [Own -> Nat]
  BY <1>1, <1>2 DEF ClientTypes
<1>5. ClientTypes'
  BY <1>1, <1>2, <1>3, <1>4 DEF ClientTypes
<1>6. Rewired
  BY <1>1, <1>2 DEF ClientTypes, ClientInv, WiresFit, Rewired
<1> QED BY <1>1, <1>5, <1>6

\* The room when the connection opens: nobody, nothing pending.
LEMMA OnOpenedFits ==
    ASSUME ClientInv, NEW s \in Own, OnOpened(s)
    PROVE  /\ ClientTypes' /\ known' = known
           /\ ready[s] = "connecting" /\ ready' = [ready EXCEPT ![s] = "open"]
           /\ websocket' = websocket /\ read' = read /\ reported' = FALSE
           /\ room'.step = "Connected" /\ room'.users = NoUsers /\ room'.pending = 0
           /\ room'.status \in {"NoAccount", "LoggedOut"}
           /\ StatusFits(room', known)
<1> DEFINE r == [Connecting(room.address) EXCEPT
                   !.step = "Connected",
                   !.status = IF room.address = NoUser THEN "NoAccount" ELSE "LoggedOut"]
<1>1. /\ ready[s] = "connecting" /\ ready' = [ready EXCEPT ![s] = "open"]
      /\ reported' = FALSE
      /\ IF room.address = NoUser
           THEN room' = r /\ UNCHANGED <<signing, loginOnChallengeReceived>>
           ELSE AutoLogin(r, known, loginOnChallengeReceived)
      /\ UNCHANGED <<registration, known, acts, websocket, savedSession, outbox, read>>
  BY DEF OnOpened
<1>2. /\ ClientTypes /\ room.address \in Users \cup {NoUser}
      /\ known \in Users \cup {NoUser} /\ loginOnChallengeReceived \in BOOLEAN
      /\ signing \in SUBSET LoginMail
      /\ ready \in [Own -> {"none", "connecting", "open", "closing", "closed"}]
  BY DEF ClientInv, ClientTypes, RoomStates
<1>3. /\ r \in RoomStates /\ r.step = "Connected" /\ r.users = NoUsers /\ r.pending = 0
      /\ r.address = room.address /\ r.session = NoSocket
      /\ r.status = IF room.address = NoUser THEN "NoAccount" ELSE "LoggedOut"
  BY <1>2 DEF Connecting, NoUsers, RoomStates
<1> HIDE DEF r
<1>4. /\ room' = r \/ OutOf(r, room')
      /\ signing' \in SUBSET LoginMail
      /\ loginOnChallengeReceived' \in BOOLEAN
  BY <1>1, <1>2, <1>3, AutoLoginFits
<1>5. /\ room' \in RoomStates /\ room'.step = "Connected"
      /\ room'.users = NoUsers /\ room'.pending = 0
      /\ room'.status \in {"NoAccount", "LoggedOut"}
  BY <1>3, <1>4 DEF OutOf
<1>6. StatusFits(room', known)
  BY <1>3, <1>4, NoUserAssumption DEF OutOf, StatusFits
<1>7. ready' \in [Own -> {"none", "connecting", "open", "closing", "closed"}]
  BY <1>1, <1>2
<1>8. ClientTypes'
  BY <1>1, <1>2, <1>4, <1>5, <1>7 DEF ClientTypes
<1> QED BY <1>1, <1>5, <1>6, <1>8

-----------------------------------------------------------------------------
(* The messages that the client receives. *)

\* The connections that are in who as u.
Bearers(who, u) == {r \in Sockets : Who(r, u) \in who}

LEMMA EntriesCount ==
    ASSUME NEW who \in SUBSET [id : Sockets, user : Users], NEW u \in Users
    PROVE  /\ IsFiniteSet(Bearers(who, u))
           /\ Entries(who, u) = Cardinality(Bearers(who, u)) /\ Entries(who, u) \in Nat
<1> DEFINE B == Bearers(who, u)
           E == {p \in who : p.user = u}
           f == [r \in B |-> Who(r, u)]
<1>1. IsFiniteSet(B)
  <2>1. B \in SUBSET Sockets
    BY DEF Bearers
  <2> QED BY <2>1, OwnAssumption, FS_Subset
<1>2. f \in [B -> E]
  BY DEF Bearers, Who
<1>3. \A r, q \in B : f[r] = f[q] => r = q
  BY DEF Who
<1>4. \A p \in E : \E r \in B : f[r] = p
  <2>1. ASSUME NEW p \in E PROVE p.id \in B /\ f[p.id] = p
    <3>1. p.id \in Sockets /\ Who(p.id, u) = p
      BY <2>1 DEF Who
    <3> QED BY <2>1, <3>1 DEF Bearers
  <2> QED BY <2>1
<1>5. ExistsBijection(B, E)
  <2>1. f \in Bijection(B, E)
    BY <1>2, <1>3, <1>4, Fun_IsBij
  <2> HIDE DEF B, E, f
  <2> QED BY <2>1, Fun_ExistsBij
<1>6. Cardinality(E) = Cardinality(B) /\ Cardinality(B) \in Nat
  BY <1>1, <1>5, FS_Bijection, FS_CardinalityType
<1> QED BY <1>1, <1>6 DEF Entries

\* The parts of the room that frames of other clients do not touch.
Handles == /\ savedSession' \in Own \cup {NoSocket}
           /\ loginOnChallengeReceived' \in BOOLEAN
           /\ signing' \in SUBSET LoginMail
           /\ reported' \in BOOLEAN
           /\ room' \in RoomStates /\ room'.step = room.step
           /\ StatusFits(room', known)

\* The status after f is LoggedIn by the session s only if it was, and f does not
\* say that s has left, or if f says that s has joined.
LoginHeard(f, s) ==
    room'.status = "LoggedIn" /\ room'.session = s =>
      \/ /\ room.status = "LoggedIn" /\ room.session = s /\ room'.address = room.address
         /\ ~(f.type = "quit" /\ Who(s, room.address) \in f.who)
      \/ f.type = "joined" /\ Who(s, room'.address) \in f.who

\* What f makes of n entries for u.
Counted(f, u, n) ==
    IF f.type = "joined" THEN n + Entries(f.who, u)
    ELSE IF f.type = "quit" THEN Maximum(0, n - Entries(f.who, u))
    ELSE n

UsersHeard(f) ==
    ~reported' => /\ ~reported
                  /\ \A u \in Users : room'.users[u] = Counted(f, u, room.users[u])

LEMMA ChallengeFits ==
    ASSUME ClientInv, NEW s \in Own, NEW f, f.type = "challenge",
           room.step = "Connected", OnChallenge(s)
    PROVE  Handles /\ LoginHeard(f, s) /\ UsersHeard(f)
<1>1. ClientTypes /\ StatusFits(room, known) /\ room \in RoomStates
  BY DEF ClientInv, ClientTypes
<1>2. savedSession' = s /\ reported' = reported
  BY DEF OnChallenge
<1>3. CASE /\ room.status = "LoggedOut" /\ loginOnChallengeReceived' = FALSE
           /\ known # NoUser
           /\ room' = LoggedOut(room, known, s)
           /\ signing' = signing \cup {LoginMessage(known, s)}
  <2>1. known \in Users
    BY <1>1, <1>3 DEF ClientTypes
  <2>2. OutOf(room, room')
    BY <1>1, <1>3, <2>1, LoggedOutIs
  <2>3. LoginMessage(known, s) \in LoginMail
    BY <2>1 DEF LoginMessage, LoginMail
  <2>4. Handles
    BY <1>1, <1>2, <1>3, <2>2, <2>3, NoUserAssumption
       DEF ClientTypes, Handles, OutOf, StatusFits
  <2> QED BY <1>2, <2>2, <2>4 DEF OutOf, LoginHeard, UsersHeard, Counted
<1>4. CASE /\ room.status = "LoggedOut" /\ loginOnChallengeReceived' = FALSE
           /\ room' = [room EXCEPT !.session = s] /\ signing' = signing
  <2>1. /\ room' \in RoomStates /\ room'.step = room.step /\ room'.users = room.users
        /\ room'.status = "LoggedOut" /\ room'.address = room.address
    BY <1>1, <1>4 DEF RoomStates
  <2>2. StatusFits(room', known)
    BY <1>1, <1>4, <2>1 DEF StatusFits
  <2>3. /\ savedSession' \in Own \cup {NoSocket} /\ loginOnChallengeReceived' \in BOOLEAN
        /\ signing' \in SUBSET LoginMail /\ reported' \in BOOLEAN
    BY <1>1, <1>2, <1>4 DEF ClientTypes
  <2>4. Handles
    BY <2>1, <2>2, <2>3 DEF Handles
  <2> QED BY <1>2, <2>1, <2>4 DEF LoginHeard, UsersHeard, Counted
<1>5. CASE UNCHANGED <<room, signing, loginOnChallengeReceived>>
  BY <1>1, <1>2, <1>5 DEF ClientTypes, Handles, LoginHeard, UsersHeard, Counted
<1> QED BY <1>3, <1>4, <1>5 DEF OnChallenge

LEMMA ChatFits ==
    ASSUME ClientInv, NEW s \in Own, NEW f, f.type = "chat", OnChat
    PROVE  Handles /\ LoginHeard(f, s) /\ UsersHeard(f)
<1>1. ClientTypes /\ StatusFits(room, known) /\ room \in RoomStates
  BY DEF ClientInv, ClientTypes
<1>2. /\ room' = [room EXCEPT !.pending = 0]
      /\ UNCHANGED <<savedSession, loginOnChallengeReceived, signing, reported>>
  BY DEF OnChat
<1>3. /\ room' \in RoomStates /\ room'.step = room.step /\ room'.users = room.users
      /\ room'.status = room.status /\ room'.address = room.address
      /\ room'.session = room.session
  BY <1>1, <1>2 DEF RoomStates
<1>4. StatusFits(room', known)
  BY <1>1, <1>3 DEF StatusFits
<1>5. Handles
  <2>1. /\ savedSession' \in Own \cup {NoSocket} /\ loginOnChallengeReceived' \in BOOLEAN
        /\ signing' \in SUBSET LoginMail /\ reported' \in BOOLEAN
    BY <1>1, <1>2 DEF ClientTypes
  <2> QED BY <1>3, <1>4, <2>1 DEF Handles
<1>6. LoginHeard(f, s) /\ UsersHeard(f)
  BY <1>2, <1>3 DEF LoginHeard, UsersHeard, Counted
<1> QED BY <1>5, <1>6

\* The entries of a frame that names users.
LEMMA AddedRemoved ==
    ASSUME ClientTypes, NEW who \in SUBSET [id : Sockets, user : Users]
    PROVE  Added(who) \in [Users -> Nat] /\ Removed(who) \in [Users -> Nat]
<1>1. room.users \in [Users -> Nat]
  BY DEF ClientTypes, RoomStates
<1>2. ASSUME NEW u \in Users
      PROVE  /\ room.users[u] + Entries(who, u) \in Nat
             /\ Maximum(0, room.users[u] - Entries(who, u)) \in Nat
  <2> DEFINE n == room.users[u]
             m == Entries(who, u)
  <2>1. n \in Nat /\ m \in Nat
    BY <1>1, EntriesCount
  <2> HIDE DEF n, m
  <2>2. n + m \in Nat /\ Maximum(0, n - m) \in Nat
    BY <2>1 DEF Maximum
  <2> QED BY <2>2 DEF n, m
<1> QED BY <1>2 DEF Added, Removed

\* The client finds itself in who only as the account it knows, on the session
\* of a connection of its own.
LEMMA OwnPresence ==
    ASSUME ClientInv, NEW who \in SUBSET [id : Sockets, user : Users], IsOwn(who)
    PROVE  /\ known \in Users /\ room.session \in Own
           /\ Who(room.session, known) \in who
           /\ room.status # "NoAccount"
<1>1. PICK p \in who : p.user = known /\ p.id = room.session
  BY DEF IsOwn
<1>2. p.id \in Sockets /\ p.user \in Users /\ p = Who(p.id, p.user)
  BY DEF Who
<1>3. /\ room.session \in Own \cup {NoSocket, Undefined}
      /\ room.status = "NoAccount" => room.session = NoSocket
  BY DEF ClientInv, ClientTypes, RoomStates, StatusFits
<1> QED BY <1>1, <1>2, <1>3, FieldAssumption

LEMMA JoinedFits ==
    ASSUME ClientInv, NEW s \in Own, NEW f, f.type = "joined",
           f.who \in SUBSET [id : Sockets, user : Users],
           room.step = "Connected", OnJoined(f.who)
    PROVE  Handles /\ LoginHeard(f, s) /\ UsersHeard(f)
<1> DEFINE add == Added(f.who)
<1>1. ClientTypes /\ StatusFits(room, known) /\ room \in RoomStates
  BY DEF ClientInv, ClientTypes
<1>2. /\ room' = IF IsOwn(f.who)
                   THEN [room EXCEPT !.status = "LoggedIn", !.address = known, !.users = add]
                   ELSE [room EXCEPT !.users = add]
      /\ UNCHANGED <<savedSession, loginOnChallengeReceived, signing, reported>>
  BY DEF OnJoined
<1>3. add \in [Users -> Nat] /\ \A u \in Users : add[u] = room.users[u] + Entries(f.who, u)
  BY <1>1, AddedRemoved DEF Added
<1> HIDE DEF add
<1>4. /\ savedSession' \in Own \cup {NoSocket} /\ loginOnChallengeReceived' \in BOOLEAN
      /\ signing' \in SUBSET LoginMail /\ reported' \in BOOLEAN
  BY <1>1, <1>2 DEF ClientTypes
<1>5. CASE IsOwn(f.who)
  <2>1. /\ known \in Users /\ room.session \in Own
        /\ Who(room.session, known) \in f.who
    BY <1>5, OwnPresence
  <2>2. /\ room' \in RoomStates /\ room'.step = room.step /\ room'.users = add
        /\ room'.status = "LoggedIn" /\ room'.address = known
        /\ room'.session = room.session
    BY <1>1, <1>2, <1>3, <1>5, <2>1 DEF RoomStates
  <2>3. StatusFits(room', known)
    BY <2>1, <2>2, NoUserAssumption DEF StatusFits
  <2>4. Handles
    BY <1>4, <2>2, <2>3 DEF Handles
  <2>5. LoginHeard(f, s)
    BY <2>1, <2>2 DEF LoginHeard
  <2> QED BY <1>2, <1>3, <2>2, <2>4, <2>5 DEF UsersHeard, Counted
<1>6. CASE ~IsOwn(f.who)
  <2>1. /\ room' \in RoomStates /\ room'.step = room.step /\ room'.users = add
        /\ room'.status = room.status /\ room'.address = room.address
        /\ room'.session = room.session
    BY <1>1, <1>2, <1>3, <1>6 DEF RoomStates
  <2>2. StatusFits(room', known)
    BY <1>1, <2>1 DEF StatusFits
  <2>3. Handles
    BY <1>4, <2>1, <2>2 DEF Handles
  <2>4. LoginHeard(f, s)
    BY <2>1 DEF LoginHeard
  <2> QED BY <1>2, <1>3, <2>1, <2>3, <2>4 DEF UsersHeard, Counted
<1> QED BY <1>5, <1>6

LEMMA QuitFits ==
    ASSUME ClientInv, NEW s \in Own, NEW f, f.type = "quit",
           f.who \in SUBSET [id : Sockets, user : Users],
           room.step = "Connected", OnQuit(f.who)
    PROVE  Handles /\ LoginHeard(f, s) /\ UsersHeard(f)
<1> DEFINE left == Removed(f.who)
<1>1. ClientTypes /\ StatusFits(room, known) /\ room \in RoomStates
  BY DEF ClientInv, ClientTypes
<1>2. left \in [Users -> Nat]
      /\ \A u \in Users : left[u] = Maximum(0, room.users[u] - Entries(f.who, u))
  BY <1>1, AddedRemoved DEF Removed
<1>3. UNCHANGED <<savedSession, loginOnChallengeReceived, signing>>
  BY DEF OnQuit
<1>4. /\ savedSession' \in Own \cup {NoSocket} /\ loginOnChallengeReceived' \in BOOLEAN
      /\ signing' \in SUBSET LoginMail
  BY <1>1, <1>3 DEF ClientTypes
<1>5. CASE IsOwn(f.who) /\ room.status # "LoggedIn"
  <2>1. room' = room /\ reported' = TRUE
    BY <1>5 DEF OnQuit
  <2>2. Handles
    BY <1>1, <1>4, <2>1 DEF Handles
  <2> QED BY <1>5, <2>1, <2>2 DEF LoginHeard, UsersHeard
<1>6. CASE IsOwn(f.who) /\ room.status = "LoggedIn"
  <2>1. /\ room' = [room EXCEPT !.status = "LoggedOut", !.users = left,
                                !.session = savedSession]
        /\ reported' = reported
    BY <1>1, <1>6 DEF OnQuit, ClientTypes
  <2> HIDE DEF left
  <2>2. /\ room' \in RoomStates /\ room'.step = room.step /\ room'.users = left
        /\ room'.status = "LoggedOut" /\ room'.address = room.address
    BY <1>1, <1>2, <2>1 DEF RoomStates, ClientTypes
  <2>3. StatusFits(room', known)
    BY <1>1, <1>6, <2>2 DEF StatusFits
  <2>4. Handles
    BY <1>1, <1>4, <2>1, <2>2, <2>3 DEF Handles, ClientTypes
  <2> QED BY <1>2, <2>1, <2>2, <2>4 DEF LoginHeard, UsersHeard, Counted
<1>7. CASE ~IsOwn(f.who)
  <2>1. room' = [room EXCEPT !.users = left] /\ reported' = reported
    BY <1>1, <1>7 DEF OnQuit, ClientTypes
  <2> HIDE DEF left
  <2>2. /\ room' \in RoomStates /\ room'.step = room.step /\ room'.users = left
        /\ room'.status = room.status /\ room'.address = room.address
        /\ room'.session = room.session
    BY <1>1, <1>2, <2>1 DEF RoomStates
  <2>3. StatusFits(room', known)
    BY <1>1, <2>2 DEF StatusFits
  <2>4. Handles
    BY <1>1, <1>4, <2>1, <2>2, <2>3 DEF Handles, ClientTypes
  <2>5. room.status = "LoggedIn" /\ room.session = s => Who(s, room.address) \notin f.who
    <3>1. ASSUME room.status = "LoggedIn", room.session = s, Who(s, room.address) \in f.who
          PROVE  IsOwn(f.who)
      <4>1. room.address = known /\ room.session # NoSocket
        BY <1>1, <3>1, FieldAssumption, OwnAssumption DEF StatusFits
      <4>2. Who(s, room.address).user = known /\ Who(s, room.address).id = room.session
        BY <3>1, <4>1 DEF Who
      <4> QED BY <3>1, <4>1, <4>2 DEF IsOwn, SessionField
    <3> QED BY <1>7, <3>1
  <2> QED BY <1>2, <2>1, <2>2, <2>4, <2>5 DEF LoginHeard, UsersHeard, Counted
<1> QED BY <1>5, <1>6, <1>7

\* What has reached the client on s.
Received(s) == SubSeq(sent[s], 1, read[s])

LEMMA MessageFits ==
    ASSUME ServerInv, ClientInv, NEW s \in Own, OnMessage(s)
    PROVE  LET f == sent[s][read[s] + 1]
           IN  /\ s \in Sockets /\ read[s] < Len(sent[s]) /\ read[s] + 1 \in DOMAIN sent[s]
               /\ ready[s] = "open" /\ read' = [read EXCEPT ![s] = @ + 1]
               /\ UNCHANGED <<registration, known, acts, websocket, ready, outbox>>
               /\ f \in Frame /\ Named(f)
               /\ Handles /\ LoginHeard(f, s) /\ UsersHeard(f)
<1> DEFINE k == read[s] + 1
           f == sent[s][k]
<1>1. /\ ready[s] = "open" /\ read[s] < Len(sent[s])
      /\ read' = [read EXCEPT ![s] = @ + 1]
      /\ UNCHANGED <<registration, known, acts, websocket, ready, outbox>>
      /\ IF \/ room.step # "Connected"
            \/ f.type \in {"joined", "quit"} /\ room.session = Undefined /\ SameAddress(f.who)
           THEN /\ reported' = TRUE
                /\ UNCHANGED <<room, savedSession, loginOnChallengeReceived, signing>>
           ELSE \/ f.type = "challenge" /\ OnChallenge(s)
                \/ f.type = "chat" /\ OnChat
                \/ f.type = "joined" /\ OnJoined(f.who)
                \/ f.type = "quit" /\ OnQuit(f.who)
  BY DEF OnMessage
<1>2. s \in Sockets /\ read[s] \in Nat /\ sent[s] \in Seq(Frame) /\ StreamFits(sent[s])
  BY OwnAssumption
     DEF ClientInv, ClientTypes, ServerInv, RoomInv, TypeOK, StreamsFit
<1>3. k \in DOMAIN sent[s]
  <2>1. Len(sent[s]) \in Nat /\ DOMAIN sent[s] = 1..Len(sent[s])
    BY <1>2
  <2> QED BY <1>1, <1>2, <2>1
<1>4. f \in Frame /\ Named(f)
  BY <1>2, <1>3, ElementOfSeq DEF StreamFits
<1> HIDE DEF f, k
<1>5. f.type \in {"joined", "quit"} => f.who \in SUBSET [id : Sockets, user : Users]
  BY <1>4 DEF Named
<1>6. Handles /\ LoginHeard(f, s) /\ UsersHeard(f)
  <2>1. CASE reported' = TRUE /\ UNCHANGED <<room, savedSession, loginOnChallengeReceived, signing>>
             /\ (room.step # "Connected" \/ room.session = Undefined)
    <3>1. ClientTypes /\ StatusFits(room, known) /\ room \in RoomStates
      BY DEF ClientInv, ClientTypes
    <3>2. Handles
      BY <2>1, <3>1 DEF ClientTypes, Handles
    <3>3. room.status # "LoggedIn"
      BY <2>1, <3>1, FieldAssumption, OwnAssumption DEF StatusFits, RoomStates
    <3> QED BY <2>1, <3>2, <3>3 DEF LoginHeard, UsersHeard
  <2>2. CASE room.step = "Connected" /\ f.type = "challenge" /\ OnChallenge(s)
    BY <2>2, ChallengeFits
  <2>3. CASE room.step = "Connected" /\ f.type = "chat" /\ OnChat
    BY <2>3, ChatFits
  <2>4. CASE room.step = "Connected" /\ f.type = "joined" /\ OnJoined(f.who)
    BY <1>5, <2>4, JoinedFits
  <2>5. CASE room.step = "Connected" /\ f.type = "quit" /\ OnQuit(f.who)
    BY <1>5, <2>5, QuitFits
  <2> QED BY <1>1, <2>1, <2>2, <2>3, <2>4, <2>5
<1> QED BY <1>1, <1>2, <1>3, <1>4, <1>6 DEF f, k

\* What the client receives with the next frame.
LEMMA NextFrame ==
    ASSUME NEW a \in Seq(Frame), NEW k \in Nat, k < Len(a)
    PROVE  SubSeq(a, 1, k + 1) = SubSeq(a, 1, k) \o <<a[k + 1]>>
<1> DEFINE s == SubSeq(a, 1, k)
           t == SubSeq(a, 1, k + 1)
           b == <<a[k + 1]>>
           c == s \o b
<1>1. /\ Len(a) \in Nat /\ k \in 0..Len(a) /\ k + 1 \in 0..Len(a) /\ k + 1 \in 1..Len(a)
      /\ DOMAIN a = 1..Len(a)
  OBVIOUS
<1>2. s \in Seq(Frame) /\ Len(s) = k /\ \A j \in 1..k : s[j] = a[j]
  BY <1>1, PrefixOf
<1>3. t \in Seq(Frame) /\ Len(t) = k + 1 /\ \A j \in 1..(k + 1) : t[j] = a[j]
  BY <1>1, PrefixOf
<1>4. b \in Seq(Frame) /\ Len(b) = 1 /\ b[1] = a[k + 1]
  <2>1. a[k + 1] \in Frame
    BY <1>1, ElementOfSeq
  <2> QED BY <2>1
<1> HIDE DEF s, t, b
<1>5. /\ c \in Seq(Frame) /\ DOMAIN c = 1..(k + 1)
      /\ \A j \in 1..k : c[j] = s[j]
      /\ c[k + 1] = b[1]
  <2>1. /\ c \in Seq(Frame) /\ DOMAIN c = 1..(Len(s) + Len(b))
        /\ \A j \in 1..Len(s) : c[j] = s[j]
        /\ \A j \in 1..Len(b) : c[Len(s) + j] = b[j]
    <3>1. s \in Seq(Frame) /\ b \in Seq(Frame)
      BY <1>2, <1>4
    <3> QED BY <3>1, Concat
  <2> QED BY <1>2, <1>4, <2>1
<1> HIDE DEF c
<1>6. Len(c) = k + 1
  BY <1>5, LenProperties
<1>7. \A j \in 1..(k + 1) : c[j] = t[j]
  <2>1. \A j \in 1..(k + 1) : j \in 1..k \/ j = k + 1
    OBVIOUS
  <2> QED BY <1>2, <1>3, <1>4, <1>5, <2>1
<1>8. c = t
  BY <1>3, <1>5, <1>6, <1>7, SeqEqual
<1> QED BY <1>8 DEF c, t, s, b

-----------------------------------------------------------------------------
(* The steps of the client and its room together. *)

\* What is refused once counts as refused.
LEMMA RefusedStays ==
    ASSUME [SystemNext]_systemVars
    PROVE  refused \subseteq refused'
<1>1. UNCHANGED systemVars \/ ClientActs => refused' = refused
  BY DEF systemVars, ClientActs
<1>2. \A s : Opens(s) \/ Breaks(s) \/ ServerCloses(s) \/ ClientCloses(s) \/ PeerActs(s)
           => refused' = refused
  BY DEF Opens, Breaks, ServerCloses, ClientCloses, PeerActs
<1>3. \A s : ServerReceives(s) => refused \subseteq refused'
  BY DEF ServerReceives, Handle, Refuse
<1>4. \A t : LoginEnds(t) => refused' = refused
  BY DEF LoginEnds
<1> QED BY <1>1, <1>2, <1>3, <1>4 DEF SystemNext

\* Nothing happens to the room that the client shows but a logout, or that it
\* is cleared.
Calm == ClientTypes' /\ Mild(room', known') /\ Rewired /\ reported' = reported

LEMMA OutboxFits ==
    ASSUME ClientInv, outbox' \in [Own -> Seq(Mail)],
           UNCHANGED <<registration, known, acts, websocket, ready, room, savedSession,
                       loginOnChallengeReceived, signing, read, reported>>
    PROVE  Calm
<1>1. ClientTypes'
  BY DEF ClientInv, ClientTypes
<1>2. Mild(room', known')
  BY DEF Mild
<1> QED BY <1>1, <1>2, NotRewired DEF Calm

LEMMA HeadOfMail ==
    ASSUME ClientInv, NEW s \in Own, outbox[s] # <<>>
    PROVE  /\ Head(outbox[s]) \in Mail
           /\ Tail(outbox[s]) \in Seq(Mail)
           /\ Head(outbox[s]).type = "login" =>
                Head(outbox[s]).user \in Users /\ Head(outbox[s]).challenge \in Own
<1>1. outbox[s] \in Seq(Mail)
  BY DEF ClientInv, ClientTypes
<1>2. Head(outbox[s]) \in Mail /\ Tail(outbox[s]) \in Seq(Mail)
  BY <1>1, HeadTailProperties
<1>3. \A m \in Mail : m.type = "login" => m.user \in Users /\ m.challenge \in Own
  BY DEF Mail, LoginMail, LogoutMessage, ChatMessage
<1> QED BY <1>2, <1>3

LEMMA ServerReceivesFits ==
    ASSUME ClientInv, NEW s \in Own, ServerReceives(s)
    PROVE  Calm /\ [Next]_vars
<1> DEFINE m == Head(outbox[s])
<1>1. /\ outbox[s] # <<>> /\ outbox' = [outbox EXCEPT ![s] = Tail(@)]
      /\ UNCHANGED <<registration, known, acts, websocket, ready, room, savedSession,
                     loginOnChallengeReceived, signing, read, reported>>
      /\ \/ m.type = "login" /\ RequestLogin(s, m.user)
         \/ Logout(s)
         \/ \E now \in Clock : SendChat(s, now)
         \/ UNCHANGED vars
  BY DEF ServerReceives, Handle, Refuse
<1>2. Tail(outbox[s]) \in Seq(Mail) /\ (m.type = "login" => m.user \in Users)
  BY <1>1, HeadOfMail
<1> HIDE DEF m
<1>3. outbox' \in [Own -> Seq(Mail)]
  BY <1>1, <1>2 DEF ClientInv, ClientTypes
<1>4. s \in Sockets
  BY OwnAssumption
<1> QED BY <1>1, <1>2, <1>3, <1>4, OutboxFits DEF Next

LEMMA ServerClosesFits ==
    ASSUME ClientInv, NEW s \in Own, ServerCloses(s)
    PROVE  Calm /\ [Next]_vars
<1> DEFINE none == <<>>
<1>1. /\ CloseEvent(s) /\ outbox' = [outbox EXCEPT ![s] = none]
      /\ UNCHANGED <<registration, known, acts, websocket, ready, room, savedSession,
                     loginOnChallengeReceived, signing, read, reported>>
  BY DEF ServerCloses
<1>2. none \in Seq(Mail)
  BY EmptySeq
<1> HIDE DEF none
<1>3. outbox' \in [Own -> Seq(Mail)]
  BY <1>1, <1>2 DEF ClientInv, ClientTypes
<1>4. s \in Sockets
  BY OwnAssumption
<1> QED BY <1>1, <1>3, <1>4, OutboxFits DEF Next

\* The client stands still.
LEMMA StandsStill ==
    ASSUME ClientInv, UNCHANGED clientVars
    PROVE  Calm
<1>1. /\ outbox' = outbox
      /\ UNCHANGED <<registration, known, acts, websocket, ready, room, savedSession,
                     loginOnChallengeReceived, signing, read, reported>>
  BY DEF clientVars
<1>2. outbox' \in [Own -> Seq(Mail)]
  BY <1>1 DEF ClientInv, ClientTypes
<1> QED BY <1>1, <1>2, OutboxFits

LEMMA ClientActsFits ==
    ASSUME ClientInv, ClientActs
    PROVE  \/ Calm
           \/ ClientTypes' /\ Pends /\ Rewired /\ reported' = reported
<1>1. CASE Stop
  BY <1>1, StopFits DEF Calm
<1>2. ASSUME NEW s \in Own, Start(s) PROVE Calm
  BY <1>2, StartFits DEF Calm
<1>3. ASSUME NEW u \in Users \cup {NoUser}, ChangeRegistration(u) PROVE Calm
  BY <1>3, RegisterFits DEF Calm
<1>4. ASSUME NEW m \in signing, Signed(m) PROVE Calm
  BY <1>4, SignedFits DEF Calm
<1>5. CASE LogIn
  BY <1>5, LogInFits DEF Calm
<1>6. CASE SendMessage
  BY <1>6, SendMessageFits
<1> QED BY <1>1, <1>2, <1>3, <1>4, <1>5, <1>6 DEF ClientActs

\* Each step is a turn of the room, or none, and one of five things to the client.
LEMMA SystemTurns ==
    ASSUME ServerInv, ClientInv, [SystemNext]_systemVars
    PROVE  /\ [Next]_vars
           /\ \/ Calm
              \/ ClientTypes' /\ Pends /\ Rewired /\ reported' = reported
              \/ \E s \in Own : OnClosed(s)
              \/ \E s \in Own : OnOpened(s) /\ Open(s)
              \/ \E s \in Own : OnMessage(s) /\ UNCHANGED vars
<1>1. Own \subseteq Sockets
  BY OwnAssumption
<1>2. CASE ClientActs
  BY <1>2, ClientActsFits DEF ClientActs
<1>3. ASSUME NEW s \in Sockets, Opens(s)
      PROVE  /\ [Next]_vars
             /\ Calm \/ (s \in Own /\ OnOpened(s) /\ Open(s))
  BY <1>3, StandsStill DEF Opens, Next
<1>4. ASSUME NEW s \in Own, Breaks(s) PROVE [Next]_vars /\ Calm
  BY <1>1, <1>4, StandsStill DEF Breaks, Next
<1>5. ASSUME NEW s \in Own, ServerCloses(s) \/ ServerReceives(s)
      PROVE  [Next]_vars /\ Calm
  BY <1>5, ServerReceivesFits, ServerClosesFits
<1>6. ASSUME NEW s \in Own, ClientCloses(s) PROVE [Next]_vars /\ OnClosed(s)
  BY <1>6 DEF ClientCloses
<1>7. ASSUME NEW s \in Peers, PeerActs(s) PROVE [Next]_vars /\ Calm
  <2>1. s \in Sockets
    BY DEF Peers
  <2> QED BY <1>7, <2>1, StandsStill DEF PeerActs, Next
<1>8. ASSUME NEW t \in logins, LoginEnds(t) PROVE [Next]_vars /\ Calm
  BY <1>8, StandsStill DEF LoginEnds, Next
<1>9. CASE UNCHANGED systemVars
  <2>1. UNCHANGED vars /\ UNCHANGED clientVars
    BY <1>9 DEF systemVars
  <2> QED BY <2>1, StandsStill
<1> QED BY <1>2, <1>3, <1>4, <1>5, <1>6, <1>7, <1>8, <1>9 DEF SystemNext

LEMMA RewiredFits ==
    ASSUME ServerInv, ServerInv', ClientInv, Rewired, Grows
    PROVE  WiresFit'
<1> SUFFICES ASSUME NEW s \in Own
             PROVE  /\ ready'[s] \in {"connecting", "open"} => websocket' = s
                    /\ ready'[s] = "open" => conn'[s] # "new" /\ read'[s] <= Len(sent'[s])
                    /\ ready'[s] # "open" => read'[s] = 0
  BY DEF WiresFit
<1>1. s \in Sockets
  BY OwnAssumption
<1>2. ASSUME ready'[s] = "open"
      PROVE  conn'[s] # "new" /\ read'[s] <= Len(sent'[s])
  <2>1. ready[s] = "open" /\ read'[s] = read[s]
    BY <1>2 DEF Rewired
  <2>2. conn[s] # "new" /\ read[s] <= Len(sent[s]) /\ read[s] \in Nat
    BY <2>1 DEF ClientInv, ClientTypes, WiresFit
  <2>3. PICK more \in Seq(Frame) : sent'[s] = sent[s] \o more
    BY <1>1, <2>2 DEF Grows
  <2>4. sent[s] \in Seq(Frame)
    BY <1>1 DEF ServerInv, RoomInv, TypeOK
  <2>5. Len(sent'[s]) = Len(sent[s]) + Len(more) /\ Len(sent[s]) \in Nat /\ Len(more) \in Nat
    BY <2>3, <2>4, ConcatProperties
  <2>6. read[s] <= Len(sent'[s])
    BY <2>2, <2>5
  <2> QED BY <1>1, <2>1, <2>2, <2>6 DEF Grows
<1> QED BY <1>2 DEF Rewired

LEMMA ClientStep ==
    ASSUME Platform = "bun", ServerInv, ClientInv, [SystemNext]_systemVars
    PROVE  ServerInv' /\ ClientInv' /\ [Next]_vars
<1>1. [Next]_vars /\ ServerInv' /\ Grows
  BY SystemTurns, ServerStep, ServerGrows
<1>2. CASE Calm
  <2>1. known' \in Users \cup {NoUser}
    BY <1>2 DEF Calm, ClientTypes
  <2>2. StatusFits(room', known')
    BY <1>2, <2>1, MildFits DEF Calm
  <2> QED BY <1>1, <1>2, <2>2, RewiredFits DEF Calm, ClientInv
<1>3. CASE ClientTypes' /\ Pends /\ Rewired /\ reported' = reported
  <2>1. room \in RoomStates /\ StatusFits(room, known)
    BY DEF ClientInv, ClientTypes
  <2>2. /\ room'.step = room.step /\ room'.status = room.status
        /\ room'.address = room.address /\ room'.session = room.session
        /\ known' = known
    BY <1>3, <2>1 DEF Pends, RoomStates
  <2>3. StatusFits(room', known')
    BY <2>1, <2>2 DEF StatusFits
  <2> QED BY <1>1, <1>3, <2>3, RewiredFits DEF ClientInv
<1>4. ASSUME NEW s \in Own, OnClosed(s) PROVE ClientInv'
  <2>1. /\ ClientTypes' /\ Rewired /\ known' = known
        /\ room' = Connecting(room.address)
    BY <1>4, OnClosedFits
  <2>2. StatusFits(room', known')
    BY <2>1 DEF Connecting, StatusFits
  <2> QED BY <1>1, <2>1, <2>2, RewiredFits DEF ClientInv
<1>5. ASSUME NEW s \in Own, OnOpened(s), Open(s) PROVE ClientInv'
  <2>1. /\ ClientTypes' /\ known' = known
        /\ ready[s] = "connecting" /\ ready' = [ready EXCEPT ![s] = "open"]
        /\ websocket' = websocket /\ read' = read
        /\ StatusFits(room', known)
    BY <1>5, OnOpenedFits
  <2>2. /\ ClientTypes /\ WiresFit /\ s \in Sockets
        /\ sent' \in [Sockets -> Seq(Frame)]
    BY <1>1, OwnAssumption DEF ClientInv, ServerInv, RoomInv, TypeOK
  <2>3. conn[s] = "new" /\ conn' = [conn EXCEPT ![s] = "open"]
    BY <1>5, OpenSays, <2>2 DEF ServerInv
  <2>4. conn \in [Sockets -> {"new", "open", "leaving", "closed"}]
    BY DEF ServerInv, RoomInv, TypeOK
  <2>5. read[s] = 0 /\ 0 <= Len(sent'[s])
    <3>1. Len(sent'[s]) \in Nat
      BY <2>2
    <3> QED BY <2>1, <2>2, <3>1 DEF WiresFit
  <2>6. \A r \in Own : r # s => ready[r] \notin {"connecting", "open"}
    BY <2>1, <2>2 DEF WiresFit
  <2>7. \A r \in Own : r # s => ready'[r] = ready[r] /\ read'[r] = 0
    BY <2>1, <2>2, <2>6 DEF WiresFit
  <2>8. WiresFit'
    <3> SUFFICES ASSUME NEW r \in Own
                 PROVE  /\ ready'[r] \in {"connecting", "open"} => websocket' = r
                        /\ ready'[r] = "open" => conn'[r] # "new" /\ read'[r] <= Len(sent'[r])
                        /\ ready'[r] # "open" => read'[r] = 0
      BY DEF WiresFit
    <3>1. CASE r = s
      BY <2>1, <2>2, <2>3, <2>4, <2>5, <3>1 DEF WiresFit, ClientTypes
    <3>2. CASE r # s
      BY <2>6, <2>7, <3>2
    <3> QED BY <3>1, <3>2
  <2> QED BY <2>1, <2>8 DEF ClientInv
<1>6. ASSUME NEW s \in Own, OnMessage(s), UNCHANGED vars PROVE ClientInv'
  <2>1. /\ read[s] < Len(sent[s]) /\ ready[s] = "open" /\ read' = [read EXCEPT ![s] = @ + 1]
        /\ UNCHANGED <<registration, known, acts, websocket, ready, outbox>>
        /\ Handles
    BY <1>6, MessageFits
  <2>2. ClientTypes /\ WiresFit /\ read \in [Own -> Nat] /\ s \in Sockets
        /\ sent' = sent /\ conn' = conn /\ sent[s] \in Seq(Frame)
    BY <1>6, OwnAssumption DEF ClientInv, ClientTypes, vars, ServerInv, RoomInv, TypeOK
  <2> DEFINE k == read[s] + 1
  <2>3. k \in Nat /\ k <= Len(sent[s]) /\ read' = [read EXCEPT ![s] = k]
    <3>1. read[s] \in Nat /\ Len(sent[s]) \in Nat
      BY <2>2
    <3> QED BY <2>1, <2>2, <3>1
  <2> HIDE DEF k
  <2>4. read' \in [Own -> Nat]
    BY <2>2, <2>3
  <2>5. ClientTypes'
    BY <2>1, <2>2, <2>4 DEF ClientTypes, Handles
  <2>6. WiresFit'
    BY <2>1, <2>2, <2>3 DEF WiresFit
  <2> QED BY <2>1, <2>5, <2>6 DEF ClientInv, Handles
<1> QED BY <1>1, <1>2, <1>3, <1>4, <1>5, <1>6, SystemTurns

LEMMA SystemStarts ==
    ASSUME SystemInit
    PROVE  ServerInv /\ ClientInv
<1>1. Init /\ ~gated /\ ClientInit
  BY DEF SystemInit
<1>2. RoomInv
  BY <1>1, TypeStarts, RosterStarts DEF RoomInv
<1>3. Connected = {} /\ Forgotten
  BY <1>1 DEF Init, Connected, Forgotten
<1>4. StreamsFit
  BY <1>1 DEF Init, StreamsFit, StreamFits, QuitsFit
<1>5. room \in RoomStates /\ StatusFits(room, known)
  BY <1>1 DEF ClientInit, Connecting, NoUsers, RoomStates, StatusFits
<1>6. outbox \in [Own -> Seq(Mail)] /\ signing \in SUBSET LoginMail
  BY <1>1, EmptySeq DEF ClientInit
<1>7. ClientTypes
  BY <1>1, <1>5, <1>6 DEF ClientInit, ClientTypes
<1>8. WiresFit
  BY <1>1 DEF ClientInit, WiresFit
<1> QED BY <1>2, <1>3, <1>4, <1>5, <1>7, <1>8 DEF ServerInv, ClientInv

\* Every variable of the client keeps its type.
THEOREM ClientTypeCorrect ==
    ASSUME Platform = "bun"
    PROVE  SystemSpec => []ClientTypeOK
<1>1. SystemInit => ServerInv /\ ClientInv
  BY SystemStarts
<1>2. ServerInv /\ ClientInv /\ [SystemNext]_systemVars => (ServerInv /\ ClientInv)'
  BY ClientStep
<1>3. ServerInv /\ ClientInv => ClientTypeOK
  <2> SUFFICES ASSUME ServerInv, ClientInv PROVE ClientTypeOK
    OBVIOUS
  <2>1. ASSUME NEW s \in Own PROVE read[s] \in 0..Len(sent[s])
    <3>1. s \in Sockets /\ read[s] \in Nat
      BY OwnAssumption DEF ClientInv, ClientTypes
    <3>2. sent[s] \in Seq(Frame) /\ Len(sent[s]) \in Nat
      BY <3>1 DEF ServerInv, RoomInv, TypeOK
    <3>3. read[s] <= Len(sent[s])
      BY <3>1, <3>2 DEF ClientInv, WiresFit
    <3> QED BY <3>1, <3>2, <3>3
  <2>2. /\ room.step \in {"Connecting", "Connected"}
        /\ room.status \in {"none", "NoAccount", "LoggedOut", "LoggedIn"}
        /\ room.address \in Users \cup {NoUser}
        /\ room.session \in Own \cup {NoSocket, Undefined}
        /\ room.users \in [Users -> Nat] /\ room.pending \in Nat
    BY DEF ClientInv, ClientTypes, RoomStates
  <2> QED BY <2>1, <2>2 DEF ClientInv, ClientTypes, ClientTypeOK, StatusFits
<1> QED BY <1>1, <1>2, <1>3, PTL DEF SystemSpec

-----------------------------------------------------------------------------
(* What the client shows of itself. *)

\* By what it has received, a client that shows itself logged in on the
\* session of its connection is.
LoginTold ==
    \A s \in Own :
      ready[s] = "open" /\ room.status = "LoggedIn" /\ room.session = s =>
        Announced(Received(s), Who(s, room.address))

\* A room that a step leaves as it is, or logs out, shows nothing new.
LEMMA ReceivedStays ==
    ASSUME ServerInv, ClientInv, Rewired, Grows,
           NEW s \in Own, ready'[s] = "open"
    PROVE  Received(s)' = Received(s) /\ ready[s] = "open"
<1>1. s \in Sockets
  BY OwnAssumption
<1>2. ready[s] = "open" /\ read'[s] = read[s]
  BY DEF Rewired
<1>3. /\ conn[s] # "new" /\ read[s] \in Nat /\ read[s] <= Len(sent[s])
  BY <1>2 DEF ClientInv, ClientTypes, WiresFit
<1>4. PICK more \in Seq(Frame) : sent'[s] = sent[s] \o more
  BY <1>1, <1>3 DEF Grows
<1>5. sent[s] \in Seq(Frame)
  BY <1>1 DEF ServerInv, RoomInv, TypeOK
<1>6. read[s] \in 0..Len(sent[s])
  <2>1. Len(sent[s]) \in Nat
    BY <1>5
  <2> QED BY <1>3, <2>1
<1>7. SubSeq(sent[s] \o more, 1, read[s]) = SubSeq(sent[s], 1, read[s])
  BY <1>5, <1>6, PrefixStays
<1> QED BY <1>2, <1>4, <1>7 DEF Received

LEMMA ReceivedNext ==
    ASSUME ServerInv, ClientInv, NEW s \in Own, OnMessage(s), UNCHANGED vars
    PROVE  /\ Received(s) \in Seq(Frame)
           /\ Received(s)' = Received(s) \o <<sent[s][read[s] + 1]>>
<1>1. /\ s \in Sockets /\ read[s] < Len(sent[s]) /\ read' = [read EXCEPT ![s] = @ + 1]
  BY MessageFits
<1>2. sent' = sent /\ sent[s] \in Seq(Frame) /\ read[s] \in Nat /\ read \in [Own -> Nat]
  BY <1>1 DEF vars, ServerInv, RoomInv, TypeOK, ClientInv, ClientTypes
<1>3. SubSeq(sent[s], 1, read[s] + 1) = SubSeq(sent[s], 1, read[s]) \o <<sent[s][read[s] + 1]>>
  BY <1>1, <1>2, NextFrame
<1>4. read'[s] = read[s] + 1
  BY <1>1, <1>2
<1>5. read[s] \in 0..Len(sent[s])
  <2>1. Len(sent[s]) \in Nat
    BY <1>2
  <2> QED BY <1>1, <1>2, <2>1
<1>6. Received(s) \in Seq(Frame)
  BY <1>2, <1>5, PrefixOf DEF Received
<1> QED BY <1>2, <1>3, <1>4, <1>6 DEF Received

LEMMA LoginToldStep ==
    ASSUME Platform = "bun", ServerInv, ClientInv, LoginTold, [SystemNext]_systemVars
    PROVE  LoginTold'
<1>1. [Next]_vars /\ ServerInv' /\ ClientInv' /\ Grows
  BY ClientStep, ServerGrows
<1> SUFFICES ASSUME NEW s \in Own, ready'[s] = "open", room'.status = "LoggedIn",
                    room'.session = s
             PROVE  Announced(Received(s)', Who(s, room'.address))
  BY DEF LoginTold
<1>2. room \in RoomStates
  BY DEF ClientInv, ClientTypes
<1>3. ASSUME Rewired, room.status = "LoggedIn", room.session = s,
             room'.address = room.address
      PROVE  Announced(Received(s)', Who(s, room'.address))
  BY <1>1, <1>3, ReceivedStays DEF LoginTold
<1>4. CASE Calm
  BY <1>3, <1>4 DEF Calm, Mild, Connecting, OutOf
<1>5. CASE Pends /\ Rewired
  BY <1>2, <1>3, <1>5 DEF Pends, RoomStates
<1>6. CASE \E r \in Own : OnClosed(r)
  <2>1. room' = Connecting(room.address)
    BY <1>6 DEF OnClosed
  <2> QED BY <2>1 DEF Connecting
<1>7. CASE \E r \in Own : OnOpened(r) /\ Open(r)
  BY <1>7, OnOpenedFits
<1>8. ASSUME NEW r \in Own, OnMessage(r), UNCHANGED vars
      PROVE  Announced(Received(s)', Who(s, room'.address))
  <2> DEFINE f == sent[r][read[r] + 1]
  <2>1. /\ ready[r] = "open" /\ ready' = ready /\ f \in Frame /\ LoginHeard(f, r)
    BY <1>8, MessageFits
  <2>2. r = s
    BY <2>1 DEF ClientInv, WiresFit
  <2>3. Received(s) \in Seq(Frame) /\ Received(s)' = Received(s) \o <<f>>
    BY <1>8, <2>2, ReceivedNext
  <2> HIDE DEF f
  <2>4. \/ /\ room.status = "LoggedIn" /\ room.session = s /\ room'.address = room.address
           /\ ~(f.type = "quit" /\ Who(s, room.address) \in f.who)
        \/ f.type = "joined" /\ Who(s, room'.address) \in f.who
    BY <2>1, <2>2 DEF LoginHeard
  <2>5. room.status = "LoggedIn" /\ room.session = s =>
          Announced(Received(s), Who(s, room.address))
    BY <2>1, <2>2 DEF LoginTold
  <2>6. Announced(Received(s) \o <<f>>, Who(s, room'.address)) <=>
          \/ f.type = "joined" /\ Who(s, room'.address) \in f.who
          \/ /\ Announced(Received(s), Who(s, room'.address))
             /\ ~(f.type = "quit" /\ Who(s, room'.address) \in f.who)
    BY <2>1, <2>3, FrameAdded
  <2> QED BY <2>3, <2>4, <2>5, <2>6
<1> QED BY <1>4, <1>5, <1>6, <1>7, <1>8, SystemTurns

LEMMA UpToDateFits ==
    ASSUME Platform = "bun", ServerInv, NEW s \in Own, UpToDate(s)
    PROVE  \A r \in Sockets, u \in Users :
             Announced(Received(s), Who(r, u)) <=> r \in sessions /\ session[r].address = u
<1>1. s \in Sockets /\ s \in Connected /\ read[s] = Len(sent[s]) /\ sent[s] \in Seq(Frame)
  BY OwnAssumption DEF UpToDate, Connected, ServerInv, RoomInv, TypeOK
<1>2. Received(s) = sent[s]
  BY <1>1, WholePrefix DEF Received
<1> QED BY <1>1, <1>2, RollCall

\* A client that has heard all, and shows itself logged in on the session of its
\* connection, is logged in there as the account it shows, and that is the
\* account that is registered: through changes of account, logouts, stops and
\* new connections.
THEOREM LoggedInWhereItSays ==
    ASSUME Platform = "bun"
    PROVE  SystemSpec => []LoggedInOnItsSession
<1> DEFINE Inv == ServerInv /\ ClientInv /\ LoginTold
<1>1. SystemInit => Inv
  <2> SUFFICES ASSUME SystemInit PROVE LoginTold
    BY SystemStarts
  <2> QED BY DEF SystemInit, ClientInit, LoginTold
<1>2. Inv /\ [SystemNext]_systemVars => Inv'
  BY ClientStep, LoginToldStep
<1>3. Inv => LoggedInOnItsSession
  <2> SUFFICES ASSUME Inv, NEW s \in Own, Quiet(s), room.status = "LoggedIn",
                      room.session = s
               PROVE  session[s].address = room.address /\ room.address = known
    BY DEF LoggedInOnItsSession
  <2>1. UpToDate(s) /\ ready[s] = "open"
    BY DEF Quiet, UpToDate
  <2>2. room.address \in Users /\ room.address = known
    BY DEF ClientInv, ClientTypes, RoomStates, StatusFits
  <2>3. s \in Sockets /\ Announced(Received(s), Who(s, room.address))
    BY <2>1, OwnAssumption DEF LoginTold
  <2> QED BY <2>1, <2>2, <2>3, UpToDateFits
<1> HIDE DEF Inv
<1> QED BY <1>1, <1>2, <1>3, PTL DEF SystemSpec

-----------------------------------------------------------------------------
(* The list of users. *)

\* Those of whom frames tell that they are there as u.
Present(frames, u) == {r \in Sockets : Announced(frames, Who(r, u))}

\* The list is what the client has received makes it, unless it has reported
\* an error.
UsersTold ==
    \A s \in Own :
      ready[s] = "open" /\ room.step = "Connected" /\ ~reported =>
        \A u \in Users : room.users[u] = Cardinality(Present(Received(s), u))

LEMMA PresentFinite ==
    \A frames, u : IsFiniteSet(Present(frames, u)) /\ Cardinality(Present(frames, u)) \in Nat
<1> SUFFICES ASSUME NEW frames, NEW u
             PROVE  IsFiniteSet(Present(frames, u)) /\ Cardinality(Present(frames, u)) \in Nat
  OBVIOUS
<1>1. Present(frames, u) \in SUBSET Sockets
  BY DEF Present
<1> HIDE DEF Present
<1>2. IsFiniteSet(Present(frames, u))
  BY <1>1, OwnAssumption, FS_Subset
<1> QED BY <1>2, FS_CardinalityType

\* Who is there after a frame more.
LEMMA PresentNext ==
    ASSUME NEW a \in Seq(Frame), NEW f \in Frame, NEW u \in Users
    PROVE  Present(a \o <<f>>, u) =
             IF f.type = "joined" THEN Present(a, u) \cup Bearers(f.who, u)
             ELSE IF f.type = "quit" THEN Present(a, u) \ Bearers(f.who, u)
             ELSE Present(a, u)
<1> DEFINE c == a \o <<f>>
           A == Present(a, u)
           B == Bearers(f.who, u)
           C == Present(c, u)
<1>1. \A r \in Sockets :
        Announced(c, Who(r, u)) <=>
          \/ f.type = "joined" /\ Who(r, u) \in f.who
          \/ Announced(a, Who(r, u)) /\ ~(f.type = "quit" /\ Who(r, u) \in f.who)
  BY FrameAdded
<1> HIDE DEF c
<1>2. \A r : r \in C <=>
        \/ f.type = "joined" /\ r \in B
        \/ r \in A /\ ~(f.type = "quit" /\ r \in B)
  BY <1>1 DEF Present, Bearers
<1> HIDE DEF A, B, C
<1>3. CASE f.type = "joined"
  <2>1. \A r : r \in C <=> r \in A \cup B
    BY <1>2, <1>3
  <2>2. C = A \cup B
    BY <2>1
  <2> QED BY <1>3, <2>2 DEF A, B, C, c
<1>4. CASE f.type = "quit"
  <2>1. \A r : r \in C <=> r \in A \ B
    BY <1>2, <1>4
  <2>2. C = A \ B
    BY <2>1
  <2> QED BY <1>4, <2>2 DEF A, B, C, c
<1>5. CASE f.type \notin {"joined", "quit"}
  <2>1. C = A
    BY <1>2, <1>5
  <2> QED BY <1>5, <2>1 DEF A, C, c
<1> QED BY <1>3, <1>4, <1>5

LEMMA DisjointCount ==
    ASSUME NEW A, NEW B, IsFiniteSet(A), IsFiniteSet(B), \A x \in B : x \notin A
    PROVE  Cardinality(A \cup B) = Cardinality(A) + Cardinality(B)
<1> DEFINE none == A \cap B
<1>1. none = {}
  OBVIOUS
<1>2. Cardinality(A \cup B) = Cardinality(A) + Cardinality(B) - Cardinality(none)
  BY FS_Union
<1> HIDE DEF none
<1>3. Cardinality(none) = 0
  BY <1>1, FS_EmptySet
<1>4. Cardinality(A) \in Nat /\ Cardinality(B) \in Nat
  BY FS_CardinalityType
<1> QED BY <1>2, <1>3, <1>4

LEMMA SubsetCount ==
    ASSUME NEW A, NEW B, IsFiniteSet(A), B \subseteq A
    PROVE  /\ Cardinality(A \ B) \in Nat /\ Cardinality(B) \in Nat
           /\ Cardinality(A) = Cardinality(A \ B) + Cardinality(B)
<1> DEFINE C == A \ B
<1>1. IsFiniteSet(B) /\ IsFiniteSet(C)
  <2>1. B \in SUBSET A /\ C \in SUBSET A
    OBVIOUS
  <2> HIDE DEF C
  <2> QED BY <2>1, FS_Subset
<1>2. C \cup B = A /\ \A x \in B : x \notin C
  OBVIOUS
<1> HIDE DEF C
<1>3. Cardinality(C \cup B) = Cardinality(C) + Cardinality(B)
  BY <1>1, <1>2, DisjointCount
<1>4. Cardinality(C) \in Nat /\ Cardinality(B) \in Nat
  BY <1>1, FS_CardinalityType
<1> QED BY <1>2, <1>3, <1>4 DEF C

\* A frame that announces only those who were not announced, and takes leave
\* only of those who were, changes the number of entries as the client counts.
LEMMA CountedFits ==
    ASSUME NEW a \in Seq(Frame), NEW f \in Frame, NEW u \in Users, Named(f),
           f.type = "joined" => \A p \in f.who : ~Announced(a, p),
           f.type = "quit" => \A p \in f.who : Announced(a, p)
    PROVE  Counted(f, u, Cardinality(Present(a, u))) = Cardinality(Present(a \o <<f>>, u))
<1> DEFINE A == Present(a, u)
           B == Bearers(f.who, u)
           C == Present(a \o <<f>>, u)
<1>1. IsFiniteSet(A) /\ Cardinality(A) \in Nat
  BY PresentFinite
<1>2. C = IF f.type = "joined" THEN A \cup B
          ELSE IF f.type = "quit" THEN A \ B
          ELSE A
  BY PresentNext
<1>3. f.type \in {"joined", "quit"} =>
        IsFiniteSet(B) /\ Entries(f.who, u) = Cardinality(B) /\ Cardinality(B) \in Nat
  <2>1. f.type \in {"joined", "quit"} => f.who \in SUBSET [id : Sockets, user : Users]
    BY DEF Named
  <2> QED BY <2>1, EntriesCount
<1>4. f.type = "joined" => \A r \in B : r \notin A
  BY DEF Present, Bearers
<1>5. f.type = "quit" => B \subseteq A
  BY DEF Present, Bearers
<1> HIDE DEF A, B, C
<1>6. CASE f.type = "joined"
  <2>1. Cardinality(A \cup B) = Cardinality(A) + Cardinality(B)
    BY <1>1, <1>3, <1>4, <1>6, DisjointCount
  <2> QED BY <1>2, <1>3, <1>6, <2>1 DEF A, C, Counted
<1>7. CASE f.type = "quit"
  <2>1. /\ Cardinality(A \ B) \in Nat /\ Cardinality(B) \in Nat
        /\ Cardinality(A) = Cardinality(A \ B) + Cardinality(B)
    BY <1>1, <1>5, <1>7, SubsetCount
  <2>2. Maximum(0, Cardinality(A) - Cardinality(B)) = Cardinality(A \ B)
    BY <2>1 DEF Maximum
  <2> QED BY <1>2, <1>3, <1>7, <2>2 DEF A, C, Counted
<1>8. CASE f.type \notin {"joined", "quit"}
  BY <1>2, <1>8 DEF A, C, Counted
<1> QED BY <1>6, <1>7, <1>8

LEMMA UsersToldStep ==
    ASSUME Platform = "bun", ServerInv, ClientInv, UsersTold, [SystemNext]_systemVars
    PROVE  UsersTold'
<1>1. [Next]_vars /\ ServerInv' /\ ClientInv' /\ Grows
  BY ClientStep, ServerGrows
<1> SUFFICES ASSUME NEW s \in Own, NEW u \in Users,
                    ready'[s] = "open", room'.step = "Connected", ~reported'
             PROVE  room'.users[u] = Cardinality(Present(Received(s)', u))
  BY DEF UsersTold
<1>2. room \in RoomStates
  BY DEF ClientInv, ClientTypes
<1>3. ASSUME Rewired, room.step = "Connected", reported' = reported,
             room'.users = room.users
      PROVE  room'.users[u] = Cardinality(Present(Received(s)', u))
  BY <1>1, <1>3, ReceivedStays DEF UsersTold
<1>4. CASE Calm
  BY <1>3, <1>4 DEF Calm, Mild, Connecting, OutOf
<1>5. CASE Pends /\ Rewired /\ reported' = reported
  BY <1>2, <1>3, <1>5 DEF Pends, RoomStates
<1>6. CASE \E r \in Own : OnClosed(r)
  <2>1. room' = Connecting(room.address)
    BY <1>6 DEF OnClosed
  <2> QED BY <2>1 DEF Connecting
<1>7. ASSUME NEW r \in Own, OnOpened(r), Open(r)
      PROVE  room'.users[u] = Cardinality(Present(Received(s)', u))
  <2>1. /\ ready[r] = "connecting" /\ ready' = [ready EXCEPT ![r] = "open"]
        /\ read' = read /\ room'.users = NoUsers
    BY <1>7, OnOpenedFits
  <2>2. s = r
    BY <2>1 DEF ClientInv, ClientTypes, WiresFit
  <2>3. read'[s] = 0 /\ s \in Sockets /\ sent'[s] \in Seq(Frame)
    BY <1>1, <2>1, <2>2, OwnAssumption DEF ClientInv, WiresFit, ServerInv, RoomInv, TypeOK
  <2>4. Received(s)' \in Seq(Frame) /\ Len(Received(s)') = 0
    <3>1. 0 \in 0..Len(sent'[s])
      BY <2>3
    <3> QED BY <2>3, <3>1, PrefixOf DEF Received
  <2> DEFINE a == Received(s)'
             none == Present(a, u)
  <2>5. DOMAIN a = {}
    <3>1. DOMAIN a = 1..0
      BY <2>4, LenProperties
    <3> QED BY <3>1
  <2>6. none = {}
    BY <2>5 DEF Present, Announced
  <2> HIDE DEF none
  <2>7. Cardinality(none) = 0
    BY <2>6, FS_EmptySet
  <2> QED BY <2>1, <2>7 DEF none, NoUsers
<1>8. ASSUME NEW r \in Own, OnMessage(r), UNCHANGED vars
      PROVE  room'.users[u] = Cardinality(Present(Received(s)', u))
  <2> DEFINE k == read[r] + 1
             f == sent[r][k]
  <2>1. /\ r \in Sockets /\ k \in DOMAIN sent[r]
        /\ ready[r] = "open" /\ ready' = ready /\ f \in Frame /\ Named(f)
        /\ Handles /\ UsersHeard(f)
    BY <1>8, MessageFits
  <2>2. r = s
    BY <2>1 DEF ClientInv, WiresFit
  <2>3. Received(s) \in Seq(Frame) /\ Received(s)' = Received(s) \o <<f>>
    BY <1>8, <2>2, ReceivedNext
  <2>4. Received(s) = SubSeq(sent[s], 1, k - 1)
    <3>1. k - 1 = read[s]
      BY <2>2 DEF ClientInv, ClientTypes
    <3> QED BY <3>1 DEF Received
  <2>5. /\ f.type = "joined" => \A p \in f.who : ~Announced(Received(s), p)
        /\ f.type = "quit" => \A p \in f.who : Announced(Received(s), p)
    <3>1. StreamFits(sent[s]) /\ QuitsFit(sent[s])
      BY <2>1, <2>2 DEF ServerInv, StreamsFit
    <3> QED BY <2>1, <2>2, <2>4, <3>1 DEF StreamFits, QuitsFit
  <2> HIDE DEF f, k
  <2>6. room.step = "Connected" /\ ~reported /\ room'.users[u] = Counted(f, u, room.users[u])
    BY <2>1 DEF Handles, UsersHeard
  <2>7. room.users[u] = Cardinality(Present(Received(s), u))
    BY <2>1, <2>2, <2>6 DEF UsersTold
  <2>8. Counted(f, u, Cardinality(Present(Received(s), u)))
          = Cardinality(Present(Received(s) \o <<f>>, u))
    BY <2>1, <2>3, <2>5, CountedFits
  <2> QED BY <2>3, <2>6, <2>7, <2>8
<1> QED BY <1>4, <1>5, <1>6, <1>7, <1>8, SystemTurns

\* The list of users that a client shows, once it has heard all, has for each
\* account as many entries as sessions of the room are logged in as that
\* account, unless it has reported an error since it connected.
THEOREM UsersListed ==
    ASSUME Platform = "bun"
    PROVE  SystemSpec => []UsersAreTheRoster
<1> DEFINE Inv == ServerInv /\ ClientInv /\ UsersTold
<1>1. SystemInit => Inv
  <2> SUFFICES ASSUME SystemInit PROVE UsersTold
    BY SystemStarts
  <2> QED BY DEF SystemInit, ClientInit, UsersTold
<1>2. Inv /\ [SystemNext]_systemVars => Inv'
  BY ClientStep, UsersToldStep
<1>3. Inv => UsersAreTheRoster
  <2> SUFFICES ASSUME Inv, NEW s \in Own, UpToDate(s), ~reported, NEW u \in Users
               PROVE  room.users[u] = Cardinality({r \in sessions : session[r].address = u})
    BY DEF UsersAreTheRoster
  <2>1. room.users[u] = Cardinality(Present(Received(s), u))
    BY DEF UpToDate, UsersTold
  <2>2. sessions \subseteq Sockets
    BY DEF ServerInv, RoomInv, TypeOK
  <2>3. Present(Received(s), u) = {r \in sessions : session[r].address = u}
    BY <2>2, UpToDateFits DEF Present
  <2> QED BY <2>1, <2>3
<1> HIDE DEF Inv
<1> QED BY <1>1, <1>2, <1>3, PTL DEF SystemSpec

-----------------------------------------------------------------------------
(* What is under way on a connection, both ways. *)

\* f tells of the session s.
Speaks(f, s, ty) == f.type = ty /\ \E p \in f.who : p.id = s

\* A frame after the k-th does.
Comes(frames, k, s, ty) == \E i \in DOMAIN frames : i > k /\ Speaks(frames[i], s, ty)

ComesChat(frames, k) == \E i \in DOMAIN frames : i > k /\ frames[i].type = "chat"

\* After the k-th frame, a frame that announces the session s is the last that
\* tells of it.
LastWord(frames, k, s) ==
    \A i \in DOMAIN frames : i > k /\ Speaks(frames[i], s, "joined") =>
      \A j \in DOMAIN frames : j > i =>
        ~Speaks(frames[j], s, "joined") /\ ~Speaks(frames[j], s, "quit")

LEMMA ComesConcat ==
    ASSUME NEW a \in Seq(Frame), NEW b \in Seq(Frame), NEW k \in Nat, k <= Len(a), NEW s
    PROVE  /\ \A ty : Comes(a \o b, k, s, ty) <=> Comes(a, k, s, ty) \/ Comes(b, 0, s, ty)
           /\ ComesChat(a \o b, k) <=> ComesChat(a, k) \/ ComesChat(b, 0)
           /\ /\ LastWord(a, k, s) /\ LastWord(b, 0, s)
              /\ Comes(b, 0, s, "joined") \/ Comes(b, 0, s, "quit") => ~Comes(a, k, s, "joined")
              => LastWord(a \o b, k, s)
<1> DEFINE c == a \o b
           n == Len(a)
           m == Len(b)
<1>1. /\ c \in Seq(Frame) /\ n \in Nat /\ m \in Nat /\ k <= n
      /\ DOMAIN a = 1..n /\ DOMAIN b = 1..m /\ DOMAIN c = 1..(n + m)
      /\ \A i \in 1..n : c[i] = a[i]
      /\ \A i \in 1..m : c[n + i] = b[i]
  BY Concat
<1> HIDE DEF c, n, m
<1>2. \A i \in DOMAIN c : \/ i \in DOMAIN a /\ c[i] = a[i]
                          \/ i - n \in DOMAIN b /\ c[i] = b[i - n] /\ i - n > 0
  <2>1. ASSUME NEW i \in DOMAIN c, i \notin DOMAIN a
        PROVE  i - n \in DOMAIN b /\ c[i] = b[i - n] /\ i - n > 0
    <3>1. i - n \in 1..m /\ n + (i - n) = i
      BY <1>1, <2>1
    <3> QED BY <1>1, <3>1
  <2> QED BY <1>1, <2>1
<1>3. /\ \A i \in DOMAIN a : i \in DOMAIN c /\ c[i] = a[i]
      /\ \A i \in DOMAIN b : /\ n + i \in DOMAIN c /\ c[n + i] = b[i]
                             /\ i > 0 /\ n + i > k
                             /\ \A j \in DOMAIN a : n + i > j
  BY <1>1
<1>4. ASSUME NEW ty
      PROVE  Comes(c, k, s, ty) <=> Comes(a, k, s, ty) \/ Comes(b, 0, s, ty)
  <2>1. ASSUME NEW i \in DOMAIN c, i > k, Speaks(c[i], s, ty)
        PROVE  Comes(a, k, s, ty) \/ Comes(b, 0, s, ty)
    BY <1>2, <2>1 DEF Comes
  <2>2. Comes(a, k, s, ty) => Comes(c, k, s, ty)
    BY <1>3 DEF Comes
  <2>3. Comes(b, 0, s, ty) => Comes(c, k, s, ty)
    BY <1>3 DEF Comes
  <2> QED BY <2>1, <2>2, <2>3 DEF Comes
<1>5. ComesChat(c, k) <=> ComesChat(a, k) \/ ComesChat(b, 0)
  <2>1. ASSUME NEW i \in DOMAIN c, i > k, c[i].type = "chat"
        PROVE  ComesChat(a, k) \/ ComesChat(b, 0)
    BY <1>2, <2>1 DEF ComesChat
  <2>2. ComesChat(a, k) => ComesChat(c, k)
    BY <1>3 DEF ComesChat
  <2>3. ComesChat(b, 0) => ComesChat(c, k)
    BY <1>3 DEF ComesChat
  <2> QED BY <2>1, <2>2, <2>3 DEF ComesChat
<1>6. ASSUME LastWord(a, k, s), LastWord(b, 0, s),
             Comes(b, 0, s, "joined") \/ Comes(b, 0, s, "quit") => ~Comes(a, k, s, "joined"),
             NEW i \in DOMAIN c, i > k, Speaks(c[i], s, "joined"),
             NEW j \in DOMAIN c, j > i
      PROVE  ~Speaks(c[j], s, "joined") /\ ~Speaks(c[j], s, "quit")
  <2>1. CASE i \in DOMAIN a /\ c[i] = a[i]
    <3>1. Comes(a, k, s, "joined")
      BY <1>6, <2>1 DEF Comes
    <3>2. CASE j \in DOMAIN a /\ c[j] = a[j]
      BY <1>6, <2>1, <3>2 DEF LastWord
    <3>3. CASE j - n \in DOMAIN b /\ c[j] = b[j - n] /\ j - n > 0
      BY <1>6, <3>1, <3>3 DEF Comes
    <3> QED BY <1>2, <3>2, <3>3
  <2>2. CASE i - n \in DOMAIN b /\ c[i] = b[i - n] /\ i - n > 0
    <3>1. j - n > i - n /\ j \notin DOMAIN a
      BY <1>1, <1>6, <2>2
    <3>2. j - n \in DOMAIN b /\ c[j] = b[j - n]
      BY <1>2, <3>1
    <3> QED BY <1>6, <2>2, <3>1, <3>2 DEF LastWord
  <2> QED BY <1>2, <2>1, <2>2
<1>7. /\ LastWord(a, k, s) /\ LastWord(b, 0, s)
      /\ Comes(b, 0, s, "joined") \/ Comes(b, 0, s, "quit") => ~Comes(a, k, s, "joined")
      => LastWord(c, k, s)
  BY <1>6 DEF LastWord
<1> QED BY <1>4, <1>5, <1>7 DEF c

LEMMA ComesOne ==
    ASSUME NEW f \in Frame, NEW s
    PROVE  /\ <<f>> \in Seq(Frame)
           /\ \A ty : Comes(<<f>>, 0, s, ty) <=> Speaks(f, s, ty)
           /\ ComesChat(<<f>>, 0) <=> f.type = "chat"
           /\ LastWord(<<f>>, 0, s)
<1> DEFINE b == <<f>>
<1>1. b \in Seq(Frame) /\ DOMAIN b = {1} /\ b[1] = f
  OBVIOUS
<1> HIDE DEF b
<1>2. \A ty : Comes(b, 0, s, ty) <=> Speaks(f, s, ty)
  BY <1>1 DEF Comes
<1>3. ComesChat(b, 0) <=> f.type = "chat"
  BY <1>1 DEF ComesChat
<1>4. LastWord(b, 0, s)
  BY <1>1 DEF LastWord
<1> QED BY <1>1, <1>2, <1>3, <1>4 DEF b

\* The next frame is received.
LEMMA ComesTaken ==
    ASSUME NEW a \in Seq(Frame), NEW k \in Nat, k < Len(a), NEW s
    PROVE  /\ \A ty : Comes(a, k, s, ty) <=> Speaks(a[k + 1], s, ty) \/ Comes(a, k + 1, s, ty)
           /\ ComesChat(a, k) <=> a[k + 1].type = "chat" \/ ComesChat(a, k + 1)
           /\ LastWord(a, k, s) => LastWord(a, k + 1, s)
           /\ LastWord(a, k, s) /\ Speaks(a[k + 1], s, "joined") =>
                ~Comes(a, k + 1, s, "joined") /\ ~Comes(a, k + 1, s, "quit")
<1>1. /\ k + 1 \in DOMAIN a /\ k + 1 > k
      /\ \A i \in DOMAIN a : /\ i > k <=> i = k + 1 \/ i > k + 1
  <2>1. Len(a) \in Nat /\ DOMAIN a = 1..Len(a)
    BY LenProperties
  <2> QED BY <2>1
<1> DEFINE n == k + 1
<1> HIDE DEF n
<1>2. /\ n \in DOMAIN a /\ n > k
      /\ \A i \in DOMAIN a : i > k <=> i = n \/ i > n
  BY <1>1 DEF n
<1>3. \A ty : Comes(a, k, s, ty) <=> Speaks(a[n], s, ty) \/ Comes(a, n, s, ty)
  BY <1>2 DEF Comes
<1>4. ComesChat(a, k) <=> a[n].type = "chat" \/ ComesChat(a, n)
  BY <1>2 DEF ComesChat
<1>5. LastWord(a, k, s) => LastWord(a, n, s)
  BY <1>2 DEF LastWord
<1>6. LastWord(a, k, s) /\ Speaks(a[n], s, "joined") =>
        ~Comes(a, n, s, "joined") /\ ~Comes(a, n, s, "quit")
  BY <1>2 DEF LastWord, Comes
<1> QED BY <1>3, <1>4, <1>5, <1>6 DEF n

\* Mail of a type is under way to the server.
Has(q, ty) == \E j \in DOMAIN q : q[j].type = ty

\* After a logout nothing is sent but logins.
Ordered(q) ==
    \A j, k \in DOMAIN q : k > j /\ q[j].type = "logout" => q[k].type = "login"

LEMMA MailAdded ==
    ASSUME NEW q \in Seq(Mail), NEW m \in Mail
    PROVE  /\ Append(q, m) # <<>>
           /\ \A ty : Has(Append(q, m), ty) <=> Has(q, ty) \/ m.type = ty
           /\ Ordered(q) /\ (Has(q, "logout") => m.type = "login") => Ordered(Append(q, m))
<1> DEFINE c == Append(q, m)
           n == Len(q)
<1>1. /\ c \in Seq(Mail) /\ n \in Nat /\ DOMAIN q = 1..n /\ DOMAIN c = 1..(n + 1)
      /\ \A i \in 1..n : c[i] = q[i]
      /\ c[n + 1] = m
  OBVIOUS
<1> HIDE DEF c, n
<1>2. c # <<>>
  <2>1. n + 1 \in DOMAIN c /\ DOMAIN <<>> = {}
    BY <1>1
  <2> QED BY <2>1
<1>3. \A i \in DOMAIN c : (i \in DOMAIN q /\ c[i] = q[i]) \/ (i = n + 1 /\ c[i] = m)
  BY <1>1
<1>4. /\ n + 1 \in DOMAIN c /\ c[n + 1] = m
      /\ \A i \in DOMAIN q : i \in DOMAIN c /\ c[i] = q[i]
      /\ \A i \in DOMAIN c : ~(i > n + 1)
  BY <1>1
<1>5. \A ty : Has(c, ty) <=> Has(q, ty) \/ m.type = ty
  BY <1>3, <1>4 DEF Has
<1>6. Ordered(q) /\ (Has(q, "logout") => m.type = "login") => Ordered(c)
  BY <1>3, <1>4 DEF Ordered, Has
<1> QED BY <1>2, <1>5, <1>6 DEF c

LEMMA MailTaken ==
    ASSUME NEW q \in Seq(Mail), q # <<>>
    PROVE  /\ \A ty : Has(q, ty) <=> Head(q).type = ty \/ Has(Tail(q), ty)
           /\ Ordered(q) => Ordered(Tail(q))
           /\ Ordered(q) /\ Head(q).type = "logout" =>
                ~Has(Tail(q), "logout") /\ ~Has(Tail(q), "chat")
<1> DEFINE c == Tail(q)
           n == Len(q)
           h == Head(q)
<1>1. /\ c \in Seq(Mail) /\ n \in Nat /\ n > 0 /\ DOMAIN q = 1..n /\ DOMAIN c = 1..(n - 1)
      /\ \A i \in 1..(n - 1) : c[i] = q[i + 1]
      /\ h = q[1]
  OBVIOUS
<1> HIDE DEF c, n, h
<1>2. /\ 1 \in DOMAIN q
      /\ \A i \in DOMAIN c : i + 1 \in DOMAIN q /\ c[i] = q[i + 1] /\ i + 1 > 1
      /\ \A i, j \in DOMAIN c : j > i => j + 1 > i + 1
  BY <1>1
<1>3. \A i \in DOMAIN q : i = 1 \/ (i - 1 \in DOMAIN c /\ c[i - 1] = q[i])
  <2>1. ASSUME NEW i \in DOMAIN q, i # 1 PROVE i - 1 \in DOMAIN c /\ c[i - 1] = q[i]
    <3>1. i - 1 \in 1..(n - 1) /\ (i - 1) + 1 = i
      BY <1>1, <2>1
    <3> QED BY <1>1, <3>1
  <2> QED BY <2>1
<1>4. \A ty : Has(q, ty) <=> h.type = ty \/ Has(c, ty)
  BY <1>1, <1>2, <1>3 DEF Has
<1>5. Ordered(q) => Ordered(c)
  BY <1>2 DEF Ordered
<1>6. Ordered(q) /\ h.type = "logout" => ~Has(c, "logout") /\ ~Has(c, "chat")
  BY <1>1, <1>2 DEF Ordered, Has
<1> QED BY <1>4, <1>5, <1>6 DEF c, h

-----------------------------------------------------------------------------
(* The first connection of the client. *)

\* A login that starts saves the session it answers.
Started(r) ==
    /\ savedSession # NoSocket /\ OutOf(r, room') /\ room'.session = savedSession

LEMMA LoginStartsSays ==
    ASSUME ClientTypes, NEW r \in RoomStates, NEW u \in Users \cup {NoUser},
           LoginStarts(r, u)
    PROVE  room' = r \/ Started(r)
<1>1. CASE room' = r
  BY <1>1
<1>2. CASE /\ u \in Users /\ savedSession \in Own
           /\ room' = LoggedOut(r, u, savedSession) /\ OutOf(r, room')
  <2>1. LoggedOut(r, u, savedSession).session = savedSession
    BY <1>2, LoggedOutIs
  <2>2. savedSession # NoSocket
    BY <1>2, FieldAssumption, OwnAssumption
  <2> QED BY <1>2, <2>1, <2>2 DEF Started
<1> QED BY <1>1, <1>2, LoginStartsFits

LEMMA AutoLoginSays ==
    ASSUME ClientTypes, NEW r \in RoomStates, NEW u \in Users \cup {NoUser},
           NEW waiting \in BOOLEAN, AutoLogin(r, u, waiting)
    PROVE  room' = r \/ Started(r)
<1>1. CASE savedSession = NoSocket
  BY <1>1 DEF AutoLogin
<1>2. CASE savedSession # NoSocket
  <2>1. LoginStarts(r, u)
    BY <1>2 DEF AutoLogin
  <2> QED BY <2>1, LoginStartsSays
<1> QED BY <1>1, <1>2

LEMMA RegistrationSays ==
    ASSUME ClientInv, NEW u \in Users \cup {NoUser}, NEW s,
           RegistrationChanges(known, u, s)
    PROVE  /\ room'.session \in {room.session, savedSession, NoSocket, Undefined}
           /\ room'.step = room.step
           /\ \/ room.step = "Connecting" /\ outbox' = outbox
              \/ room' = room /\ outbox' = outbox
              \/ OutOf(room, room') /\ outbox' = outbox
              \/ /\ OutOf(room, room') /\ room.status = "LoggedIn"
                 /\ outbox' = Sent(s, LogoutMessage)
<1> DEFINE loggedIn == room.step = "Connected" /\ room.status = "LoggedIn"
           out == LoggedOut(room, u, SavedField)
<1>1. /\ ClientTypes /\ StatusFits(room, known) /\ room \in RoomStates
      /\ loginOnChallengeReceived \in BOOLEAN
  BY DEF ClientInv, ClientTypes
<1>2. u \in Users => /\ out \in RoomStates /\ OutOf(room, out)
                     /\ out.session \in {savedSession, Undefined}
  <2>1. u \in Users => OutOf(room, out) /\ out.session = SavedField
    BY <1>1, SavedFieldType, LoggedOutIs
  <2> QED BY <2>1 DEF OutOf, SavedField
<1> HIDE DEF out
<1>3. ASSUME NEW waiting \in BOOLEAN, u # NoUser, AutoLogin(out, u, waiting),
             room.step = "Connected"
      PROVE  /\ OutOf(room, room') /\ room'.step = room.step
             /\ room'.session \in {savedSession, Undefined}
    <2>1. out \in RoomStates /\ OutOf(room, out) /\ out.session \in {savedSession, Undefined}
    BY <1>2, <1>3
  <2>2. room' = out \/ Started(out)
    BY <1>1, <1>3, <2>1, AutoLoginSays
  <2>3. OutOf(room, room')
    BY <2>1, <2>2, OutOfOut DEF Started
  <2>4. room'.step = room.step
    BY <1>3, <2>3 DEF OutOf
  <2> QED BY <2>1, <2>2, <2>3, <2>4 DEF Started
<1>5. CASE known = u /\ UNCHANGED <<room, signing, outbox, loginOnChallengeReceived>>
  BY <1>5
<1>6. CASE /\ known # u /\ room.step = "Connecting" /\ room' = Connecting(u)
           /\ UNCHANGED <<signing, outbox, loginOnChallengeReceived>>
  BY <1>6 DEF Connecting
<1>7. CASE /\ room.step = "Connected" /\ known = NoUser /\ u # NoUser
           /\ AutoLogin(out, u, loginOnChallengeReceived) /\ UNCHANGED outbox
  BY <1>1, <1>3, <1>7
<1>8. CASE /\ loggedIn /\ known # u /\ known # NoUser
           /\ outbox' = Sent(s, LogoutMessage)
           /\ u # NoUser /\ AutoLogin(out, u, FALSE)
  BY <1>1, <1>3, <1>8
<1>9. CASE /\ loggedIn /\ known # u /\ known # NoUser
           /\ outbox' = Sent(s, LogoutMessage)
           /\ room' = LoggedOut(room, room.address, room.session)
           /\ loginOnChallengeReceived' = FALSE /\ UNCHANGED signing
  <2>1. room.address \in Users /\ room.session \in Own \cup {NoSocket, Undefined}
    BY <1>1, <1>9 DEF RoomStates, StatusFits
  <2>2. OutOf(room, room') /\ room'.session = room.session
    BY <1>1, <1>9, <2>1, LoggedOutIs
  <2>3. room'.step = room.step
    BY <1>9, <2>2 DEF OutOf
  <2> QED BY <1>9, <2>2, <2>3
<1>10. CASE /\ room.step = "Connected" /\ ~loggedIn /\ known # u /\ known # NoUser
            /\ loginOnChallengeReceived' = (loginOnChallengeReceived /\ u = NoUser)
            /\ UNCHANGED <<room, signing, outbox>>
  BY <1>10
<1> QED BY <1>5, <1>6, <1>7, <1>8, <1>9, <1>10 DEF RegistrationChanges, out

\* What the next frame f of s may do to the session of the client, its login and
\* its messages.
Heard(f, s) ==
    /\ savedSession' \in {savedSession, s}
    /\ room'.session \in {room.session, savedSession, s}
    /\ room'.address \in {room.address, known}
    /\ room'.pending \in {room.pending, 0}
    /\ room.step = "Connected" /\ f.type = "chat" => room'.pending = 0
    /\ room'.status = "LoggedIn" =>
         \/ room.status = "LoggedIn"
         \/ f.type = "joined" /\ room.session \in Own /\ \E p \in f.who : p.id = room.session
    /\ room'.status = "LoggedIn" => room'.session = room.session

LEMMA MessageSays ==
    ASSUME ServerInv, ClientInv, NEW s \in Own, OnMessage(s)
    PROVE  Heard(sent[s][read[s] + 1], s)
<1> DEFINE f == sent[s][read[s] + 1]
<1> SUFFICES Heard(f, s)
  OBVIOUS
<1>1. /\ ClientTypes /\ StatusFits(room, known) /\ room \in RoomStates
      /\ savedSession \in Own \cup {NoSocket} /\ known \in Users \cup {NoUser}
  BY DEF ClientInv, ClientTypes
<1>2. f \in Frame /\ Named(f)
  BY MessageFits
<1>3. IF \/ room.step # "Connected"
         \/ f.type \in {"joined", "quit"} /\ room.session = Undefined /\ SameAddress(f.who)
        THEN UNCHANGED <<room, savedSession>>
        ELSE \/ f.type = "challenge" /\ OnChallenge(s)
             \/ f.type = "chat" /\ OnChat
             \/ f.type = "joined" /\ OnJoined(f.who)
             \/ f.type = "quit" /\ OnQuit(f.who)
  BY DEF OnMessage
<1> HIDE DEF f
<1>4. CASE /\ UNCHANGED <<room, savedSession>>
           /\ \/ room.step # "Connected"
              \/ f.type \in {"joined", "quit"}
  BY <1>4 DEF Heard
<1>5. CASE f.type = "challenge" /\ OnChallenge(s)
  <2>1. savedSession' = s
    BY <1>5 DEF OnChallenge
  <2>2. CASE room' = LoggedOut(room, known, s)
    <3>1. /\ room'.session = s /\ room'.status = "LoggedOut" /\ room'.pending = room.pending
          /\ room'.address = known
      BY <1>1, <2>2 DEF LoggedOut, RoomStates
    <3> QED BY <1>5, <2>1, <3>1 DEF Heard
  <2>3. CASE room' = [room EXCEPT !.session = s] /\ room.status = "LoggedOut"
    <3>1. /\ room'.session = s /\ room'.status = room.status /\ room'.pending = room.pending
          /\ room'.address = room.address
      BY <1>1, <2>3 DEF RoomStates
    <3> QED BY <1>5, <2>1, <2>3, <3>1 DEF Heard
  <2>4. CASE room' = room
    BY <1>5, <2>1, <2>4 DEF Heard
  <2> QED BY <1>5, <2>2, <2>3, <2>4 DEF OnChallenge
<1>6. CASE f.type = "chat" /\ OnChat
  <2>1. room' = [room EXCEPT !.pending = 0] /\ savedSession' = savedSession
    BY <1>6 DEF OnChat
  <2>2. /\ room'.pending = 0 /\ room'.session = room.session /\ room'.status = room.status
        /\ room'.address = room.address
    BY <1>1, <2>1 DEF RoomStates
  <2> QED BY <1>6, <2>1, <2>2 DEF Heard
<1>7. CASE f.type = "joined" /\ OnJoined(f.who)
  <2> DEFINE add == Added(f.who)
  <2>1. /\ room' = IF IsOwn(f.who)
                     THEN [room EXCEPT !.status = "LoggedIn", !.address = known, !.users = add]
                     ELSE [room EXCEPT !.users = add]
        /\ savedSession' = savedSession
    BY <1>7 DEF OnJoined
  <2> HIDE DEF add
  <2>2. /\ room'.pending = room.pending /\ room'.session = room.session
        /\ room'.address \in {room.address, known}
        /\ ~IsOwn(f.who) => room'.status = room.status
    BY <1>1, <2>1 DEF RoomStates
  <2>3. IsOwn(f.who) => room.session \in Own /\ \E p \in f.who : p.id = room.session
    BY <1>2, <1>7, OwnPresence DEF IsOwn, Named
  <2> QED BY <1>7, <2>1, <2>2, <2>3 DEF Heard
<1>8. CASE f.type = "quit" /\ OnQuit(f.who)
  <2> DEFINE left == Removed(f.who)
  <2>1. /\ \/ room' = room
           \/ room' = [room EXCEPT !.status = "LoggedOut", !.users = left,
                                   !.session = savedSession]
           \/ room' = [room EXCEPT !.users = left]
        /\ savedSession' = savedSession
    BY <1>8 DEF OnQuit
  <2> HIDE DEF left
  <2>2. /\ room'.pending = room.pending /\ room'.address = room.address
        /\ \/ room'.status = room.status /\ room'.session = room.session
           \/ room'.status = "LoggedOut" /\ room'.session = savedSession
    BY <1>1, <2>1 DEF RoomStates
  <2> QED BY <1>8, <2>1, <2>2 DEF Heard
<1> QED BY <1>3, <1>4, <1>5, <1>6, <1>7, <1>8

\* A websocket that has been made does not become one that has not.
LEMMA FirstStays ==
    ASSUME ClientInv, [SystemNext]_systemVars, NEW s \in Own, First(s)'
    PROVE  First(s)
<1> DEFINE Kept == \A r \in Own : ready[r] # "none" => ready'[r] # "none"
<1> SUFFICES Kept
  BY DEF First
<1>1. ready \in [Own -> {"none", "connecting", "open", "closing", "closed"}]
      /\ websocket \in Own \cup {NoSocket}
  BY DEF ClientInv, ClientTypes
<1>2. ready' = ready => Kept
  OBVIOUS
<1>3. CASE Stop
  BY <1>1, <1>3 DEF Stop
<1>4. ASSUME NEW r \in Own, Start(r) \/ OnOpened(r) \/ OnClosed(r) PROVE Kept
  BY <1>1, <1>4 DEF Start, OnOpened, OnClosed
<1>5. CASE ClientActs
  <2>1. ASSUME NEW u, ChangeRegistration(u) PROVE ready' = ready
    BY <2>1 DEF ChangeRegistration
  <2>2. ASSUME NEW m, Signed(m) PROVE ready' = ready
    BY <2>2 DEF Signed
  <2>3. LogIn \/ SendMessage => ready' = ready
    BY DEF LogIn, SendMessage
  <2> QED BY <1>2, <1>3, <1>4, <1>5, <2>1, <2>2, <2>3 DEF ClientActs
<1>6. ASSUME NEW r \in Sockets, Opens(r) PROVE Kept
  <2>1. CASE r \in Own
    BY <1>4, <1>6, <2>1 DEF Opens
  <2>2. CASE r \notin Own
    BY <1>2, <1>6, <2>2 DEF Opens, clientVars
  <2> QED BY <2>1, <2>2
<1>7. ASSUME NEW r \in Own,
             Breaks(r) \/ ServerCloses(r) \/ ServerReceives(r) \/ OnMessage(r)
      PROVE  Kept
  BY <1>2, <1>7 DEF Breaks, ServerCloses, ServerReceives, OnMessage, clientVars
<1>8. ASSUME NEW r \in Own, ClientCloses(r) PROVE Kept
  BY <1>4, <1>8 DEF ClientCloses
<1>9. ASSUME (\E r \in Peers : PeerActs(r)) \/ (\E t \in logins : LoginEnds(t))
             \/ UNCHANGED systemVars
      PROVE  Kept
  BY <1>2, <1>9 DEF PeerActs, LoginEnds, systemVars, clientVars
<1> QED BY <1>5, <1>6, <1>7, <1>8, <1>9 DEF SystemNext

\* While a connection is the only one that the client has made, the client knows
\* of no other session, and sends nothing before the connection is open.
FirstFits(s) ==
    /\ savedSession \in {NoSocket, s} /\ room.session \in {NoSocket, Undefined, s}
    /\ ready[s] \in {"none", "connecting"} => outbox[s] = <<>>
    /\ ready[s] = "open" => room.step = "Connected"

FirstsFit == \A s \in Own : First(s) => FirstFits(s)

LEMMA FirstKeeps ==
    ASSUME NEW s \in Own, FirstFits(s), savedSession' = savedSession,
           room'.session \in {room.session, savedSession, NoSocket, Undefined},
           ready'[s] = "open" => ready[s] = "open" /\ room'.step = room.step,
           ready'[s] \in {"none", "connecting"} =>
             ready[s] \in {"none", "connecting"} /\ outbox'[s] = outbox[s]
    PROVE  FirstFits(s)'
BY DEF FirstFits

\* What the client does sends nothing by a connection that is not open.
LEMMA OnlyOpenSend ==
    ASSUME NEW s \in Own, NEW r, NEW m, ready[s] # "open", ClientTypes
    PROVE  Sent(r, m)[s] = outbox[s]
BY DEF Sent, ClientTypes

LEMMA ActsKeepFirst ==
    ASSUME ClientInv, ClientActs, NEW s \in Own, FirstFits(s), First(s)'
    PROVE  FirstFits(s)'
<1>1. /\ ClientTypes /\ room \in RoomStates /\ StatusFits(room, known)
      /\ known \in Users \cup {NoUser} /\ registration \in Users \cup {NoUser}
      /\ ready \in [Own -> {"none", "connecting", "open", "closing", "closed"}]
      /\ websocket \in Own \cup {NoSocket}
  BY DEF ClientInv, ClientTypes
<1>2. CASE Stop
  <2>1. /\ ready' = [ready EXCEPT ![websocket] =
                       IF @ \in {"connecting", "open"} THEN "closing" ELSE @]
        /\ UNCHANGED <<room, savedSession, outbox>>
    BY <1>2 DEF Stop
  <2>2. ready'[s] \in {"none", "connecting", "open"} => ready'[s] = ready[s]
    BY <1>1, <2>1
  <2> QED BY <2>1, <2>2, FirstKeeps
<1>3. ASSUME NEW r \in Own, Start(r) PROVE FirstFits(s)'
  <2>1. /\ ready[r] = "none" /\ ready' = [ready EXCEPT ![r] = "connecting"]
        /\ RegistrationChanges(known, registration, r) /\ savedSession' = savedSession
    BY <1>3 DEF Start
  <2>2. r = s
    BY <1>1, <2>1 DEF First
  <2>3. /\ room'.session \in {room.session, savedSession, NoSocket, Undefined}
        /\ outbox' = outbox \/ outbox' = Sent(r, LogoutMessage)
    BY <1>1, <2>1, RegistrationSays
  <2>4. outbox'[s] = outbox[s] /\ ready'[s] = "connecting"
    BY <1>1, <2>1, <2>2, <2>3, OnlyOpenSend
  <2> QED BY <2>1, <2>2, <2>3, <2>4, FirstKeeps
<1>4. ASSUME NEW u \in Users \cup {NoUser}, ChangeRegistration(u) PROVE FirstFits(s)'
  <2>1. ready' = ready /\ savedSession' = savedSession
    BY <1>4 DEF ChangeRegistration
  <2>2. CASE websocket = NoSocket
    <3>1. room' = room /\ outbox' = outbox
      BY <1>4, <2>2 DEF ChangeRegistration
    <3> QED BY <2>1, <3>1, FirstKeeps
  <2>3. CASE websocket # NoSocket
    <3>1. RegistrationChanges(known, u, websocket)
      BY <1>4, <2>3 DEF ChangeRegistration
    <3>2. /\ room'.session \in {room.session, savedSession, NoSocket, Undefined}
          /\ room'.step = room.step
          /\ outbox' = outbox \/ outbox' = Sent(websocket, LogoutMessage)
      BY <1>1, <3>1, RegistrationSays
    <3>3. ready[s] # "open" => outbox'[s] = outbox[s]
      BY <1>1, <3>2, OnlyOpenSend
    <3> QED BY <2>1, <3>2, <3>3, FirstKeeps
  <2> QED BY <2>2, <2>3
<1>5. ASSUME NEW m \in signing, Signed(m) PROVE FirstFits(s)'
  <2>1. /\ outbox' = outbox \/ outbox' = Sent(websocket, m)
        /\ UNCHANGED <<ready, savedSession, room>>
    BY <1>5 DEF Signed
  <2>2. ready[s] # "open" => outbox'[s] = outbox[s]
    BY <1>1, <2>1, OnlyOpenSend
  <2> QED BY <2>1, <2>2, FirstKeeps
<1>6. CASE LogIn
  <2>1. LoginStarts(room, known) /\ UNCHANGED <<ready, savedSession, outbox>>
    BY <1>6 DEF LogIn
  <2>2. room' = room \/ (room.step = "Connected" /\ Started(room))
    BY <1>1, <1>6, <2>1, LoginStartsSays DEF LogIn, CanLogin
  <2>3. /\ room'.session \in {room.session, savedSession}
        /\ room'.step = room.step
    BY <2>2 DEF Started, OutOf
  <2> QED BY <2>1, <2>3, FirstKeeps
<1>7. CASE SendMessage
  <2>1. /\ room' = [room EXCEPT !.pending = @ + 1]
        /\ outbox' = Sent(websocket, ChatMessage)
        /\ UNCHANGED <<ready, savedSession>>
    BY <1>7 DEF SendMessage
  <2>2. room'.session = room.session /\ room'.step = room.step
    BY <1>1, <2>1 DEF RoomStates
  <2>3. ready[s] # "open" => outbox'[s] = outbox[s]
    BY <1>1, <2>1, OnlyOpenSend
  <2> QED BY <2>1, <2>2, <2>3, FirstKeeps
<1> QED BY <1>2, <1>3, <1>4, <1>5, <1>6, <1>7 DEF ClientActs

LEMMA FirstsFitStep ==
    ASSUME Platform = "bun", ServerInv, ClientInv, FirstsFit, [SystemNext]_systemVars
    PROVE  FirstsFit'
<1> SUFFICES ASSUME NEW s \in Own, First(s)' PROVE FirstFits(s)'
  BY DEF FirstsFit
<1>1. First(s) /\ FirstFits(s)
  BY FirstStays DEF FirstsFit
<1>2. /\ ClientTypes /\ WiresFit /\ room \in RoomStates
      /\ ready \in [Own -> {"none", "connecting", "open", "closing", "closed"}]
      /\ known \in Users \cup {NoUser} /\ loginOnChallengeReceived \in BOOLEAN
      /\ outbox \in [Own -> Seq(Mail)]
  BY DEF ClientInv, ClientTypes
<1>3. ASSUME UNCHANGED <<ready, savedSession, room>>,
             \A r \in Own : outbox'[r] = outbox[r] \/ outbox[r] # <<>> \/ ready[r] = "closed"
                            \/ outbox'[r] = <<>>
      PROVE  FirstFits(s)'
  BY <1>1, <1>3 DEF FirstFits
<1>4. UNCHANGED clientVars => FirstFits(s)'
  BY <1>3 DEF clientVars
<1>5. ASSUME NEW r \in Own, OnOpened(r) PROVE FirstFits(s)'
  <2> DEFINE q == [Connecting(room.address) EXCEPT
                     !.step = "Connected",
                     !.status = IF room.address = NoUser THEN "NoAccount" ELSE "LoggedOut"]
  <2>1. /\ ready[r] = "connecting" /\ ready' = [ready EXCEPT ![r] = "open"]
        /\ IF room.address = NoUser
             THEN room' = q
             ELSE AutoLogin(q, known, loginOnChallengeReceived)
        /\ UNCHANGED <<savedSession, outbox>>
    BY <1>5 DEF OnOpened
  <2>2. r = s
    BY <1>1, <2>1 DEF First
  <2>3. q \in RoomStates /\ q.step = "Connected" /\ q.session = NoSocket
    BY <1>2 DEF Connecting, NoUsers, RoomStates
  <2> HIDE DEF q
  <2>4. room' = q \/ Started(q)
    BY <1>2, <2>1, <2>3, AutoLoginSays
  <2>5. room'.session \in {NoSocket, savedSession} /\ room'.step = "Connected"
    BY <2>3, <2>4 DEF Started, OutOf
  <2>6. ready'[s] = "open"
    BY <1>2, <2>1, <2>2
  <2> QED BY <1>1, <2>1, <2>5, <2>6 DEF FirstFits
<1>6. CASE ClientActs
  BY <1>1, <1>6, ActsKeepFirst
<1>7. ASSUME NEW r \in Sockets, Opens(r) PROVE FirstFits(s)'
  BY <1>4, <1>5, <1>7 DEF Opens
<1>8. ASSUME NEW r \in Own, Breaks(r) PROVE FirstFits(s)'
  BY <1>4, <1>8 DEF Breaks
<1>9. ASSUME NEW r \in Own, ServerCloses(r) \/ ServerReceives(r) PROVE FirstFits(s)'
  <2>1. /\ UNCHANGED <<ready, savedSession, room>>
        /\ \/ outbox' = [outbox EXCEPT ![r] = <<>>]
           \/ outbox[r] # <<>> /\ outbox' = [outbox EXCEPT ![r] = Tail(@)]
    BY <1>9 DEF ServerCloses, ServerReceives
  <2> QED BY <1>2, <1>3, <2>1
<1>10. ASSUME NEW r \in Own, ClientCloses(r) PROVE FirstFits(s)'
  <2>1. /\ ready[r] \in {"closing", "open"} /\ ready' = [ready EXCEPT ![r] = "closed"]
        /\ room' = Connecting(room.address)
        /\ UNCHANGED <<savedSession, outbox>>
    BY <1>10 DEF ClientCloses, OnClosed
  <2>2. r = s
    BY <1>1, <2>1 DEF First
  <2>3. ready'[s] = "closed" /\ room'.session = NoSocket
    BY <1>2, <2>1, <2>2 DEF Connecting
  <2> QED BY <1>1, <2>1, <2>3 DEF FirstFits
<1>11. ASSUME NEW r \in Own, OnMessage(r) PROVE FirstFits(s)'
  <2> DEFINE f == sent[r][read[r] + 1]
  <2>1. ready[r] = "open" /\ ready' = ready /\ outbox' = outbox /\ Handles
    BY <1>11, MessageFits
  <2>2. r = s
    BY <1>1, <2>1 DEF First
  <2>3. Heard(f, s)
    BY <1>11, <2>2, MessageSays
  <2> HIDE DEF f
  <2>4. /\ savedSession' \in {savedSession, s} /\ room'.step = room.step
        /\ room'.session \in {room.session, savedSession, s}
    BY <2>1, <2>3 DEF Heard, Handles
  <2> QED BY <1>1, <2>1, <2>4 DEF FirstFits
<1>12. ASSUME (\E r \in Peers : PeerActs(r)) \/ (\E t \in logins : LoginEnds(t))
              \/ UNCHANGED systemVars
       PROVE  FirstFits(s)'
  <2>1. UNCHANGED clientVars
    BY <1>12 DEF PeerActs, LoginEnds, systemVars
  <2> QED BY <1>4, <2>1
<1> QED BY <1>6, <1>7, <1>8, <1>9, <1>10, <1>11, <1>12 DEF SystemNext

-----------------------------------------------------------------------------
(* The messages that wait for their echo. *)

In(s) == session[s].address # NoUser

\* What is under way on the connection s, both ways.  While the client shows
\* itself logged in, so is the session, and no frame to come says otherwise.
\* Until a logout has been handled no joined frame is to come: one of an
\* earlier login would be taken for the answer to the next.  A message is
\* under way while it is pending, and reaches a session that is logged in.
Exchange(s) ==
    /\ room.status = "LoggedIn" =>
         /\ In(s) /\ ~Has(outbox[s], "logout")
         /\ ~Comes(sent[s], read[s], s, "joined") /\ ~Comes(sent[s], read[s], s, "quit")
    /\ Has(outbox[s], "logout") => In(s) /\ ~Comes(sent[s], read[s], s, "joined")
    /\ Ordered(outbox[s])
    /\ Has(outbox[s], "chat") => In(s)
    /\ Comes(sent[s], read[s], s, "joined") => In(s)
    /\ LastWord(sent[s], read[s], s)
    /\ room.pending > 0 => Has(outbox[s], "chat") \/ ComesChat(sent[s], read[s])

\* The room has told the client of no second account of the session.
OneAccount(s) == \A u, v \in Accounts(s) : u = v

Exchanges ==
    \A s \in Own :
      /\ ready[s] = "open" /\ conn[s] = "open" /\ First(s)
      /\ OneAccount(s) /\ <<s, "chat">> \notin refused
      => Exchange(s)

\* The session s stays as it is, and the frames sent to it tell nothing of it.
Aside(s) ==
    /\ session'[s].address = session[s].address
    /\ \E more \in Seq(Frame) :
         /\ sent'[s] = sent[s] \o more
         /\ ~Comes(more, 0, s, "joined") /\ ~Comes(more, 0, s, "quit")

LEMMA NothingMore ==
    ASSUME ServerInv, NEW s \in Sockets, session'[s].address = session[s].address,
           sent'[s] = sent[s]
    PROVE  Aside(s)
<1> DEFINE none == <<>>
<1>1. none \in Seq(Frame) /\ DOMAIN none = {}
  BY EmptySeq
<1>2. sent[s] \in Seq(Frame)
  BY DEF ServerInv, RoomInv, TypeOK
<1>3. sent[s] \o none = sent[s]
  BY <1>2, ConcatEmptySeq
<1> HIDE DEF none
<1>4. ~Comes(none, 0, s, "joined") /\ ~Comes(none, 0, s, "quit")
  BY <1>1 DEF Comes
<1> QED BY <1>1, <1>3, <1>4 DEF Aside

LEMMA SaidAside ==
    ASSUME ServerInv, NEW s \in Sockets, session'[s].address = session[s].address,
           NEW f \in Frame, Say(f), ~Speaks(f, s, "joined"), ~Speaks(f, s, "quit")
    PROVE  Aside(s)
<1> DEFINE b == <<f>>
<1>1. sent'[s] = sent[s] \/ sent'[s] = sent[s] \o b
  BY DEF Say
<1>2. b \in Seq(Frame) /\ ~Comes(b, 0, s, "joined") /\ ~Comes(b, 0, s, "quit")
  BY ComesOne
<1> HIDE DEF b
<1> QED BY <1>1, <1>2, NothingMore DEF Aside

LEMMA SaidTwiceAside ==
    ASSUME ServerInv, NEW s \in Sockets, session'[s].address = session[s].address,
           NEW f \in Frame, ~Speaks(f, s, "joined"), ~Speaks(f, s, "quit"),
           NEW g \in Frame, ~Speaks(g, s, "joined"), ~Speaks(g, s, "quit"),
           SayTwo(f, g)
    PROVE  Aside(s)
<1> DEFINE a == sent[s]
           b == <<f>>
           c == <<g>>
           more == b \o c
<1>1. sent'[s] = a \/ sent'[s] = (a \o b) \o c
  BY DEF SayTwo
<1>2. /\ b \in Seq(Frame) /\ ~Comes(b, 0, s, "joined") /\ ~Comes(b, 0, s, "quit")
      /\ c \in Seq(Frame) /\ ~Comes(c, 0, s, "joined") /\ ~Comes(c, 0, s, "quit")
  BY ComesOne
<1>3. a \in Seq(Frame)
  BY DEF ServerInv, RoomInv, TypeOK
<1> HIDE DEF a, b, c
<1>4. (a \o b) \o c = a \o more /\ more \in Seq(Frame)
  <2>1. a \in Seq(Frame) /\ b \in Seq(Frame) /\ c \in Seq(Frame)
    BY <1>2, <1>3
  <2>2. (a \o b) \o c = a \o (b \o c)
    BY <2>1, ConcatAssociative, SMTT(30)
  <2>3. b \o c \in Seq(Frame)
    BY <2>1, ConcatProperties
  <2> QED BY <2>2, <2>3
<1>5. 0 \in Nat /\ 0 <= Len(b)
  BY <1>2, LenProperties
<1>6. \A ty : Comes(more, 0, s, ty) <=> Comes(b, 0, s, ty) \/ Comes(c, 0, s, ty)
  BY <1>2, <1>5, ComesConcat
<1> HIDE DEF more
<1>7. ~Comes(more, 0, s, "joined") /\ ~Comes(more, 0, s, "quit")
  BY <1>2, <1>6
<1> QED BY <1>1, <1>4, <1>7, NothingMore DEF Aside, a

LEMMA OthersSpeak ==
    ASSUME NEW s, NEW r, NEW u, r # s
    PROVE  /\ ~Speaks(Joined({Who(r, u)}), s, "joined") /\ ~Speaks(Joined({Who(r, u)}), s, "quit")
           /\ ~Speaks(Quit({Who(r, u)}), s, "joined") /\ ~Speaks(Quit({Who(r, u)}), s, "quit")
BY DEF Speaks, Joined, Quit, Who

\* What others do, and what nobody is told of.
LEMMA TurnsAside ==
    ASSUME Platform = "bun", ServerInv, NEW s \in Sockets,
           \/ \E r \in Sockets : Disconnect(r) \/ \E u \in Users : RequestLogin(r, u)
           \/ \E t \in logins : LoginFails(t) \/ LoginRepeats(t) \/ ChainRefuses(t)
           \/ UNCHANGED vars
           \/ \E r \in Sockets \ {s} : Open(r) \/ Logout(r) \/ CloseEvent(r)
           \/ \E r \in Sockets, now \in Clock : SendChat(r, now)
           \/ \E t \in logins : t.socket # s /\ LoginOpenRoom(t)
    PROVE  Aside(s)
<1>1. RoomInv /\ session \in [Sockets -> Session] /\ sent \in [Sockets -> Seq(Frame)]
      /\ conn \in [Sockets -> {"new", "open", "leaving", "closed"}]
  BY DEF ServerInv, RoomInv, TypeOK
<1>2. CASE \/ \E r \in Sockets : Disconnect(r) \/ \E u \in Users : RequestLogin(r, u)
           \/ \E t \in logins : LoginFails(t) \/ LoginRepeats(t) \/ ChainRefuses(t)
           \/ UNCHANGED vars
  BY <1>2, UnheardTurns, NothingMore
<1>3. ASSUME NEW r \in Sockets \ {s}, Open(r) PROVE Aside(s)
  <2>1. PICK frames \in Seq(Frame) : sent' = [sent EXCEPT ![r] = frames]
    BY <1>1, <1>3, OpenSays
  <2>2. session'[s].address = session[s].address
    BY <1>1, <1>3, OpenSays
  <2> QED BY <1>1, <2>1, <2>2, NothingMore
<1>4. ASSUME NEW r \in Sockets \ {s}, Logout(r) PROVE Aside(s)
  <2> DEFINE f == Quit({Who(r, session[r].address)})
  <2>1. /\ session[r].address \in Users /\ Say(f)
        /\ session' = [session EXCEPT ![r].address = NoUser]
    BY <1>1, <1>4, LogoutSays
  <2>2. session'[s].address = session[s].address
    BY <1>1, <2>1
  <2>3. f \in Frame /\ ~Speaks(f, s, "joined") /\ ~Speaks(f, s, "quit")
    BY <2>1, NamedPresence, OthersSpeak
  <2> HIDE DEF f
  <2> QED BY <2>1, <2>2, <2>3, SaidAside
<1>5. ASSUME NEW r \in Sockets \ {s}, CloseEvent(r) PROVE Aside(s)
  <2> DEFINE f == Quit({Who(r, session[r].address)})
  <2>1. /\ session' = session
        /\ (session[r].address \in Users /\ Say(f)) \/ sent' = sent
    BY <1>1, <1>5, CloseSays
  <2>2. session[r].address \in Users =>
          f \in Frame /\ ~Speaks(f, s, "joined") /\ ~Speaks(f, s, "quit")
    BY NamedPresence, OthersSpeak
  <2> HIDE DEF f
  <2> QED BY <2>1, <2>2, SaidAside, NothingMore
<1>6. ASSUME NEW r \in Sockets, NEW now \in Clock, SendChat(r, now) PROVE Aside(s)
  <2> DEFINE f == Chat(Stamp(now), session[r].address)
  <2>1. f \in Message /\ session' = session /\ Say(f)
    BY <1>1, <1>6, ChatSays
  <2> HIDE DEF f
  <2>2. f \in Frame /\ f.type = "chat"
    BY <2>1, FrameTypes DEF Message
  <2>3. ~Speaks(f, s, "joined") /\ ~Speaks(f, s, "quit")
    BY <2>2 DEF Speaks
  <2> QED BY <2>1, <2>2, <2>3, SaidAside
<1>7. ASSUME NEW t \in logins, t.socket # s, LoginOpenRoom(t) PROVE Aside(s)
  <2> DEFINE r   == t.socket
             old == session[r].address
             f   == Quit({Who(r, old)})
             g   == Joined({Who(r, t.user)})
  <2>1. /\ r \in sessions /\ t.user \in Users /\ old \in Users \cup {NoUser}
        /\ session' = [session EXCEPT ![r].address = t.user]
        /\ old = NoUser => Say(g)
        /\ old # NoUser => SayTwo(f, g)
    BY <1>1, <1>7, LoginSays
  <2>2. r \in Sockets
    BY <2>1 DEF ServerInv, RoomInv, TypeOK
  <2>3. session'[s].address = session[s].address
    BY <1>1, <1>7, <2>1, <2>2
  <2>4. /\ g \in Frame /\ (old # NoUser => f \in Frame)
    BY <2>1, <2>2, NamedPresence
  <2>5. /\ ~Speaks(g, s, "joined") /\ ~Speaks(g, s, "quit")
        /\ ~Speaks(f, s, "joined") /\ ~Speaks(f, s, "quit")
    BY <1>7, OthersSpeak
  <2> HIDE DEF r, old, f, g
  <2> QED BY <2>1, <2>3, <2>4, <2>5, SaidAside, SaidTwiceAside
<1> QED BY <1>2, <1>3, <1>4, <1>5, <1>6, <1>7

\* What the client has yet to hear of itself stays so.
LEMMA AsideSays ==
    ASSUME ServerInv, NEW s \in Sockets, NEW k \in Nat, k <= Len(sent[s]), Aside(s)
    PROVE  /\ Comes(sent'[s], k, s, "joined") <=> Comes(sent[s], k, s, "joined")
           /\ Comes(sent'[s], k, s, "quit") <=> Comes(sent[s], k, s, "quit")
           /\ ComesChat(sent[s], k) => ComesChat(sent'[s], k)
           /\ LastWord(sent[s], k, s) => LastWord(sent'[s], k, s)
<1> DEFINE a == sent[s]
<1>1. PICK more \in Seq(Frame) :
        /\ sent'[s] = a \o more
        /\ ~Comes(more, 0, s, "joined") /\ ~Comes(more, 0, s, "quit")
  BY DEF Aside
<1>2. a \in Seq(Frame) /\ k <= Len(a)
  BY DEF ServerInv, RoomInv, TypeOK
<1>3. LastWord(more, 0, s)
  <2>1. \A i \in DOMAIN more : i > 0
    BY LenProperties
  <2> QED BY <1>1, <2>1 DEF LastWord, Comes
<1> HIDE DEF a
<1>4. /\ \A ty : Comes(a \o more, k, s, ty) <=> Comes(a, k, s, ty) \/ Comes(more, 0, s, ty)
      /\ ComesChat(a \o more, k) <=> ComesChat(a, k) \/ ComesChat(more, 0)
      /\ /\ LastWord(a, k, s) /\ LastWord(more, 0, s)
         /\ Comes(more, 0, s, "joined") \/ Comes(more, 0, s, "quit") => ~Comes(a, k, s, "joined")
         => LastWord(a \o more, k, s)
  BY <1>2, ComesConcat
<1> QED BY <1>1, <1>3, <1>4 DEF a

\* The client has received no more than was sent.
LEMMA ReadFits ==
    ASSUME ServerInv, ClientInv, NEW s \in Own, ready[s] = "open"
    PROVE  s \in Sockets /\ sent[s] \in Seq(Frame) /\ read[s] \in Nat /\ read[s] <= Len(sent[s])
BY OwnAssumption DEF ServerInv, RoomInv, TypeOK, ClientInv, ClientTypes, WiresFit

\* The room that the client shows stays, and the server may take its mail.
LEMMA ExchangeStays ==
    ASSUME ServerInv, ClientInv, NEW s \in Own, ready[s] = "open", Exchange(s),
           room' = room, read' = read, Aside(s),
           \A ty : Has(outbox'[s], ty) => Has(outbox[s], ty),
           Ordered(outbox'[s]),
           Has(outbox[s], "chat") =>
             Has(outbox'[s], "chat") \/ ComesChat(sent'[s], read[s])
    PROVE  Exchange(s)'
<1> DEFINE k == read[s]
<1>1. s \in Sockets /\ k \in Nat /\ k <= Len(sent[s])
  BY ReadFits
<1>2. read'[s] = k
  OBVIOUS
<1> HIDE DEF k
<1>3. /\ Comes(sent'[s], k, s, "joined") <=> Comes(sent[s], k, s, "joined")
      /\ Comes(sent'[s], k, s, "quit") <=> Comes(sent[s], k, s, "quit")
      /\ ComesChat(sent[s], k) => ComesChat(sent'[s], k)
      /\ LastWord(sent[s], k, s) => LastWord(sent'[s], k, s)
  BY <1>1, AsideSays
<1>4. In(s)' <=> In(s)
  BY DEF Aside, In
<1>5. /\ Exchange(s)
      /\ Has(outbox[s], "chat") => Has(outbox'[s], "chat") \/ ComesChat(sent'[s], k)
  BY DEF k
<1>6. /\ room.status = "LoggedIn" =>
           /\ In(s)' /\ ~Has(outbox'[s], "logout")
           /\ ~Comes(sent'[s], k, s, "joined") /\ ~Comes(sent'[s], k, s, "quit")
      /\ Has(outbox'[s], "logout") => In(s)' /\ ~Comes(sent'[s], k, s, "joined")
      /\ Has(outbox'[s], "chat") => In(s)'
      /\ Comes(sent'[s], k, s, "joined") => In(s)'
      /\ LastWord(sent'[s], k, s)
      /\ room.pending > 0 => Has(outbox'[s], "chat") \/ ComesChat(sent'[s], k)
  BY <1>3, <1>4, <1>5 DEF Exchange, k
<1> QED BY <1>2, <1>6 DEF Exchange

\* The client stays as it is.
LEMMA ExchangeAside ==
    ASSUME ServerInv, ClientInv, NEW s \in Own, ready[s] = "open", Exchange(s),
           room' = room, read' = read, Aside(s), outbox'[s] = outbox[s]
    PROVE  Exchange(s)'
<1>1. Ordered(outbox'[s])
  BY DEF Exchange
<1> QED BY <1>1, ExchangeStays

\* The client sends m, or nothing.
LEMMA ExchangeSends ==
    ASSUME ServerInv, ClientInv, NEW s \in Own, ready[s] = "open", Exchange(s),
           UNCHANGED <<session, sent, read>>, NEW m \in Mail,
           outbox'[s] = outbox[s] \/ outbox'[s] = Append(outbox[s], m),
           room'.status = "LoggedIn" => room.status = "LoggedIn",
           room'.pending > 0 => room.pending > 0 \/ m.type = "chat",
           outbox'[s] = outbox[s] => (room'.pending > 0 => room.pending > 0),
           outbox'[s] # outbox[s] /\ m.type # "login" => room.status = "LoggedIn",
           outbox'[s] # outbox[s] /\ m.type = "logout" => room'.status # "LoggedIn",
           outbox'[s] # outbox[s] => m.type \in {"login", "logout", "chat"}
    PROVE  Exchange(s)'
<1>1. outbox[s] \in Seq(Mail)
  BY DEF ClientInv, ClientTypes
<1>2. In(s)' <=> In(s)
  BY DEF In
<1>3. CASE outbox'[s] = outbox[s]
  BY <1>2, <1>3 DEF Exchange
<1>4. CASE outbox'[s] # outbox[s]
  <2>1. outbox'[s] = Append(outbox[s], m)
    BY <1>4
  <2>2. /\ \A ty : Has(outbox'[s], ty) <=> Has(outbox[s], ty) \/ m.type = ty
        /\ Ordered(outbox[s]) /\ (Has(outbox[s], "logout") => m.type = "login")
             => Ordered(outbox'[s])
    BY <1>1, <2>1, MailAdded
  <2>3. m.type # "login" => room.status = "LoggedIn"
    BY <1>4
  <2>4. m.type = "logout" => room'.status # "LoggedIn"
    BY <1>4
  <2>5. Ordered(outbox'[s])
    BY <2>2, <2>3 DEF Exchange
  <2>6. room'.status = "LoggedIn" =>
          /\ In(s)' /\ ~Has(outbox'[s], "logout")
          /\ ~Comes(sent[s], read[s], s, "joined") /\ ~Comes(sent[s], read[s], s, "quit")
    BY <1>2, <2>2, <2>4 DEF Exchange
  <2>7. Has(outbox'[s], "logout") => In(s)' /\ ~Comes(sent[s], read[s], s, "joined")
    BY <1>2, <2>2, <2>3 DEF Exchange
  <2>8. Has(outbox'[s], "chat") => In(s)'
    BY <1>2, <2>2, <2>3 DEF Exchange
  <2>9. room'.pending > 0 => Has(outbox'[s], "chat") \/ ComesChat(sent[s], read[s])
    BY <2>2 DEF Exchange
  <2> QED BY <1>2, <2>5, <2>6, <2>7, <2>8, <2>9 DEF Exchange
<1> QED BY <1>3, <1>4

LEMMA ActsKeepExchange ==
    ASSUME ServerInv, ClientInv, NEW s \in Own, FirstFits(s), Exchange(s),
           ready[s] = "open", ready'[s] = "open", ClientActs, UNCHANGED vars
    PROVE  Exchange(s)'
<1>1. /\ ClientTypes /\ room \in RoomStates /\ StatusFits(room, known)
      /\ known \in Users \cup {NoUser} /\ signing \in SUBSET LoginMail
      /\ ready \in [Own -> {"none", "connecting", "open", "closing", "closed"}]
      /\ outbox \in [Own -> Seq(Mail)]
      /\ websocket = s /\ websocket # NoSocket
  BY OwnAssumption, FieldAssumption DEF ClientInv, ClientTypes, WiresFit
<1>2. UNCHANGED <<session, sent>> /\ room.step = "Connected"
  BY DEF vars, FirstFits
<1>3. /\ LogoutMessage \in Mail /\ LogoutMessage.type = "logout"
      /\ ChatMessage \in Mail /\ ChatMessage.type = "chat"
      /\ \A m \in LoginMail : m \in Mail /\ m.type = "login"
  BY DEF Mail, LogoutMessage, ChatMessage, LoginMail
<1>4. \A m : Sent(s, m)[s] = Append(outbox[s], m)
  BY <1>1 DEF Sent
<1>5. ~Stop
  BY <1>1 DEF Stop
<1>6. \A r \in Own : ~Start(r)
  BY <1>1 DEF Start
<1>7. ASSUME NEW u \in Users \cup {NoUser}, ChangeRegistration(u) PROVE Exchange(s)'
  <2>1. RegistrationChanges(known, u, s) /\ read' = read
    BY <1>1, <1>7 DEF ChangeRegistration
  <2>2. \/ room' = room /\ outbox' = outbox
        \/ OutOf(room, room') /\ outbox' = outbox
        \/ /\ OutOf(room, room') /\ room.status = "LoggedIn"
           /\ outbox' = Sent(s, LogoutMessage)
    BY <1>2, <2>1, RegistrationSays
  <2>3. /\ room'.status = "LoggedIn" => room.status = "LoggedIn"
        /\ room'.pending = room.pending
        /\ \/ outbox'[s] = outbox[s]
           \/ /\ room.status = "LoggedIn" /\ room'.status # "LoggedIn"
              /\ outbox'[s] = Append(outbox[s], LogoutMessage)
    BY <1>4, <2>2 DEF OutOf
  <2> QED BY <1>2, <1>3, <2>1, <2>3, ExchangeSends
<1>8. ASSUME NEW m \in signing, Signed(m) PROVE Exchange(s)'
  <2>1. outbox' = Sent(s, m) /\ UNCHANGED <<room, read>>
    BY <1>1, <1>8 DEF Signed
  <2>2. m \in Mail /\ m.type = "login"
    BY <1>1, <1>3
  <2> QED BY <1>2, <1>4, <2>1, <2>2, ExchangeSends
<1>9. CASE LogIn
  <2>1. LoginStarts(room, known) /\ UNCHANGED <<outbox, read>>
    BY <1>9 DEF LogIn
  <2>2. room' = room \/ OutOf(room, room')
    BY <1>1, <2>1, LoginStartsSays DEF Started
  <2>3. /\ room'.status = "LoggedIn" => room.status = "LoggedIn"
        /\ room'.pending = room.pending
    BY <2>2 DEF OutOf
  <2> QED BY <1>2, <1>3, <2>1, <2>3, ExchangeSends
<1>10. CASE SendMessage
  <2>1. /\ room.status = "LoggedIn" /\ room' = [room EXCEPT !.pending = @ + 1]
        /\ outbox' = Sent(s, ChatMessage) /\ read' = read
    BY <1>1, <1>10 DEF SendMessage
  <2>2. room'.status = room.status
    BY <1>1, <2>1 DEF RoomStates
  <2>3. outbox'[s] # outbox[s]
    <3>1. outbox[s] \in Seq(Mail)
      BY <1>1
    <3>2. Len(Append(outbox[s], ChatMessage)) # Len(outbox[s])
      BY <1>3, <3>1, AppendProperties
    <3> QED BY <1>4, <2>1, <3>2
  <2> QED BY <1>2, <1>3, <1>4, <2>1, <2>2, <2>3, ExchangeSends
<1> QED BY <1>5, <1>6, <1>7, <1>8, <1>9, <1>10 DEF ClientActs

\* The server takes the next mail of the client, and refuses no chat message.
LEMMA MailKeepsExchange ==
    ASSUME Platform = "bun", ServerInv, ClientInv, NEW s \in Own, Exchange(s),
           ready[s] = "open", conn[s] = "open", ServerReceives(s),
           <<s, "chat">> \notin refused'
    PROVE  Exchange(s)'
<1> DEFINE q == outbox[s]
           m == Head(q)
           k == read[s]
           a == sent[s]
<1>1. /\ q \in Seq(Mail) /\ s \in Sockets /\ a \in Seq(Frame) /\ k \in Nat /\ k <= Len(a)
      /\ session \in [Sockets -> Session] /\ outbox \in [Own -> Seq(Mail)]
      /\ room \in RoomStates
  BY ReadFits DEF ClientInv, ClientTypes, ServerInv, RoomInv, TypeOK
<1>2. /\ q # <<>> /\ outbox' = [outbox EXCEPT ![s] = Tail(@)]
      /\ UNCHANGED <<room, read>>
  BY DEF ServerReceives
<1>3. outbox'[s] = Tail(q)
  BY <1>1, <1>2
<1>4. /\ \A ty : Has(q, ty) <=> m.type = ty \/ Has(outbox'[s], ty)
      /\ Ordered(q) => Ordered(outbox'[s])
      /\ Ordered(q) /\ m.type = "logout" =>
           ~Has(outbox'[s], "logout") /\ ~Has(outbox'[s], "chat")
  BY <1>1, <1>2, <1>3, MailTaken
<1>5. Ordered(outbox'[s])
  BY <1>4 DEF Exchange
<1>6. \/ m.type = "login" /\ RequestLogin(s, m.user) /\ m.user \in Users
      \/ m.type = "logout" /\ Logout(s)
      \/ m.type = "chat" /\ \E now \in Clock : SendChat(s, now)
      \/ m.type \in {"logout", "chat"} /\ session[s].address = NoUser
      \/ m.type # "chat" /\ UNCHANGED vars
  <2>1. m \in Mail /\ (m.type = "login" => m.user \in Users)
    BY <1>2, HeadOfMail
  <2>2. m.type \in {"login", "logout", "chat"}
    BY <2>1 DEF Mail, LoginMail, LogoutMessage, ChatMessage
  <2> HIDE DEF m
  <2>3. \/ m.type = "login" /\ RequestLogin(s, m.user)
        \/ m.type = "logout" /\ Logout(s)
        \/ m.type = "chat" /\ \E now \in Clock : SendChat(s, now)
        \/ m.type # "login" /\ session[s].address = NoUser
        \/ refused' = refused \cup {<<s, m.type>>} /\ UNCHANGED vars
    BY DEF ServerReceives, Handle, Refuse, m
  <2> QED BY <2>1, <2>2, <2>3
<1>7. CASE m.type = "login" /\ RequestLogin(s, m.user) /\ m.user \in Users
  <2>1. Aside(s)
    BY <1>1, <1>7, TurnsAside
  <2>2. /\ \A ty : Has(outbox'[s], ty) => Has(outbox[s], ty)
        /\ Has(outbox[s], "chat") => Has(outbox'[s], "chat")
    BY <1>4, <1>7
  <2> QED BY <1>2, <1>5, <2>1, <2>2, ExchangeStays
<1>8. CASE m.type = "logout" /\ Logout(s)
  <2> DEFINE f == Quit({Who(s, session[s].address)})
             b == <<f>>
  <2>1. /\ session[s].address \in Users /\ Say(f)
        /\ session' = [session EXCEPT ![s].address = NoUser]
    BY <1>1, <1>8, LogoutSays DEF ServerInv
  <2>2. f \in Frame /\ f.type = "quit"
    BY <1>1, <2>1, NamedPresence
  <2>3. sent'[s] = a \o b
    BY <1>1, <2>1 DEF Say
  <2> HIDE DEF f
  <2>4. /\ b \in Seq(Frame) /\ ~Comes(b, 0, s, "joined") /\ LastWord(b, 0, s)
    <3>1. ~Speaks(f, s, "joined")
      BY <2>2 DEF Speaks
    <3> QED BY <2>2, <3>1, ComesOne
  <2> HIDE DEF a, b, k, q, m
  <2>5. /\ \A ty : Comes(a \o b, k, s, ty) <=> Comes(a, k, s, ty) \/ Comes(b, 0, s, ty)
        /\ ComesChat(a \o b, k) <=> ComesChat(a, k) \/ ComesChat(b, 0)
        /\ /\ LastWord(a, k, s) /\ LastWord(b, 0, s)
           /\ Comes(b, 0, s, "joined") \/ Comes(b, 0, s, "quit") => ~Comes(a, k, s, "joined")
           => LastWord(a \o b, k, s)
    BY <1>1, <2>4, ComesConcat
  <2>6. /\ Has(q, "logout") /\ ~Has(q, "chat")
        /\ ~Has(outbox'[s], "logout") /\ ~Has(outbox'[s], "chat")
    BY <1>4, <1>8 DEF Exchange, q
  <2>7. /\ room.status # "LoggedIn" /\ ~Comes(a, k, s, "joined")
        /\ LastWord(a, k, s)
        /\ room.pending > 0 => ComesChat(a, k)
    BY <2>6 DEF Exchange, q, a, k
  <2>8. /\ ~Comes(sent'[s], k, s, "joined") /\ LastWord(sent'[s], k, s)
        /\ room.pending > 0 => ComesChat(sent'[s], k)
    BY <2>3, <2>4, <2>5, <2>7
  <2>9. read'[s] = k
    BY <1>2 DEF k
  <2> QED BY <1>2, <1>5, <2>6, <2>7, <2>8, <2>9 DEF Exchange
<1>9. ASSUME m.type = "chat", NEW now \in Clock, SendChat(s, now) PROVE Exchange(s)'
  <2> DEFINE f == Chat(Stamp(now), session[s].address)
             b == <<f>>
  <2>1. f \in Message /\ Say(f)
    BY <1>1, <1>9, ChatSays DEF ServerInv
  <2>2. sent'[s] = a \o b
    BY <1>1, <2>1 DEF Say
  <2> HIDE DEF f
  <2>3. f \in Frame /\ f.type = "chat"
    BY <2>1, FrameTypes DEF Message
  <2>4. b \in Seq(Frame) /\ ComesChat(b, 0)
    BY <2>3, ComesOne
  <2> HIDE DEF a, b, k
  <2>5. ComesChat(a \o b, k)
    BY <1>1, <2>4, ComesConcat
  <2>6. Aside(s)
    BY <1>1, <1>9, TurnsAside
  <2>7. /\ \A ty : Has(outbox'[s], ty) => Has(outbox[s], ty)
        /\ ComesChat(sent'[s], read[s])
    BY <1>4, <2>2, <2>5 DEF k
  <2> QED BY <1>2, <1>5, <2>6, <2>7, ExchangeStays
<1>10. ~(m.type \in {"logout", "chat"} /\ session[s].address = NoUser)
  BY <1>4 DEF Exchange, In
<1>11. CASE m.type # "chat" /\ UNCHANGED vars
  <2>1. Aside(s)
    BY <1>1, <1>11, TurnsAside
  <2>2. /\ \A ty : Has(outbox'[s], ty) => Has(outbox[s], ty)
        /\ Has(outbox[s], "chat") => Has(outbox'[s], "chat")
    BY <1>4, <1>11
  <2> QED BY <1>2, <1>5, <2>1, <2>2, ExchangeStays
<1> QED BY <1>6, <1>7, <1>8, <1>9, <1>10, <1>11

\* An account of which the client was told stays one.
LEMMA AccountsGrow ==
    ASSUME ServerInv, NEW s \in Sockets, NEW more \in Seq(Frame), sent'[s] = sent[s] \o more
    PROVE  Accounts(s) \subseteq Accounts(s)'
<1> DEFINE a == sent[s]
<1>1. a \in Seq(Frame)
  BY DEF ServerInv, RoomInv, TypeOK
<1> HIDE DEF a
<1>2. \A i \in DOMAIN a : i \in DOMAIN (a \o more) /\ (a \o more)[i] = a[i]
  <2>1. /\ Len(a) \in Nat /\ Len(more) \in Nat /\ DOMAIN a = 1..Len(a)
        /\ DOMAIN (a \o more) = 1..(Len(a) + Len(more))
        /\ \A i \in 1..Len(a) : (a \o more)[i] = a[i]
    BY <1>1, Concat
  <2> QED BY <2>1
<1>3. sent'[s] = a \o more
  BY DEF a
<1> DEFINE c == a \o more
<1> HIDE DEF c
<1>4. ASSUME NEW u \in Users, NEW i \in DOMAIN a, a[i].type = "joined", Who(s, u) \in a[i].who
      PROVE  i \in DOMAIN c /\ c[i].type = "joined" /\ Who(s, u) \in c[i].who
  BY <1>2, <1>4 DEF c
<1>5. ASSUME NEW u \in Accounts(s) PROVE u \in Accounts(s)'
  <2>1. PICK i \in DOMAIN a : a[i].type = "joined" /\ Who(s, u) \in a[i].who
    BY <1>5 DEF Accounts, a
  <2>2. u \in Users /\ i \in DOMAIN c /\ c[i].type = "joined" /\ Who(s, u) \in c[i].who
    BY <1>4, <1>5, <2>1 DEF Accounts
  <2>3. sent'[s] = c
    BY <1>3 DEF c
  <2> QED BY <2>2, <2>3 DEF Accounts
<1> QED BY <1>5

\* A login of the session ends.
LEMMA LoginKeepsExchange ==
    ASSUME Platform = "bun", ServerInv, ClientInv, NEW s \in Own, Exchange(s),
           ready[s] = "open", conn[s] = "open", UNCHANGED clientVars,
           NEW t \in logins, t.socket = s, LoginOpenRoom(t), OneAccount(s)'
    PROVE  Exchange(s)'
<1> DEFINE a   == sent[s]
           k   == read[s]
           old == session[s].address
           f   == Quit({Who(s, old)})
           g   == Joined({Who(s, t.user)})
           b   == <<g>>
<1>1. /\ s \in Sockets /\ s \in Connected /\ a \in Seq(Frame) /\ k \in Nat /\ k <= Len(a)
      /\ session \in [Sockets -> Session]
  BY ReadFits DEF Connected, ServerInv, RoomInv, TypeOK
<1>2. /\ s \in sessions /\ t.user \in Users /\ old \in Users \cup {NoUser} /\ old # t.user
      /\ session' = [session EXCEPT ![s].address = t.user] /\ conn' = conn
      /\ old = NoUser => Say(g)
      /\ old # NoUser => SayTwo(f, g)
  BY LoginSays DEF ServerInv
<1>3. g \in Frame /\ g.type = "joined" /\ g.who = {Who(s, t.user)}
  BY <1>1, <1>2, NamedPresence
<1>4. session'[s].address = t.user
  BY <1>1, <1>2 DEF Session
<1>5. old = NoUser
  <2> SUFFICES ASSUME old # NoUser PROVE FALSE
    OBVIOUS
  <2>1. Announced(sent[s], Who(s, old))
    BY <1>1, <1>2, RollCall
  <2>2. old \in Accounts(s)
    BY <1>2, <2>1 DEF Announced, Accounts
  <2>3. f \in Frame /\ SayTwo(f, g)
    BY <1>1, <1>2, NamedPresence
  <2> HIDE DEF f, g
  <2>4. Announced(sent'[s], Who(s, t.user))
    <3> DEFINE mid == a \o <<f>>
    <3>1. mid \in Seq(Frame) /\ sent'[s] = mid \o <<g>>
      BY <1>1, <2>3, FrameAdded DEF SayTwo, Connected
    <3> HIDE DEF mid
    <3>2. Announced(mid \o <<g>>, Who(s, t.user))
      BY <1>3, <3>1, FrameAdded
    <3> QED BY <3>1, <3>2
  <2>5. t.user \in Accounts(s)'
    BY <1>2, <2>4 DEF Announced, Accounts
  <2>6. Accounts(s) \subseteq Accounts(s)'
    <3>1. PICK more \in Seq(Frame) : sent'[s] = sent[s] \o more
      BY <1>1, <1>3, <2>3, SaidGrows
    <3> QED BY <1>1, <3>1, AccountsGrow
  <2> QED BY <1>2, <2>2, <2>5, <2>6 DEF OneAccount
<1>6. sent'[s] = a \o b
  BY <1>1, <1>2, <1>5 DEF Say
<1>7. ~In(s) /\ In(s)'
  BY <1>2, <1>4, <1>5, NoUserAssumption DEF In
<1> HIDE DEF g
<1>8. b \in Seq(Frame) /\ ~Comes(b, 0, s, "quit") /\ LastWord(b, 0, s)
  <2>1. ~Speaks(g, s, "quit")
    BY <1>3 DEF Speaks
  <2> QED BY <1>3, <2>1, ComesOne
<1>9. /\ room.status # "LoggedIn" /\ ~Has(outbox[s], "logout") /\ ~Has(outbox[s], "chat")
      /\ ~Comes(a, k, s, "joined") /\ LastWord(a, k, s) /\ Ordered(outbox[s])
      /\ room.pending > 0 => ComesChat(a, k)
  BY <1>7 DEF Exchange
<1>10. UNCHANGED <<room, outbox, read>>
  BY DEF clientVars
<1>11. read'[s] = k
  BY <1>10
<1> HIDE DEF a, k, b
<1>12. /\ ComesChat(a \o b, k) <=> ComesChat(a, k) \/ ComesChat(b, 0)
       /\ /\ LastWord(a, k, s) /\ LastWord(b, 0, s)
          /\ Comes(b, 0, s, "joined") \/ Comes(b, 0, s, "quit") => ~Comes(a, k, s, "joined")
          => LastWord(a \o b, k, s)
  BY <1>1, <1>8, ComesConcat
<1>13. /\ LastWord(sent'[s], k, s)
       /\ room.pending > 0 => ComesChat(sent'[s], k)
  BY <1>6, <1>8, <1>9, <1>12
<1> QED BY <1>7, <1>9, <1>10, <1>11, <1>13 DEF Exchange

\* The connection opens.
LEMMA OpenBegins ==
    ASSUME Platform = "bun", ServerInv, ClientInv, NEW s \in Own, FirstFits(s),
           OnOpened(s), Open(s)
    PROVE  Exchange(s)'
<1>1. s \in Sockets /\ s \notin sessions /\ RoomInv
  <2>1. s \in Sockets
    BY OwnAssumption
  <2>2. conn[s] = "new"
    BY DEF Open
  <2> QED BY <2>1, <2>2 DEF ServerInv, RoomInv, RosterInvariant
<1>2. PICK frames \in Seq(Frame) :
        /\ sent' = [sent EXCEPT ![s] = frames]
        /\ \A i \in DOMAIN frames :
             /\ frames[i].type # "quit"
             /\ frames[i].type = "joined" => \A p \in frames[i].who : p.id \in sessions
  BY <1>1, OpenSays
<1>3. sent'[s] = frames
  BY <1>1, <1>2 DEF RoomInv, TypeOK
<1>4. room'.pending = 0 /\ room'.status # "LoggedIn" /\ read' = read
  BY OnOpenedFits
<1>5. outbox'[s] = <<>>
  BY DEF OnOpened, FirstFits
<1>6. \A k : ~Comes(frames, k, s, "joined") /\ LastWord(frames, k, s)
  BY <1>1, <1>2 DEF Comes, Speaks, LastWord
<1>7. (\A ty : ~Has(outbox'[s], ty)) /\ Ordered(outbox'[s])
  <2>1. DOMAIN outbox'[s] = {}
    BY <1>5
  <2> QED BY <2>1 DEF Has, Ordered
<1> QED BY <1>3, <1>4, <1>6, <1>7 DEF Exchange

\* The client receives the next frame.
LEMMA MessageKeepsExchange ==
    ASSUME ServerInv, ClientInv, NEW s \in Own, FirstFits(s), Exchange(s),
           OnMessage(s), UNCHANGED vars
    PROVE  Exchange(s)'
<1> DEFINE a == sent[s]
           k == read[s]
           n == k + 1
           f == a[n]
<1>1. /\ ready[s] = "open" /\ k < Len(a) /\ read' = [read EXCEPT ![s] = @ + 1]
      /\ outbox' = outbox /\ Heard(f, s)
  BY MessageFits, MessageSays
<1>2. /\ a \in Seq(Frame) /\ k \in Nat /\ read \in [Own -> Nat]
      /\ room \in RoomStates /\ room' \in RoomStates
  BY <1>1, ReadFits, MessageFits DEF ClientInv, ClientTypes, Handles
<1>3. read'[s] = n /\ sent' = sent /\ session' = session
  BY <1>1, <1>2 DEF vars
<1> HIDE DEF n
<1>4. /\ \A ty : Comes(a, k, s, ty) <=> Speaks(f, s, ty) \/ Comes(a, n, s, ty)
      /\ ComesChat(a, k) <=> f.type = "chat" \/ ComesChat(a, n)
      /\ LastWord(a, k, s) => LastWord(a, n, s)
      /\ LastWord(a, k, s) /\ Speaks(f, s, "joined") =>
           ~Comes(a, n, s, "joined") /\ ~Comes(a, n, s, "quit")
  BY <1>1, <1>2, ComesTaken DEF n
<1> HIDE DEF a, k, f
<1>5. /\ room.status = "LoggedIn" =>
           /\ In(s) /\ ~Has(outbox[s], "logout")
           /\ ~Comes(a, k, s, "joined") /\ ~Comes(a, k, s, "quit")
      /\ Has(outbox[s], "logout") => In(s) /\ ~Comes(a, k, s, "joined")
      /\ Ordered(outbox[s])
      /\ Has(outbox[s], "chat") => In(s)
      /\ Comes(a, k, s, "joined") => In(s)
      /\ LastWord(a, k, s)
      /\ room.pending > 0 => Has(outbox[s], "chat") \/ ComesChat(a, k)
  BY DEF Exchange, a, k
<1>6. room.step = "Connected" /\ room.session \in {NoSocket, Undefined, s}
  BY <1>1 DEF FirstFits
<1>7. room'.status = "LoggedIn" => room.status = "LoggedIn" \/ Speaks(f, s, "joined")
  <2>1. room.session \in Own => room.session = s
    BY <1>6, OwnAssumption, FieldAssumption
  <2> QED BY <1>1, <2>1 DEF Heard, Speaks
<1>8. room'.status = "LoggedIn" =>
        /\ In(s) /\ ~Has(outbox[s], "logout")
        /\ ~Comes(a, n, s, "joined") /\ ~Comes(a, n, s, "quit")
  BY <1>4, <1>5, <1>7
<1>9. room'.pending > 0 => Has(outbox[s], "chat") \/ ComesChat(a, n)
  <2>1. room'.pending > 0 => room.pending > 0 /\ f.type # "chat"
    BY <1>1, <1>2, <1>6 DEF Heard, RoomStates
  <2> QED BY <1>4, <1>5, <2>1
<1>10. In(s)' <=> In(s)
  BY <1>3 DEF In
<1>11. sent'[s] = a /\ outbox'[s] = outbox[s]
  BY <1>1, <1>3 DEF a
<1>12. /\ Has(outbox[s], "logout") => ~Comes(a, n, s, "joined")
       /\ Comes(a, n, s, "joined") => In(s)
       /\ LastWord(a, n, s)
  BY <1>4, <1>5
<1> QED BY <1>3, <1>5, <1>8, <1>9, <1>10, <1>11, <1>12 DEF Exchange

\* A connection that has broken does not open again.
LEMMA NoneReopens ==
    ASSUME Platform = "bun", ServerInv, [Next]_vars, NEW s \in Sockets, conn'[s] = "open"
    PROVE  conn[s] \in {"new", "open"}
<1>1. conn \in [Sockets -> {"new", "open", "leaving", "closed"}]
  BY DEF ServerInv, RoomInv, TypeOK
<1>2. CASE conn' = conn
  BY <1>2
<1>3. ASSUME NEW r \in Sockets, Open(r) \/ Disconnect(r) \/ CloseEvent(r)
      PROVE  conn[s] \in {"new", "open"}
  BY <1>1, <1>3 DEF Open, Disconnect, CloseEvent
<1>4. ASSUME NEW r \in Sockets,
             Logout(r) \/ (\E u \in Users : RequestLogin(r, u))
             \/ (\E now \in Clock : SendChat(r, now))
      PROVE  conn' = conn
  BY <1>4 DEF Logout, RequestLogin, SendChat
<1>5. ASSUME NEW t \in logins,
             LoginFails(t) \/ LoginRepeats(t) \/ LoginOpenRoom(t) \/ LoginGatedRoom(t)
             \/ ChainRefuses(t) \/ ChainPasses(t)
      PROVE  conn' = conn
  BY <1>5 DEF LoginFails, LoginRepeats, LoginOpenRoom, LoginGatedRoom, ChainRefuses,
              ChainPasses
<1>6. Hibernate \/ UNCHANGED vars => conn' = conn
  BY DEF Hibernate, vars
<1> QED BY <1>2, <1>3, <1>4, <1>5, <1>6 DEF Next

LEMMA ExchangeStep ==
    ASSUME Platform = "bun", ServerInv, ClientInv, FirstsFit, Exchanges,
           [SystemNext]_systemVars
    PROVE  Exchanges'
<1> SUFFICES ASSUME NEW s \in Own, ready'[s] = "open", conn'[s] = "open", First(s)',
                    OneAccount(s)', <<s, "chat">> \notin refused'
             PROVE  Exchange(s)'
  BY DEF Exchanges
<1>1. /\ First(s) /\ FirstFits(s) /\ s \in Sockets
      /\ ready \in [Own -> {"none", "connecting", "open", "closing", "closed"}]
      /\ outbox \in [Own -> Seq(Mail)]
      /\ conn \in [Sockets -> {"new", "open", "leaving", "closed"}]
      /\ [Next]_vars /\ Grows /\ <<s, "chat">> \notin refused
  BY FirstStays, OwnAssumption, SystemTurns, ServerGrows, RefusedStays
     DEF FirstsFit, ClientInv, ClientTypes, ServerInv, RoomInv, TypeOK
<1>2. CASE OnOpened(s) /\ Open(s)
  BY <1>1, <1>2, OpenBegins
<1>3. CASE ~(OnOpened(s) /\ Open(s))
  <2>1. ready[s] = "open" /\ \A r \in Own : r # s => ready[r] = "none"
    <3>1. ASSUME NEW r \in Own, OnClosed(r) PROVE ready[s] = "open"
      BY <1>1, <3>1 DEF OnClosed
    <3>2. ASSUME NEW r \in Own, OnOpened(r), Open(r) PROVE ready[s] = "open"
      BY <1>1, <1>3, <3>2 DEF OnOpened
    <3>3. ASSUME NEW r \in Own, OnMessage(r) PROVE ready[s] = "open"
      BY <3>3 DEF OnMessage
    <3>4. Rewired => ready[s] = "open"
      BY DEF Rewired
    <3>5. ready[s] = "open"
      BY <3>1, <3>2, <3>3, <3>4, SystemTurns DEF Calm
    <3> QED BY <1>1, <3>5 DEF First
  <2>2. conn[s] # "new" /\ websocket = s
    BY <2>1 DEF ClientInv, WiresFit
  <2>3. PICK more \in Seq(Frame) : sent'[s] = sent[s] \o more
    BY <1>1, <2>2 DEF Grows
  <2>4. OneAccount(s)
    BY <1>1, <2>3, AccountsGrow DEF OneAccount
  <2>5. ~CloseEvent(s)
    BY <1>1, CloseSays DEF ServerInv
  <2>6. conn[s] = "open" /\ Exchange(s)
    <3>1. conn[s] = "open"
      BY <1>1, <2>2, NoneReopens
    <3> QED BY <1>1, <2>1, <2>4, <3>1 DEF Exchanges
  <2>7. ASSUME UNCHANGED clientVars, Aside(s) PROVE Exchange(s)'
    BY <2>1, <2>6, <2>7, ExchangeAside DEF clientVars
  <2>8. CASE ClientActs /\ UNCHANGED vars
    BY <1>1, <2>1, <2>6, <2>8, ActsKeepExchange
  <2>9. ASSUME NEW r \in Sockets, Opens(r) PROVE Exchange(s)'
    <3>1. r # s /\ Open(r)
      BY <2>2, <2>6, <2>9 DEF Opens, Open
    <3>2. r \notin Own
      BY <2>1, <2>9, <3>1 DEF Opens, OnOpened
    <3>3. UNCHANGED clientVars
      BY <2>9, <3>2 DEF Opens
    <3>4. Aside(s)
      BY <1>1, <3>1, TurnsAside
    <3> QED BY <2>7, <3>3, <3>4
  <2>10. ASSUME NEW r \in Own, Breaks(r) PROVE Exchange(s)'
    <3>1. Disconnect(r) /\ UNCHANGED clientVars /\ r \in Sockets
      BY <2>10, OwnAssumption DEF Breaks
    <3>2. Aside(s)
      BY <1>1, <3>1, TurnsAside
    <3> QED BY <2>7, <3>1, <3>2
  <2>11. ASSUME NEW r \in Own, ServerCloses(r) PROVE Exchange(s)'
    <3>1. /\ CloseEvent(r) /\ r # s /\ r \in Sockets
          /\ outbox' = [outbox EXCEPT ![r] = <<>>] /\ UNCHANGED <<room, read>>
      BY <2>5, <2>11, OwnAssumption DEF ServerCloses
    <3>2. outbox'[s] = outbox[s]
      BY <1>1, <3>1
    <3>3. Aside(s)
      BY <1>1, <3>1, TurnsAside
    <3> QED BY <2>1, <2>6, <3>1, <3>2, <3>3, ExchangeAside
  <2>12. ASSUME NEW r \in Own, ServerReceives(r) PROVE Exchange(s)'
    <3>1. CASE r = s
      BY <2>1, <2>6, <2>12, <3>1, MailKeepsExchange
    <3>2. CASE r # s
      <4> DEFINE m == Head(outbox[r])
      <4>1. /\ outbox[r] # <<>> /\ outbox' = [outbox EXCEPT ![r] = Tail(@)]
            /\ UNCHANGED <<room, read>>
            /\ \/ m.type = "login" /\ RequestLogin(r, m.user)
               \/ Logout(r)
               \/ \E now \in Clock : SendChat(r, now)
               \/ UNCHANGED vars
        BY <2>12 DEF ServerReceives, Handle, Refuse
      <4>2. r \in Sockets /\ (m.type = "login" => m.user \in Users)
        BY <4>1, HeadOfMail, OwnAssumption
      <4> HIDE DEF m
      <4>3. Aside(s)
        BY <1>1, <3>2, <4>1, <4>2, TurnsAside
      <4>4. outbox'[s] = outbox[s]
        BY <1>1, <3>2, <4>1
      <4> QED BY <2>1, <2>6, <4>1, <4>3, <4>4, ExchangeAside
    <3> QED BY <3>1, <3>2
  <2>13. ASSUME NEW r \in Own, ClientCloses(r) PROVE Exchange(s)'
    <3>1. ready[r] \in {"closing", "open"} /\ ready' = [ready EXCEPT ![r] = "closed"]
      BY <2>13 DEF ClientCloses, OnClosed
    <3> QED BY <1>1, <2>1, <3>1
  <2>14. ASSUME NEW r \in Own, OnMessage(r), UNCHANGED vars PROVE Exchange(s)'
    <3>1. r = s
      BY <2>1, <2>14 DEF OnMessage
    <3> QED BY <1>1, <2>6, <2>14, <3>1, MessageKeepsExchange
  <2>15. ASSUME NEW r \in Peers, PeerActs(r) PROVE Exchange(s)'
    <3>1. r \in Sockets \ {s} /\ UNCHANGED clientVars
      BY <2>15 DEF Peers, PeerActs
    <3>2. Logout(r) \/ \E u \in Users : RequestLogin(r, u)
      BY <2>15 DEF PeerActs
    <3>3. Aside(s)
      BY <1>1, <3>1, <3>2, TurnsAside
    <3> QED BY <2>7, <3>1, <3>3
  <2>16. ASSUME NEW t \in logins, LoginEnds(t) PROVE Exchange(s)'
    <3>1. /\ LoginFails(t) \/ LoginRepeats(t) \/ LoginOpenRoom(t)
          /\ UNCHANGED clientVars
      BY <2>16 DEF LoginEnds
    <3>2. CASE t.socket = s /\ LoginOpenRoom(t)
      BY <2>1, <2>6, <3>1, <3>2, LoginKeepsExchange
    <3>3. CASE ~(t.socket = s /\ LoginOpenRoom(t))
      <4>1. Aside(s)
        BY <1>1, <3>1, <3>3, TurnsAside
      <4> QED BY <2>7, <3>1, <4>1
    <3> QED BY <3>2, <3>3
  <2>17. CASE UNCHANGED systemVars
    <3>1. UNCHANGED vars /\ UNCHANGED clientVars
      BY <2>17 DEF systemVars
    <3>2. Aside(s)
      BY <1>1, <3>1, TurnsAside
    <3> QED BY <2>7, <3>1, <3>2
  <2> QED BY <2>8, <2>9, <2>10, <2>11, <2>12, <2>13, <2>14, <2>15, <2>16, <2>17
          DEF SystemNext, ClientActs
<1> QED BY <1>2, <1>3

\* On the first connection a message that the client shows as pending is under
\* way, or its echo is, when the room has told the client of one account of its
\* session and the server has refused none: with all handled, none is pending.
THEOREM MessagesAreEchoed ==
    ASSUME Platform = "bun"
    PROVE  SystemSpec => []NothingLeftPending
<1> DEFINE Inv == ServerInv /\ ClientInv /\ FirstsFit /\ Exchanges
<1>1. SystemInit => Inv
  <2> SUFFICES ASSUME SystemInit PROVE FirstsFit /\ Exchanges
    BY SystemStarts
  <2>1. FirstsFit
    BY DEF SystemInit, ClientInit, Connecting, FirstsFit, FirstFits
  <2>2. Exchanges
    BY DEF SystemInit, ClientInit, Exchanges
  <2> QED BY <2>1, <2>2
<1>2. Inv /\ [SystemNext]_systemVars => Inv'
  BY ClientStep, FirstsFitStep, ExchangeStep
<1>3. Inv => NothingLeftPending
  <2> SUFFICES ASSUME Inv, NEW s \in Own, Quiet(s), First(s),
                      \A u, v \in Accounts(s) : u = v, <<s, "chat">> \notin refused
               PROVE  room.pending = 0
    BY DEF NothingLeftPending
  <2>1. /\ ready[s] = "open" /\ conn[s] = "open" /\ read[s] = Len(sent[s])
        /\ outbox[s] = <<>>
    BY DEF Quiet, UpToDate
  <2>2. Exchange(s)
    BY <2>1 DEF Exchanges, OneAccount
  <2>3. room.pending \in Nat
    BY DEF ClientInv, ClientTypes, RoomStates
  <2>4. ~ComesChat(sent[s], read[s])
    <3>1. sent[s] \in Seq(Frame)
      BY <2>1, ReadFits
    <3>2. \A i \in DOMAIN sent[s] : ~(i > Len(sent[s]))
      BY <3>1, LenProperties
    <3> QED BY <2>1, <3>2 DEF ComesChat
  <2>5. ~Has(outbox[s], "chat")
    <3>1. DOMAIN outbox[s] = {}
      BY <2>1
    <3> QED BY <3>1 DEF Has
  <2>6. ~(room.pending > 0)
    BY <2>2, <2>4, <2>5 DEF Exchange
  <2> QED BY <2>3, <2>6
<1> HIDE DEF Inv
<1> QED BY <1>1, <1>2, <1>3, PTL DEF SystemSpec

-----------------------------------------------------------------------------
(* The login of the first connection. *)

\* While the registration has not changed but from none to an account, the
\* account that the client knows is the one registered, and its room has it.
Steady == steady /\ known # NoUser => known = registration /\ room.address = known

\* A login runs to its end before another comes.
OneLogin == \A t, q \in logins : t = q

LEMMA AutoLoginKeepsAddress ==
    ASSUME ClientTypes, NEW r \in RoomStates, NEW u \in Users \cup {NoUser},
           NEW waiting \in BOOLEAN, AutoLogin(r, u, waiting)
    PROVE  room'.address \in {r.address, u}
<1>1. CASE savedSession = NoSocket
  BY <1>1 DEF AutoLogin
<1>2. CASE savedSession # NoSocket
  <2>1. LoginStarts(r, u)
    BY <1>2 DEF AutoLogin
  <2>2. room' = r \/ (u \in Users /\ savedSession \in Own /\ room' = LoggedOut(r, u, savedSession))
    BY <2>1, LoginStartsFits
  <2>3. u \in Users /\ savedSession \in Own => LoggedOut(r, u, savedSession).address = u
    BY <1>2, LoggedOutIs
  <2> QED BY <2>2, <2>3
<1> QED BY <1>1, <1>2

\* An account that comes is the one that the room shows.
LEMMA RegistrationKeepsAddress ==
    ASSUME ClientInv, NEW u \in Users, NEW s, RegistrationChanges(known, u, s),
           known = NoUser \/ (known = u /\ room.address = u)
    PROVE  room'.address = u
<1>1. /\ ClientTypes /\ room \in RoomStates /\ loginOnChallengeReceived \in BOOLEAN
      /\ u # NoUser /\ SavedField \in Own \cup {NoSocket, Undefined}
  BY SavedFieldType, NoUserAssumption DEF ClientInv, ClientTypes
<1>2. CASE known = u
  BY <1>1, <1>2 DEF RegistrationChanges
<1>3. CASE known = NoUser
  <2> DEFINE out == LoggedOut(room, u, SavedField)
  <2>1. out \in RoomStates /\ out.address = u
    BY <1>1, LoggedOutIs DEF OutOf
  <2> HIDE DEF out
  <2>2. \/ room' = Connecting(u)
        \/ AutoLogin(out, u, loginOnChallengeReceived)
    BY <1>1, <1>3 DEF RegistrationChanges, out
  <2>3. CASE room' = Connecting(u)
    BY <2>3 DEF Connecting
  <2>4. CASE AutoLogin(out, u, loginOnChallengeReceived)
    BY <1>1, <2>1, <2>4, AutoLoginKeepsAddress
  <2> QED BY <2>2, <2>3, <2>4
<1> QED BY <1>2, <1>3

LEMMA SteadyStep ==
    ASSUME ServerInv, ClientInv, Steady, [SystemNext]_systemVars, steady'
    PROVE  /\ steady /\ (known' = known \/ known = NoUser)
           /\ known' # NoUser => known' = registration' /\ room'.address = known'
<1> DEFINE Same == /\ steady /\ (known' = known \/ known = NoUser)
                   /\ known' # NoUser => known' = registration' /\ room'.address = known'
<1> SUFFICES Same
  OBVIOUS
<1>1. ASSUME UNCHANGED <<registration, known, steady>>, room'.address \in {room.address, known}
      PROVE  Same
  BY <1>1 DEF Steady
<1>2. /\ ClientTypes /\ known \in Users \cup {NoUser} /\ room.address \in Users \cup {NoUser}
      /\ registration \in Users \cup {NoUser} /\ room \in RoomStates
      /\ loginOnChallengeReceived \in BOOLEAN
  BY DEF ClientInv, ClientTypes, RoomStates
<1>3. UNCHANGED <<clientVars, steady>> => Same
  BY <1>1 DEF clientVars
<1>4. ASSUME NEW s \in Own, OnOpened(s), steady' = steady PROVE Same
  <2> DEFINE q == [Connecting(room.address) EXCEPT
                     !.step = "Connected",
                     !.status = IF room.address = NoUser THEN "NoAccount" ELSE "LoggedOut"]
  <2>1. /\ IF room.address = NoUser
             THEN room' = q
             ELSE AutoLogin(q, known, loginOnChallengeReceived)
        /\ UNCHANGED <<registration, known>>
    BY <1>4 DEF OnOpened
  <2>2. q \in RoomStates /\ q.address = room.address
    BY <1>2 DEF Connecting, NoUsers, RoomStates
  <2> HIDE DEF q
  <2>3. room'.address \in {room.address, known}
    BY <1>2, <2>1, <2>2, AutoLoginKeepsAddress
  <2> QED BY <1>1, <1>4, <2>1, <2>3
<1>5. CASE ClientActs
  <2>1. steady /\ (registration = NoUser \/ registration' = registration) /\ steady' = steady
    BY <1>5 DEF ClientActs
  <2>2. ASSUME Stop \/ \E m \in signing : Signed(m) PROVE Same
    BY <1>1, <2>1, <2>2 DEF Stop, Signed
  <2>3. CASE LogIn
    <3>1. LoginStarts(room, known) /\ UNCHANGED <<registration, known>>
      BY <2>3 DEF LogIn
    <3>2. room' = room \/ (known \in Users /\ savedSession \in Own
                           /\ room' = LoggedOut(room, known, savedSession))
      BY <1>2, <3>1, LoginStartsFits
    <3>3. known \in Users /\ savedSession \in Own =>
            LoggedOut(room, known, savedSession).address = known
      BY <1>2, LoggedOutIs
    <3> QED BY <1>1, <2>1, <3>1, <3>2, <3>3
  <2>4. CASE SendMessage
    <3>1. room' = [room EXCEPT !.pending = @ + 1] /\ UNCHANGED <<registration, known>>
      BY <2>4 DEF SendMessage
    <3>2. room'.address = room.address
      BY <1>2, <3>1 DEF RoomStates
    <3> QED BY <1>1, <2>1, <3>1, <3>2
  <2>5. ASSUME NEW s \in Own, Start(s) PROVE Same
    <3>1. /\ RegistrationChanges(known, registration, s) /\ known' = registration
          /\ registration' = registration
      BY <2>5 DEF Start
    <3>2. known # NoUser => known = registration /\ room.address = known
      BY <2>1 DEF Steady
    <3>3. registration \in Users => room'.address = registration
      BY <1>2, <3>1, <3>2, RegistrationKeepsAddress
    <3> QED BY <1>2, <2>1, <3>1, <3>2, <3>3
  <2>6. ASSUME NEW u \in Users \cup {NoUser}, ChangeRegistration(u) PROVE Same
    <3>1. registration # u /\ registration' = u
      BY <2>6 DEF ChangeRegistration
    <3>2. registration = NoUser /\ u \in Users
      BY <2>1, <3>1
    <3>3. known = NoUser
      BY <2>1, <3>2 DEF Steady
    <3>4. CASE websocket = NoSocket
      <4>1. known' = known
        BY <2>6, <3>4 DEF ChangeRegistration
      <4> QED BY <2>1, <3>3, <4>1
    <3>5. CASE websocket # NoSocket
      <4>1. known' = u /\ RegistrationChanges(known, u, websocket)
        BY <2>6, <3>5 DEF ChangeRegistration
      <4>2. room'.address = u
        BY <3>2, <3>3, <4>1, RegistrationKeepsAddress
      <4> QED BY <2>1, <3>1, <3>3, <4>1, <4>2
    <3> QED BY <3>4, <3>5
  <2> HIDE DEF Same
  <2> QED BY <1>5, <2>2, <2>3, <2>4, <2>5, <2>6 DEF ClientActs
<1>6. ASSUME NEW s \in Sockets, Opens(s) PROVE Same
  BY <1>3, <1>4, <1>6 DEF Opens
<1>7. ASSUME NEW s \in Own, Breaks(s) \/ ServerCloses(s) \/ ServerReceives(s) PROVE Same
  BY <1>1, <1>7 DEF Breaks, ServerCloses, ServerReceives, clientVars
<1>8. ASSUME NEW s \in Own, ClientCloses(s) PROVE Same
  BY <1>1, <1>8 DEF ClientCloses, OnClosed, Connecting
<1>9. ASSUME NEW s \in Own, OnMessage(s), steady' = steady PROVE Same
  <2>1. UNCHANGED <<registration, known>> /\ Heard(sent[s][read[s] + 1], s)
    BY <1>9, MessageFits, MessageSays
  <2>2. room'.address \in {room.address, known}
    BY <2>1 DEF Heard
  <2> QED BY <1>1, <1>9, <2>1, <2>2
<1>10. ASSUME (\E s \in Peers : PeerActs(s)) \/ (\E t \in logins : LoginEnds(t))
              \/ UNCHANGED systemVars
       PROVE  Same
  <2>1. UNCHANGED <<clientVars, steady>>
    BY <1>10 DEF PeerActs, LoginEnds, systemVars
  <2> QED BY <1>3, <2>1
<1> HIDE DEF Same
<1> QED BY <1>5, <1>6, <1>7, <1>8, <1>9, <1>10 DEF SystemNext

LEMMA OneLoginStep ==
    ASSUME OneLogin, [SystemNext]_systemVars
    PROVE  OneLogin'
<1>1. ASSUME logins = {}, logins' = logins \/ \E q : logins' = logins \cup {q} PROVE OneLogin'
  BY <1>1 DEF OneLogin
<1>2. ASSUME NEW t \in logins, LoginEnds(t) PROVE OneLogin'
  <2>1. logins' = logins \ {t}
    BY <1>2 DEF LoginEnds, LoginFails, LoginRepeats, LoginOpenRoom
  <2> QED BY <2>1 DEF OneLogin
<1>3. CASE UNCHANGED systemVars
  BY <1>3 DEF systemVars, vars, OneLogin
<1>4. CASE ClientActs
  BY <1>4 DEF ClientActs, vars, OneLogin
<1>5. ASSUME NEW s \in Sockets, Opens(s) PROVE logins' = logins
  BY <1>5 DEF Opens, Open
<1>6. ASSUME NEW s \in Own, Breaks(s) \/ ServerCloses(s) PROVE logins' = logins
  BY <1>6 DEF Breaks, ServerCloses, Disconnect, CloseEvent
<1>7. ASSUME NEW s, Logout(s) \/ \E now \in Clock : SendChat(s, now) PROVE logins' = logins
  BY <1>7 DEF Logout, SendChat
<1>8. ASSUME NEW s, NEW u, RequestLogin(s, u) PROVE \E q : logins' = logins \cup {q}
  BY <1>8 DEF RequestLogin
<1>9. ASSUME NEW s \in Own, ServerReceives(s)
      PROVE  logins' = logins \/ \E q : logins' = logins \cup {q}
  BY <1>7, <1>8, <1>9 DEF ServerReceives, Handle, Refuse, vars
<1>10. ASSUME NEW s \in Own, ClientCloses(s) \/ (OnMessage(s) /\ UNCHANGED <<vars, verifiable>>)
       PROVE  logins' = logins
  BY <1>10 DEF ClientCloses, vars
<1>11. ASSUME NEW s \in Peers, PeerActs(s)
       PROVE  logins' = logins \/ \E q : logins' = logins \cup {q}
  BY <1>7, <1>8, <1>11 DEF PeerActs
<1> QED BY <1>1, <1>2, <1>3, <1>4, <1>5, <1>6, <1>9, <1>10, <1>11 DEF SystemNext

Challenged(s) == \E i \in DOMAIN sent[s] : i > read[s] /\ sent[s][i].type = "challenge"

\* Nothing is under way from the connection s, and its session is not logged in.
Silent(s) ==
    /\ signing = {} /\ outbox[s] = <<>> /\ ~In(s)
    /\ \A t \in logins : t.socket # s

\* What the client shows of the connection s, the first.  It waits for the
\* challenge, or has it; and it is logged in if it has heard so.
Hears(s) ==
    /\ ready[s] \in {"none", "connecting"} => savedSession = NoSocket
    /\ ready[s] = "open" =>
         /\ savedSession = NoSocket => Challenged(s)
         /\ known # NoUser =>
              /\ room.status \in {"LoggedOut", "LoggedIn"}
              /\ savedSession # NoSocket => room.session = savedSession
              /\ savedSession = NoSocket =>
                   /\ room.session \in {NoSocket, Undefined}
                   /\ room.status = "LoggedOut" /\ loginOnChallengeReceived
              /\ Announced(Received(s), Who(s, known)) => room.status = "LoggedIn"

\* Without an account or a challenge nothing is under way from s.  Only logins
\* for the challenge of s and messages are; and with both a login is, until the
\* session is logged in.
Sends(s) ==
    /\ known = NoUser \/ savedSession = NoSocket => Silent(s)
    /\ \A m \in signing : m = LoginMessage(known, s)
    /\ \A i \in DOMAIN outbox[s] : outbox[s][i] \in {LoginMessage(known, s), ChatMessage}
    /\ \A t \in logins : t.socket = s => t.user = known /\ t.request \in verifiable
    /\ session[s].address \in {NoUser, known}
    /\ Comes(sent[s], 0, s, "joined") => In(s)
    /\ /\ known # NoUser /\ savedSession = s
       /\ ready[s] = "open" /\ conn[s] = "open" /\ ~In(s)
       => signing # {} \/ Has(outbox[s], "login") \/ \E t \in logins : t.socket = s

LogsIn ==
    \A s \in Own : First(s) /\ steady /\ <<s, "login">> \notin refused => Hears(s) /\ Sends(s)

LEMMA HearsKeeps ==
    ASSUME ServerInv, ClientInv, Rewired, Grows, NEW s \in Own, Hears(s),
           UNCHANGED <<known, savedSession, loginOnChallengeReceived>>,
           room'.status = room.status, room'.session = room.session,
           ready'[s] \in {"none", "connecting"} => ready[s] \in {"none", "connecting"}
    PROVE  Hears(s)'
<1>1. ready'[s] \in {"none", "connecting"} => savedSession' = NoSocket
  BY DEF Hears
<1>2. ASSUME ready'[s] = "open"
      PROVE  /\ ready[s] = "open" /\ Received(s)' = Received(s)
             /\ Challenged(s) => Challenged(s)'
  <2>1. ready[s] = "open" /\ Received(s)' = Received(s) /\ read'[s] = read[s]
    BY <1>2, ReceivedStays DEF Rewired
  <2> DEFINE a == sent[s]
  <2>2. s \in Sockets /\ a \in Seq(Frame) /\ conn[s] # "new"
    BY <2>1, ReadFits DEF ClientInv, WiresFit
  <2>3. PICK more \in Seq(Frame) : sent'[s] = a \o more
    BY <2>2 DEF Grows
  <2> DEFINE c == a \o more
  <2>4. \A i \in DOMAIN a : i \in DOMAIN c /\ c[i] = a[i]
    <3> HIDE DEF a
    <3>1. /\ Len(a) \in Nat /\ Len(more) \in Nat /\ DOMAIN a = 1..Len(a)
          /\ DOMAIN (a \o more) = 1..(Len(a) + Len(more))
          /\ \A i \in 1..Len(a) : (a \o more)[i] = a[i]
      BY <2>2, Concat
    <3> QED BY <3>1
  <2>5. sent'[s] = c
    BY <2>3
  <2> HIDE DEF c
  <2>6. Challenged(s) => Challenged(s)'
    BY <2>1, <2>4, <2>5 DEF Challenged
  <2> QED BY <2>1, <2>6
<1>3. Who(s, known)' = Who(s, known)
  BY DEF Who
<1> QED BY <1>1, <1>2, <1>3 DEF Hears

\* The server stands by s, or tells others.
LEMMA SendsKeeps ==
    ASSUME ServerInv, NEW s \in Own, Sends(s), Aside(s),
           UNCHANGED <<known, savedSession, signing>>, outbox'[s] = outbox[s],
           \A t \in logins' : t.socket = s =>
             t \in logins /\ (t.request \in verifiable => t.request \in verifiable'),
           \A t \in logins : t.socket = s => t \in logins',
           ready'[s] = "open" /\ conn'[s] = "open" => ready[s] = "open" /\ conn[s] = "open"
    PROVE  Sends(s)'
<1>1. s \in Sockets
  BY OwnAssumption
<1>2. session'[s].address = session[s].address
  BY DEF Aside
<1>3. In(s)' <=> In(s)
  BY <1>2 DEF In
<1>4. Comes(sent'[s], 0, s, "joined") <=> Comes(sent[s], 0, s, "joined")
  <2>1. 0 \in Nat /\ 0 <= Len(sent[s])
    <3>1. sent[s] \in Seq(Frame)
      BY <1>1 DEF ServerInv, RoomInv, TypeOK
    <3> QED BY <3>1, LenProperties
  <2> QED BY <1>1, <2>1, AsideSays
<1>5. LoginMessage(known, s)' = LoginMessage(known, s)
  BY DEF LoginMessage
<1>6. \A t \in logins' : t.socket = s => t.user = known' /\ t.request \in verifiable'
  BY DEF Sends
<1>7. known' = NoUser \/ savedSession' = NoSocket => Silent(s)'
  BY <1>3 DEF Sends, Silent
<1>8. /\ known' # NoUser /\ savedSession' = s
      /\ ready'[s] = "open" /\ conn'[s] = "open" /\ ~In(s)'
      => signing' # {} \/ Has(outbox'[s], "login") \/ \E t \in logins' : t.socket = s
  BY <1>3 DEF Sends
<1>9. /\ \A m \in signing' : m = LoginMessage(known, s)'
      /\ \A i \in DOMAIN outbox'[s] :
           outbox'[s][i] \in {LoginMessage(known, s)', ChatMessage}
  BY <1>5 DEF Sends
<1>10. session'[s].address \in {NoUser, known'} /\ (Comes(sent'[s], 0, s, "joined") => In(s)')
  BY <1>2, <1>3, <1>4 DEF Sends
<1>11. ChatMessage' = ChatMessage
  BY DEF ChatMessage
<1> QED BY <1>6, <1>7, <1>8, <1>9, <1>10, <1>11 DEF Sends

\* A session of which no joined frame was sent has not been announced.
LEMMA NotAnnounced ==
    ASSUME ServerInv, ClientInv, NEW s \in Own, ready[s] = "open", NEW u,
           ~Comes(sent[s], 0, s, "joined")
    PROVE  ~Announced(Received(s), Who(s, u))
<1> DEFINE a == sent[s]
           k == read[s]
           b == SubSeq(a, 1, k)
<1>1. a \in Seq(Frame) /\ k \in 0..Len(a)
  <2>1. a \in Seq(Frame) /\ k \in Nat /\ k <= Len(a)
    BY ReadFits
  <2>2. Len(a) \in Nat
    BY <2>1, LenProperties
  <2> QED BY <2>1, <2>2
<1>2. ~Comes(a, 0, s, "joined")
  OBVIOUS
<1> HIDE DEF a, k
<1>3. b \in Seq(Frame) /\ Len(b) = k /\ \A i \in 1..k : b[i] = a[i]
  BY <1>1, PrefixOf
<1>4. DOMAIN a = 1..Len(a) /\ Len(a) \in Nat
  BY <1>1, LenProperties
<1> HIDE DEF b
<1>5. DOMAIN b = 1..k
  BY <1>3, LenProperties
<1>6. ASSUME NEW i \in DOMAIN b, b[i].type = "joined", Who(s, u) \in b[i].who PROVE FALSE
  <2>1. i \in DOMAIN a /\ i > 0 /\ b[i] = a[i]
    BY <1>1, <1>3, <1>4, <1>5
  <2>2. Who(s, u).id = s
    BY DEF Who
  <2>3. Speaks(a[i], s, "joined")
    BY <1>6, <2>1, <2>2 DEF Speaks
  <2> QED BY <1>2, <2>1, <2>3 DEF Comes
<1>7. ~Announced(b, Who(s, u))
  BY <1>6 DEF Announced
<1> QED BY <1>7 DEF Received, a, k, b

\* The next frame, when the client has no account.
LEMMA FrameOfNone ==
    ASSUME ServerInv, ClientInv, known = NoUser, NEW s \in Own, OnMessage(s), FirstFits(s)
    PROVE  /\ savedSession' \in {savedSession, s} /\ signing' = signing
           /\ savedSession' = NoSocket => sent[s][read[s] + 1].type # "challenge"
<1> DEFINE f == sent[s][read[s] + 1]
<1>1. room.step = "Connected" /\ NoSocket # s
  BY MessageFits, OwnAssumption, FieldAssumption DEF FirstFits
<1>2. \/ f.type \in {"joined", "quit"} /\ UNCHANGED <<savedSession, signing>>
      \/ f.type = "challenge" /\ OnChallenge(s)
      \/ f.type = "chat" /\ OnChat
      \/ f.type = "joined" /\ OnJoined(f.who)
      \/ f.type = "quit" /\ OnQuit(f.who)
  BY <1>1 DEF OnMessage
<1> HIDE DEF f
<1>3. CASE f.type = "challenge" /\ OnChallenge(s)
  BY <1>1, <1>3 DEF OnChallenge
<1>4. CASE f.type # "challenge" /\ UNCHANGED <<savedSession, signing>>
  BY <1>4 DEF f
<1>5. /\ f.type = "chat" /\ OnChat => UNCHANGED <<savedSession, signing>>
      /\ OnJoined(f.who) \/ OnQuit(f.who) => UNCHANGED <<savedSession, signing>>
  BY DEF OnChat, OnJoined, OnQuit
<1> QED BY <1>2, <1>3, <1>4, <1>5

\* The next frame, when the client waits for its login.
LEMMA FrameHeard ==
    ASSUME ServerInv, ClientInv, known # NoUser,
           NEW s \in Own, OnMessage(s), FirstFits(s), Hears(s)
    PROVE  LET f == sent[s][read[s] + 1]
           IN  /\ savedSession' \in {savedSession, s}
               /\ room'.status \in {"LoggedOut", "LoggedIn"}
               /\ savedSession' # NoSocket => room'.session = savedSession'
               /\ signing \subseteq signing'
               /\ signing' \subseteq signing \cup {LoginMessage(known, s)}
               /\ savedSession' = NoSocket =>
                    /\ signing' = signing /\ room'.status = room.status
                    /\ room'.session = room.session
                    /\ loginOnChallengeReceived' = loginOnChallengeReceived
                    /\ f.type # "challenge"
               /\ savedSession = NoSocket /\ savedSession' = s => signing' # {}
               /\ room.status = "LoggedIn" /\ ~(f.type = "quit" /\ Who(s, known) \in f.who) =>
                    room'.status = "LoggedIn"
               /\ f.type = "joined" /\ Who(s, known) \in f.who /\ savedSession = s =>
                    room'.status = "LoggedIn"
<1> DEFINE f == sent[s][read[s] + 1]
           Goal ==
             /\ savedSession' \in {savedSession, s}
             /\ room'.status \in {"LoggedOut", "LoggedIn"}
             /\ savedSession' # NoSocket => room'.session = savedSession'
             /\ signing \subseteq signing'
             /\ signing' \subseteq signing \cup {LoginMessage(known, s)}
             /\ savedSession' = NoSocket =>
                  /\ signing' = signing /\ room'.status = room.status
                  /\ room'.session = room.session
                  /\ loginOnChallengeReceived' = loginOnChallengeReceived
                  /\ f.type # "challenge"
             /\ savedSession = NoSocket /\ savedSession' = s => signing' # {}
             /\ room.status = "LoggedIn" /\ ~(f.type = "quit" /\ Who(s, known) \in f.who) =>
                  room'.status = "LoggedIn"
             /\ f.type = "joined" /\ Who(s, known) \in f.who /\ savedSession = s =>
                  room'.status = "LoggedIn"
<1> SUFFICES Goal
  OBVIOUS
<1>1. /\ ClientTypes /\ StatusFits(room, known) /\ room \in RoomStates
      /\ ready[s] = "open" /\ websocket # NoSocket
      /\ NoSocket # s /\ Undefined # s /\ NoSocket # Undefined
  BY MessageFits, OwnAssumption, FieldAssumption DEF ClientInv, ClientTypes, WiresFit
<1>2. /\ room.status \in {"LoggedOut", "LoggedIn"}
      /\ savedSession # NoSocket => savedSession = s /\ room.session = s
      /\ savedSession = NoSocket => /\ room.status = "LoggedOut" /\ loginOnChallengeReceived
                                    /\ room.session \in {NoSocket, Undefined}
      /\ savedSession \in {NoSocket, s} /\ room.step = "Connected"
  BY <1>1 DEF Hears, FirstFits
<1>3. \/ /\ f.type \in {"joined", "quit"} /\ room.session = Undefined
         /\ UNCHANGED <<room, savedSession, loginOnChallengeReceived, signing>>
      \/ f.type = "challenge" /\ OnChallenge(s)
      \/ f.type = "chat" /\ OnChat
      \/ f.type = "joined" /\ ~(room.session = Undefined /\ SameAddress(f.who)) /\ OnJoined(f.who)
      \/ f.type = "quit" /\ ~(room.session = Undefined /\ SameAddress(f.who)) /\ OnQuit(f.who)
  BY <1>1, <1>2 DEF OnMessage
<1>4. \A who : Who(s, known) \in who /\ savedSession = s => IsOwn(who)
  BY <1>1, <1>2 DEF IsOwn, SessionField, Who
<1>5. \A who : IsOwn(who) /\ ~(room.session = Undefined /\ SameAddress(who)) => savedSession = s
  BY <1>2 DEF IsOwn, SessionField, SameAddress
<1> HIDE DEF f
<1>6. CASE f.type = "challenge" /\ OnChallenge(s)
  <2>1. savedSession' = s
    BY <1>6 DEF OnChallenge
  <2>2. CASE /\ room.status = "LoggedOut" /\ room' = LoggedOut(room, known, s)
             /\ signing' = signing \cup {LoginMessage(known, s)}
    <3>1. room'.status = "LoggedOut" /\ room'.session = s
      BY <1>1, <2>2 DEF LoggedOut, RoomStates
    <3> QED BY <1>1, <1>6, <2>1, <2>2, <3>1
  <2>3. CASE /\ room.status = "LoggedOut" /\ room' = [room EXCEPT !.session = s]
             /\ signing' = signing /\ ~loginOnChallengeReceived
    <3>1. room'.status = "LoggedOut" /\ room'.session = s
      BY <1>1, <2>3 DEF RoomStates
    <3> QED BY <1>1, <1>2, <1>6, <2>1, <2>3, <3>1
  <2>4. CASE room.status = "LoggedIn" /\ room' = room /\ signing' = signing
    BY <1>1, <1>2, <1>6, <2>1, <2>4
  <2> QED BY <1>1, <1>2, <1>6, <2>2, <2>3, <2>4 DEF OnChallenge
<1>7. CASE f.type = "chat" /\ OnChat
  <2>1. /\ room' = [room EXCEPT !.pending = 0]
        /\ UNCHANGED <<savedSession, loginOnChallengeReceived, signing>>
    BY <1>7 DEF OnChat
  <2>2. room'.status = room.status /\ room'.session = room.session
    BY <1>1, <2>1 DEF RoomStates
  <2> QED BY <1>1, <1>2, <1>7, <2>1, <2>2
<1>8. CASE /\ f.type = "joined" /\ ~(room.session = Undefined /\ SameAddress(f.who))
           /\ OnJoined(f.who)
  <2> DEFINE add == Added(f.who)
  <2>1. /\ room' = IF IsOwn(f.who)
                     THEN [room EXCEPT !.status = "LoggedIn", !.address = known, !.users = add]
                     ELSE [room EXCEPT !.users = add]
        /\ UNCHANGED <<savedSession, loginOnChallengeReceived, signing>>
    BY <1>8 DEF OnJoined
  <2> HIDE DEF add
  <2>2. /\ room'.session = room.session
        /\ IsOwn(f.who) => room'.status = "LoggedIn"
        /\ ~IsOwn(f.who) => room'.status = room.status
    BY <1>1, <2>1 DEF RoomStates
  <2>3. IsOwn(f.who) => savedSession = s
    BY <1>5, <1>8
  <2> QED BY <1>1, <1>2, <1>4, <1>8, <2>1, <2>2, <2>3
<1>9. CASE /\ f.type = "quit" /\ ~(room.session = Undefined /\ SameAddress(f.who))
           /\ OnQuit(f.who)
  <2> DEFINE left == Removed(f.who)
  <2>1. /\ \/ IsOwn(f.who) /\ room.status # "LoggedIn" /\ room' = room
           \/ /\ IsOwn(f.who) /\ room.status = "LoggedIn"
              /\ room' = [room EXCEPT !.status = "LoggedOut", !.users = left,
                                      !.session = savedSession]
           \/ ~IsOwn(f.who) /\ room' = [room EXCEPT !.users = left]
        /\ UNCHANGED <<savedSession, loginOnChallengeReceived, signing>>
    BY <1>9 DEF OnQuit
  <2> HIDE DEF left
  <2>2. \/ room'.status = room.status /\ room'.session = room.session
        \/ /\ IsOwn(f.who) /\ room.status = "LoggedIn"
           /\ room'.status = "LoggedOut" /\ room'.session = savedSession
    BY <1>1, <2>1 DEF RoomStates
  <2>3. IsOwn(f.who) => savedSession = s
    BY <1>5, <1>9
  <2>4. IsOwn(f.who) => Who(s, known) \in f.who
    <3>1. f.who \in SUBSET [id : Sockets, user : Users]
      BY <1>9, MessageFits DEF f, Named
    <3>2. IsOwn(f.who) => Who(room.session, known) \in f.who
      BY <3>1, OwnPresence
    <3> QED BY <1>1, <1>2, <2>3, <3>2
  <2> QED BY <1>1, <1>2, <1>9, <2>1, <2>2, <2>3, <2>4
<1>10. CASE /\ f.type \in {"joined", "quit"} /\ room.session = Undefined
            /\ UNCHANGED <<room, savedSession, loginOnChallengeReceived, signing>>
  <2>1. savedSession = NoSocket /\ room.status = "LoggedOut"
    BY <1>1, <1>2, <1>10
  <2> QED BY <1>1, <1>10, <2>1
<1> HIDE DEF Goal
<1> QED BY <1>3, <1>6, <1>7, <1>8, <1>9, <1>10

LEMMA OpenSpeaks ==
    ASSUME Platform = "bun", ServerInv, ClientInv, Steady, steady,
           NEW s \in Own, OnOpened(s), Open(s), Hears(s), Sends(s)
    PROVE  Hears(s)' /\ Sends(s)'
<1> DEFINE q == [Connecting(room.address) EXCEPT
                   !.step = "Connected",
                   !.status = IF room.address = NoUser THEN "NoAccount" ELSE "LoggedOut"]
<1>1. /\ ready[s] = "connecting" /\ ready' = [ready EXCEPT ![s] = "open"]
      /\ IF room.address = NoUser
           THEN room' = q /\ UNCHANGED <<signing, loginOnChallengeReceived>>
           ELSE AutoLogin(q, known, loginOnChallengeReceived)
      /\ UNCHANGED <<registration, known, acts, websocket, savedSession, outbox, read>>
  BY DEF OnOpened
<1>2. /\ s \in Sockets /\ savedSession = NoSocket /\ NoSocket # s
      /\ known # NoUser => room.address = known
      /\ ready \in [Own -> {"none", "connecting", "open", "closing", "closed"}]
      /\ read[s] = 0 /\ logins' = logins
  BY <1>1, OwnAssumption, FieldAssumption
     DEF Steady, Hears, ClientInv, ClientTypes, WiresFit, Open
<1>3. /\ q.session = NoSocket
      /\ known # NoUser => q.status = "LoggedOut"
  BY <1>2 DEF Connecting
<1> HIDE DEF q
<1>4. /\ room' = q /\ signing' = signing
      /\ known # NoUser => loginOnChallengeReceived' = TRUE
  BY <1>1, <1>2 DEF AutoLogin
<1>5. PICK frames \in Seq(Frame) :
        /\ sent' = [sent EXCEPT ![s] = frames]
        /\ \E i \in DOMAIN frames : frames[i].type = "challenge"
        /\ \A i \in DOMAIN frames :
             /\ frames[i].type # "quit"
             /\ frames[i].type = "joined" => \A p \in frames[i].who : p.id \in sessions
  BY <1>2, OpenSays DEF ServerInv
<1>6. /\ sent'[s] = frames /\ read'[s] = 0
      /\ session'[s].address = session[s].address /\ session[s].address = NoUser
  BY <1>1, <1>2, <1>5, OpenSays DEF ServerInv, RoomInv, TypeOK
<1>7. Challenged(s)'
  <2>1. \A i \in DOMAIN frames : i > 0
    BY LenProperties
  <2> QED BY <1>5, <1>6, <2>1 DEF Challenged
<1>8. ~Announced(Received(s)', Who(s, known)')
  <2>1. 0 \in 0..Len(frames)
    <3>1. Len(frames) \in Nat
      BY LenProperties
    <3> QED BY <3>1
  <2>2. SubSeq(frames, 1, 0) \in Seq(Frame) /\ Len(SubSeq(frames, 1, 0)) = 0
    BY <2>1, PrefixOf
  <2>3. DOMAIN SubSeq(frames, 1, 0) = {}
    BY <2>2, LenProperties
  <2>4. Received(s)' = SubSeq(frames, 1, 0)
    BY <1>6 DEF Received
  <2> QED BY <2>3, <2>4 DEF Announced
<1>9. Hears(s)'
  <2>1. ready'[s] = "open" /\ savedSession' = NoSocket /\ known' = known
    BY <1>1, <1>2
  <2> QED BY <1>3, <1>4, <1>7, <1>8, <2>1 DEF Hears
<1>10. ~Comes(frames, 0, s, "joined")
  <2>1. s \notin sessions
    <3>1. conn[s] = "new"
      BY DEF Open
    <3> QED BY <1>2, <3>1 DEF ServerInv, RoomInv, RosterInvariant
  <2> QED BY <1>5, <2>1 DEF Comes, Speaks
<1>11. signing = {} /\ outbox[s] = <<>> /\ \A t \in logins : t.socket # s
  BY <1>2 DEF Sends, Silent
<1>12. DOMAIN outbox'[s] = {}
  BY <1>1, <1>11
<1>13. Silent(s)'
  BY <1>1, <1>2, <1>4, <1>6, <1>11 DEF Silent, In
<1>14. Sends(s)'
  BY <1>1, <1>2, <1>4, <1>6, <1>10, <1>11, <1>12, <1>13 DEF Sends, In
<1> QED BY <1>9, <1>14

LEMMA FrameSpeaks ==
    ASSUME ServerInv, ClientInv,
           NEW s \in Own, OnMessage(s), UNCHANGED <<vars, verifiable>>,
           FirstFits(s), Hears(s), Sends(s)
    PROVE  Hears(s)' /\ Sends(s)'
<1> DEFINE a == sent[s]
           k == read[s]
           n == k + 1
           f == a[n]
           p == Who(s, known)
<1>1. /\ ready[s] = "open" /\ k < Len(a) /\ n \in DOMAIN a /\ f \in Frame
      /\ read' = [read EXCEPT ![s] = @ + 1]
      /\ UNCHANGED <<registration, known, acts, websocket, ready, outbox>>
  BY MessageFits
<1>2. a \in Seq(Frame) /\ k \in Nat /\ read \in [Own -> Nat]
  BY <1>1, ReadFits DEF ClientInv, ClientTypes
<1>3. /\ read'[s] = n /\ UNCHANGED <<sent, session, logins, conn>> /\ p' = p
      /\ LoginMessage(known, s)' = LoginMessage(known, s) /\ ChatMessage' = ChatMessage
  BY <1>1, <1>2 DEF vars, Who, LoginMessage, ChatMessage
<1>4. /\ savedSession' \in {savedSession, s}
      /\ signing \subseteq signing'
      /\ signing' \subseteq signing \cup {LoginMessage(known, s)}
      /\ known = NoUser \/ savedSession' = NoSocket => signing' = signing
      /\ savedSession' = NoSocket => f.type # "challenge"
  <2>1. CASE known = NoUser
    BY <2>1, FrameOfNone
  <2>2. CASE known # NoUser
    BY <2>2, FrameHeard
  <2> QED BY <2>1, <2>2
<1>5. known # NoUser =>
        /\ room'.status \in {"LoggedOut", "LoggedIn"}
        /\ savedSession' # NoSocket => room'.session = savedSession'
        /\ savedSession' = NoSocket =>
             /\ room'.status = room.status /\ room'.session = room.session
             /\ loginOnChallengeReceived' = loginOnChallengeReceived
        /\ savedSession = NoSocket /\ savedSession' = s => signing' # {}
        /\ room.status = "LoggedIn" /\ ~(f.type = "quit" /\ p \in f.who) =>
             room'.status = "LoggedIn"
        /\ f.type = "joined" /\ p \in f.who /\ savedSession = s => room'.status = "LoggedIn"
  <2>1. CASE known = NoUser
    BY <2>1
  <2>2. CASE known # NoUser
    BY <2>2, FrameHeard
  <2> QED BY <2>1, <2>2
<1>6. Received(s) \in Seq(Frame) /\ Received(s)' = Received(s) \o <<f>>
  BY <1>3, ReceivedNext DEF vars
<1>7. savedSession \in {NoSocket, s} /\ NoSocket # s
  BY OwnAssumption, FieldAssumption DEF FirstFits
<1>8. f.type = "joined" /\ p \in f.who => savedSession = s
  <2>1. ASSUME f.type = "joined", p \in f.who PROVE Comes(a, 0, s, "joined")
    <3>1. n > 0
      BY <1>2
    <3>2. p.id = s
      BY DEF Who
    <3> QED BY <1>1, <2>1, <3>1, <3>2 DEF Comes, Speaks
  <2> QED BY <1>7, <2>1 DEF Sends, Silent
<1>9. savedSession' = NoSocket => savedSession = NoSocket
  BY <1>4, <1>7
<1>10. savedSession' = NoSocket => Challenged(s)'
  <2>1. ASSUME savedSession = NoSocket, f.type # "challenge" PROVE Challenged(s)'
    <3>1. PICK i \in DOMAIN a : i > k /\ a[i].type = "challenge"
      BY <1>1, <2>1 DEF Hears, Challenged
    <3>2. i # n
      BY <2>1, <3>1
    <3>3. i > n
      <4>1. i \in Nat
        BY <1>2, LenProperties
      <4> HIDE DEF a
      <4> QED BY <1>2, <3>1, <3>2, <4>1
    <3> QED BY <1>3, <3>1, <3>3 DEF Challenged
  <2> QED BY <1>4, <1>9, <2>1
<1> HIDE DEF a, k, n, f
<1>11. known # NoUser /\ Announced(Received(s)', p) => room'.status = "LoggedIn"
  <2> HIDE DEF p
  <2>1. Announced(Received(s) \o <<f>>, p) <=>
          \/ f.type = "joined" /\ p \in f.who
          \/ Announced(Received(s), p) /\ ~(f.type = "quit" /\ p \in f.who)
    BY <1>1, <1>6, FrameAdded
  <2>2. known # NoUser /\ Announced(Received(s), p) => room.status = "LoggedIn"
    BY <1>1 DEF Hears, p
  <2> QED BY <1>5, <1>6, <1>8, <2>1, <2>2
<1>12. known # NoUser /\ savedSession' = NoSocket =>
         /\ room'.session \in {NoSocket, Undefined}
         /\ room'.status = "LoggedOut" /\ loginOnChallengeReceived'
  BY <1>1, <1>5, <1>9 DEF Hears
<1>13. ready' = ready /\ known' = known
  BY <1>1
<1>14. Hears(s)'
  BY <1>1, <1>3, <1>5, <1>10, <1>11, <1>12, <1>13 DEF Hears
<1>15. In(s)' <=> In(s)
  BY <1>3 DEF In
<1>16. \A m \in signing' : m = LoginMessage(known, s)'
  BY <1>3, <1>4 DEF Sends
<1>17. known' = NoUser \/ savedSession' = NoSocket => Silent(s)'
  <2>1. known = NoUser \/ savedSession' = NoSocket => Silent(s) /\ signing' = signing
    BY <1>4, <1>9 DEF Sends
  <2> QED BY <1>1, <1>3, <1>15, <2>1 DEF Silent
<1>18. /\ known' # NoUser /\ savedSession' = s
       /\ ready'[s] = "open" /\ conn'[s] = "open" /\ ~In(s)'
       => signing' # {} \/ Has(outbox'[s], "login") \/ \E t \in logins' : t.socket = s
  <2>1. CASE savedSession = NoSocket
    BY <1>1, <1>5, <2>1
  <2>2. CASE savedSession = s
    BY <1>1, <1>3, <1>4, <1>15, <2>2 DEF Sends
  <2> QED BY <1>7, <2>1, <2>2
<1>19. /\ \A i \in DOMAIN outbox'[s] :
            outbox'[s][i] \in {LoginMessage(known, s)', ChatMessage'}
       /\ \A t \in logins' : t.socket = s => t.user = known' /\ t.request \in verifiable'
       /\ session'[s].address \in {NoUser, known'}
       /\ Comes(sent'[s], 0, s, "joined") => In(s)'
  BY <1>1, <1>3, <1>15 DEF Sends
<1>20. Sends(s)'
  BY <1>16, <1>17, <1>18, <1>19 DEF Sends
<1> QED BY <1>14, <1>20

\* The server takes the next mail of s and does not refuse a login.
LEMMA MailSpeaks ==
    ASSUME Platform = "bun", ServerInv, ClientInv, NEW s \in Own, ServerReceives(s),
           <<s, "login">> \notin refused', Sends(s)
    PROVE  Sends(s)'
<1> DEFINE q == outbox[s]
           m == Head(q)
           c == Tail(q)
           t == [request |-> requests, socket |-> s, user |-> known, step |-> "db"]
<1>1. /\ q \in Seq(Mail) /\ q # <<>> /\ s \in Sockets
      /\ outbox' = [outbox EXCEPT ![s] = Tail(@)] /\ outbox \in [Own -> Seq(Mail)]
      /\ UNCHANGED <<known, ready, savedSession, signing>>
  BY OwnAssumption DEF ServerReceives, ClientInv, ClientTypes
<1>2. /\ \A i \in DOMAIN c : i + 1 \in DOMAIN q /\ c[i] = q[i + 1]
      /\ 1 \in DOMAIN q /\ m = q[1]
  <2> DEFINE n == Len(q)
  <2>1. /\ n \in Nat /\ n > 0 /\ DOMAIN q = 1..n /\ DOMAIN c = 1..(n - 1)
        /\ \A i \in 1..(n - 1) : c[i] = q[i + 1]
        /\ m = q[1]
    BY <1>1
  <2> HIDE DEF n, c, q, m
  <2> QED BY <2>1
<1>3. outbox'[s] = c /\ (Has(q, "login") <=> m.type = "login" \/ Has(c, "login"))
  BY <1>1, MailTaken
<1>4. LoginMessage(known, s)' = LoginMessage(known, s) /\ ChatMessage' = ChatMessage
  BY <1>1 DEF LoginMessage, ChatMessage
<1>5. m = LoginMessage(known, s) \/ m = ChatMessage
  BY <1>2 DEF Sends
<1>6. known # NoUser /\ savedSession # NoSocket
  BY <1>1 DEF Sends, Silent
<1> HIDE DEF c
<1>7. \A i \in DOMAIN outbox'[s] : outbox'[s][i] \in {LoginMessage(known, s)', ChatMessage'}
  BY <1>2, <1>3, <1>4 DEF Sends
<1>8. \A p \in signing' : p = LoginMessage(known, s)'
  BY <1>1, <1>4 DEF Sends
<1>9. \/ m.type = "login" /\ RequestLogin(s, m.user)
           /\ verifiable' = IF m.challenge = s THEN verifiable \cup {requests} ELSE verifiable
      \/ m.type = "logout"
      \/ m.type = "chat" /\ (\E now \in Clock : SendChat(s, now)) /\ verifiable' = verifiable
      \/ m.type = "chat" /\ UNCHANGED <<vars, verifiable>>
  <2>1. m.type \in {"login", "chat"}
    BY <1>5 DEF LoginMessage, ChatMessage
  <2>2. refused' = refused \cup {<<s, m.type>>} => m.type # "login"
    OBVIOUS
  <2> HIDE DEF m
  <2> QED BY <2>1, <2>2 DEF ServerReceives, Handle, Refuse, m
<1>10. CASE m = LoginMessage(known, s)
  <2>1. m.type = "login" /\ m.user = known /\ m.challenge = s
    BY <1>10 DEF LoginMessage
  <2> HIDE DEF m
  <2>2. RequestLogin(s, known) /\ verifiable' = verifiable \cup {requests}
    BY <1>9, <2>1
  <2>3. logins' = logins \cup {t} /\ UNCHANGED <<sent, session, conn>>
    BY <2>2 DEF RequestLogin
  <2>4. t.socket = s /\ t.user = known /\ t.request = requests
    OBVIOUS
  <2> HIDE DEF t
  <2>5. \A p \in logins' : p.socket = s => p.user = known' /\ p.request \in verifiable'
    BY <1>1, <2>2, <2>3, <2>4 DEF Sends
  <2>6. \E p \in logins' : p.socket = s
    BY <2>3, <2>4
  <2>7. In(s)' <=> In(s)
    BY <2>3 DEF In
  <2>8. /\ session'[s].address \in {NoUser, known'}
        /\ Comes(sent'[s], 0, s, "joined") => In(s)'
    BY <1>1, <2>3, <2>7 DEF Sends
  <2> QED BY <1>1, <1>6, <1>7, <1>8, <2>5, <2>6, <2>8 DEF Sends
<1>11. CASE m = ChatMessage
  <2>1. m.type = "chat"
    BY <1>11 DEF ChatMessage
  <2> HIDE DEF m
  <2>2. ((\E now \in Clock : SendChat(s, now)) \/ UNCHANGED vars) /\ verifiable' = verifiable
    BY <1>9, <2>1
  <2>3. Aside(s)
    BY <1>1, <2>2, TurnsAside
  <2>4. logins' = logins /\ conn' = conn
    BY <2>2 DEF SendChat, vars
  <2>5. session'[s].address = session[s].address /\ (In(s)' <=> In(s))
    BY <2>3 DEF Aside, In
  <2>6. Comes(sent'[s], 0, s, "joined") <=> Comes(sent[s], 0, s, "joined")
    <3>1. 0 \in Nat /\ 0 <= Len(sent[s])
      <4>1. sent[s] \in Seq(Frame)
        BY <1>1 DEF ServerInv, RoomInv, TypeOK
      <4> QED BY <4>1, LenProperties
    <3> QED BY <1>1, <2>3, <3>1, AsideSays
  <2>7. Has(q, "login") => Has(outbox'[s], "login")
    BY <1>3, <2>1
  <2>8. /\ \A p \in logins' : p.socket = s => p.user = known' /\ p.request \in verifiable'
        /\ session'[s].address \in {NoUser, known'}
        /\ Comes(sent'[s], 0, s, "joined") => In(s)'
    BY <1>1, <2>2, <2>4, <2>5, <2>6 DEF Sends
  <2>9. /\ known' # NoUser /\ savedSession' = s
        /\ ready'[s] = "open" /\ conn'[s] = "open" /\ ~In(s)'
        => signing' # {} \/ Has(outbox'[s], "login") \/ \E p \in logins' : p.socket = s
    BY <1>1, <2>4, <2>5, <2>7 DEF Sends
  <2> QED BY <1>1, <1>6, <1>7, <1>8, <2>8, <2>9 DEF Sends
<1> QED BY <1>5, <1>10, <1>11

LEMMA LoginSpeaks ==
    ASSUME Platform = "bun", ServerInv, ClientInv, OneLogin, NEW s \in Own,
           NEW t \in logins, t.socket = s, LoginEnds(t), Sends(s)
    PROVE  Sends(s)'
<1>1. s \in Sockets /\ UNCHANGED clientVars
  BY OwnAssumption DEF LoginEnds
<1>2. /\ t.user = known /\ t.request \in verifiable
      /\ known # NoUser /\ savedSession # NoSocket
  BY DEF Sends, Silent
<1>3. LoginRepeats(t) \/ LoginOpenRoom(t)
  BY <1>2 DEF LoginEnds
<1>4. logins' = {}
  <2>1. logins' = logins \ {t}
    BY <1>3 DEF LoginRepeats, LoginOpenRoom
  <2> QED BY <2>1 DEF OneLogin
<1>5. session'[s].address = known
  <2>1. CASE LoginRepeats(t)
    BY <1>2, <2>1 DEF LoginRepeats
  <2>2. CASE LoginOpenRoom(t)
    <3>1. session' = [session EXCEPT ![s].address = t.user]
      BY <2>2, LoginSays DEF ServerInv
    <3>2. session \in [Sockets -> Session]
      BY DEF ServerInv, RoomInv, TypeOK
    <3> QED BY <1>1, <1>2, <3>1, <3>2 DEF Session
  <2> QED BY <1>3, <2>1, <2>2
<1>6. UNCHANGED <<known, savedSession, signing, outbox>>
  BY <1>1 DEF clientVars
<1>7. In(s)'
  BY <1>2, <1>5 DEF In
<1>8. LoginMessage(known, s)' = LoginMessage(known, s) /\ ChatMessage' = ChatMessage
  BY <1>6 DEF LoginMessage, ChatMessage
<1>9. /\ \A m \in signing' : m = LoginMessage(known, s)'
      /\ \A i \in DOMAIN outbox'[s] :
           outbox'[s][i] \in {LoginMessage(known, s)', ChatMessage'}
  BY <1>6, <1>8 DEF Sends
<1> QED BY <1>2, <1>4, <1>5, <1>6, <1>7, <1>9 DEF Sends

LEMMA CloseSpeaks ==
    ASSUME Platform = "bun", ServerInv, NEW s \in Own, s \in Sockets, CloseEvent(s),
           outbox \in [Own -> Seq(Mail)], outbox' = [outbox EXCEPT ![s] = <<>>],
           UNCHANGED <<known, savedSession, signing, logins, verifiable>>, Sends(s)
    PROVE  Sends(s)'
<1>1. /\ conn[s] = "leaving" /\ conn' = [conn EXCEPT ![s] = "closed"] /\ session' = session
      /\ (session[s].address \in Users /\ Say(Quit({Who(s, session[s].address)})))
         \/ sent' = sent
  BY CloseSays DEF ServerInv
<1>2. sent'[s] = sent[s]
  BY <1>1 DEF Say
<1>3. conn'[s] = "closed" /\ outbox'[s] = <<>>
  BY <1>1 DEF ServerInv, RoomInv, TypeOK
<1>4. DOMAIN outbox'[s] = {}
  BY <1>3
<1>5. LoginMessage(known, s)' = LoginMessage(known, s)
  BY DEF LoginMessage
<1>6. In(s)' <=> In(s)
  BY <1>1 DEF In
<1>7. known' = NoUser \/ savedSession' = NoSocket => Silent(s)'
  BY <1>3, <1>6 DEF Sends, Silent
<1>8. /\ \A m \in signing' : m = LoginMessage(known, s)'
      /\ \A t \in logins' : t.socket = s => t.user = known' /\ t.request \in verifiable'
      /\ session'[s].address \in {NoUser, known'}
      /\ Comes(sent'[s], 0, s, "joined") => In(s)'
  BY <1>1, <1>2, <1>5, <1>6 DEF Sends
<1> QED BY <1>3, <1>4, <1>7, <1>8 DEF Sends

\* The client sends m by s, and its session stays as it is.
LEMMA MailSent ==
    ASSUME ServerInv, ClientInv, NEW s \in Own, NEW m \in {LoginMessage(known, s), ChatMessage},
           m \in Mail, known # NoUser, savedSession # NoSocket, Sends(s),
           UNCHANGED <<vars, verifiable>>, UNCHANGED <<known, ready, savedSession>>,
           signing' = signing \ {m},
           outbox'[s] = outbox[s] \/ outbox'[s] = Append(outbox[s], m),
           ready[s] = "open" => outbox'[s] = Append(outbox[s], m)
    PROVE  Sends(s)'
<1>1. /\ UNCHANGED <<sent, session, conn, logins, verifiable>>
      /\ outbox[s] \in Seq(Mail) /\ (In(s)' <=> In(s))
  BY DEF vars, ClientInv, ClientTypes, In
<1>2. LoginMessage(known, s)' = LoginMessage(known, s) /\ ChatMessage' = ChatMessage
  BY DEF LoginMessage, ChatMessage
<1>3. \A i \in DOMAIN outbox'[s] : outbox'[s][i] \in {LoginMessage(known, s), ChatMessage}
  <2> DEFINE q == outbox[s]
             c == Append(q, m)
  <2>1. /\ q \in Seq(Mail) /\ DOMAIN q = 1..Len(q) /\ DOMAIN c = 1..(Len(q) + 1)
        /\ \A i \in 1..Len(q) : c[i] = q[i]
        /\ c[Len(q) + 1] = m /\ Len(q) \in Nat
    BY <1>1
  <2>2. outbox'[s] = q \/ outbox'[s] = c
    OBVIOUS
  <2>3. \A i \in DOMAIN q : q[i] \in {LoginMessage(known, s), ChatMessage}
    BY DEF Sends
  <2> HIDE DEF q, c
  <2>4. \A i \in DOMAIN c : i \in DOMAIN q \/ i = Len(q) + 1
    BY <2>1
  <2>5. \A i \in DOMAIN c : c[i] \in {LoginMessage(known, s), ChatMessage}
    BY <2>1, <2>3, <2>4
  <2> QED BY <2>2, <2>3, <2>5
<1>4. /\ \A p \in signing' : p = LoginMessage(known, s)'
      /\ \A t \in logins' : t.socket = s => t.user = known' /\ t.request \in verifiable'
      /\ session'[s].address \in {NoUser, known'}
      /\ Comes(sent'[s], 0, s, "joined") => In(s)'
  BY <1>1, <1>2 DEF Sends
<1>5. ready[s] = "open" =>
        (Has(outbox'[s], "login") <=> Has(outbox[s], "login") \/ m.type = "login")
  <2>1. Has(Append(outbox[s], m), "login") <=> Has(outbox[s], "login") \/ m.type = "login"
    BY <1>1, MailAdded
  <2> QED BY <2>1
<1>6. m.type = "login" \/ m \notin signing
  BY DEF Sends, LoginMessage
<1>7. /\ known' # NoUser /\ savedSession' = s
      /\ ready'[s] = "open" /\ conn'[s] = "open" /\ ~In(s)'
      => signing' # {} \/ Has(outbox'[s], "login") \/ \E t \in logins' : t.socket = s
  <2>1. signing' = signing \/ m.type = "login"
    BY <1>6
  <2> QED BY <1>1, <1>5, <2>1 DEF Sends
<1> QED BY <1>2, <1>3, <1>4, <1>7 DEF Sends

LEMMA SignedSpeaks ==
    ASSUME ServerInv, ClientInv, NEW s \in Own,
           NEW m \in signing, Signed(m), UNCHANGED <<vars, verifiable>>, Sends(s)
    PROVE  Sends(s)'
<1>1. /\ UNCHANGED <<known, ready, savedSession>> /\ signing' = signing \ {m}
      /\ outbox \in [Own -> Seq(Mail)]
  BY DEF Signed, ClientInv, ClientTypes
<1>2. m = LoginMessage(known, s) /\ known # NoUser /\ savedSession # NoSocket /\ m \in Mail
  BY DEF Sends, Silent, ClientInv, ClientTypes, Mail
<1>3. /\ outbox'[s] = outbox[s] \/ outbox'[s] = Append(outbox[s], m)
      /\ ready[s] = "open" => outbox'[s] = Append(outbox[s], m)
  <2>1. outbox' = IF websocket = NoSocket THEN outbox ELSE Sent(websocket, m)
    BY DEF Signed
  <2>2. ready[s] = "open" => websocket = s /\ websocket # NoSocket
    BY OwnAssumption, FieldAssumption DEF ClientInv, WiresFit
  <2>3. \A r : Sent(r, m)[s] = outbox[s] \/ Sent(r, m)[s] = Append(outbox[s], m)
    BY <1>1 DEF Sent
  <2>4. ready[s] = "open" => Sent(s, m)[s] = Append(outbox[s], m)
    BY <1>1 DEF Sent
  <2> QED BY <2>1, <2>2, <2>3, <2>4
<1> QED BY <1>1, <1>2, <1>3, MailSent

LEMMA SendMessageSpeaks ==
    ASSUME Platform = "bun", ServerInv, ClientInv, Grows, NEW s \in Own,
           SendMessage, UNCHANGED <<vars, verifiable>>, Hears(s), Sends(s)
    PROVE  Hears(s)' /\ Sends(s)'
<1>1. /\ room.status = "LoggedIn" /\ known # NoUser /\ websocket # NoSocket
      /\ room' = [room EXCEPT !.pending = @ + 1]
      /\ outbox' = Sent(websocket, ChatMessage)
      /\ UNCHANGED <<known, websocket, ready, savedSession, loginOnChallengeReceived,
                     signing, read>>
      /\ ClientTypes /\ room \in RoomStates /\ outbox \in [Own -> Seq(Mail)]
  BY DEF SendMessage, ClientInv, ClientTypes
<1>2. room'.status = room.status /\ room'.session = room.session
  BY <1>1 DEF RoomStates
<1>3. Hears(s)'
  <2>1. Rewired
    BY <1>1, NotRewired
  <2> QED BY <1>1, <1>2, <2>1, HearsKeeps
<1>4. CASE ready[s] = "open"
  <2>1. websocket = s /\ savedSession # NoSocket
    BY <1>1, <1>4 DEF Hears, ClientInv, WiresFit
  <2>2. outbox'[s] = Append(outbox[s], ChatMessage)
    BY <1>1, <1>4, <2>1 DEF Sent
  <2>3. ChatMessage \in Mail /\ ChatMessage \notin signing
    BY DEF Mail, Sends, ChatMessage, LoginMessage
  <2>4. signing' = signing \ {ChatMessage}
    BY <1>1, <2>3
  <2>5. Sends(s)'
    BY <1>1, <2>1, <2>2, <2>3, <2>4, MailSent
  <2> QED BY <1>3, <2>5
<1>5. CASE ready[s] # "open"
  <2>1. outbox'[s] = outbox[s] /\ s \in Sockets
    BY <1>1, <1>5, OnlyOpenSend, OwnAssumption
  <2>2. Aside(s) /\ UNCHANGED <<logins, verifiable>>
    BY <2>1, TurnsAside DEF vars
  <2>3. Sends(s)'
    BY <1>1, <1>5, <2>1, <2>2, SendsKeeps
  <2> QED BY <1>3, <2>3
<1> QED BY <1>4, <1>5

\* The page calls login().
LEMMA LogInSpeaks ==
    ASSUME ServerInv, ClientInv, Grows, NEW s \in Own, FirstFits(s),
           LogIn, UNCHANGED <<vars, verifiable>>, Hears(s), Sends(s)
    PROVE  Hears(s)' /\ Sends(s)'
<1>1. /\ CanLogin(room) /\ LoginStarts(room, known) /\ known # NoUser
      /\ UNCHANGED <<known, websocket, ready, savedSession, loginOnChallengeReceived,
                     outbox, read>>
      /\ ClientTypes /\ room \in RoomStates /\ known \in Users
  BY DEF LogIn, ClientInv, ClientTypes
<1>2. savedSession = s /\ savedSession # NoSocket /\ room.status # "LoggedIn"
  BY <1>1 DEF CanLogin, FirstFits
<1>3. /\ room' = LoggedOut(room, known, s)
      /\ signing' = signing \cup {LoginMessage(known, s)}
  BY <1>1, <1>2 DEF LoginStarts
<1>4. room'.status = "LoggedOut" /\ room'.session = s
  BY <1>1, <1>3, LoggedOutIs DEF OutOf
<1>5. /\ UNCHANGED <<sent, session, conn, logins, verifiable>> /\ (In(s)' <=> In(s))
      /\ LoginMessage(known, s)' = LoginMessage(known, s) /\ ChatMessage' = ChatMessage
      /\ Who(s, known)' = Who(s, known) /\ Received(s)' = Received(s)
  BY <1>1 DEF vars, In, LoginMessage, ChatMessage, Who, Received
<1>6. ready[s] = "open" => ~Announced(Received(s), Who(s, known))
  BY <1>1, <1>2 DEF Hears
<1>7. ready[s] \notin {"none", "connecting"}
  BY <1>2 DEF Hears
<1>8. Hears(s)'
  BY <1>1, <1>2, <1>4, <1>5, <1>6, <1>7 DEF Hears
<1>9. Sends(s)'
  BY <1>1, <1>2, <1>3, <1>5 DEF Sends
<1> QED BY <1>8, <1>9

\* An account comes, where there was none: it logs in at once when the challenge
\* has come, and else when it comes.
LEMMA AccountSpeaks ==
    ASSUME ServerInv, ClientInv, NEW s \in Own, FirstFits(s), Hears(s), Sends(s),
           known = NoUser, NEW u \in Users, NEW r, RegistrationChanges(known, u, r),
           known' = u, UNCHANGED <<vars, verifiable>>, UNCHANGED <<savedSession, read>>,
           ready'[s] = "open" => ready[s] = "open",
           ready'[s] \in {"none", "connecting"} => ready[s] \in {"none", "connecting"}
    PROVE  Hears(s)' /\ Sends(s)'
<1>1. /\ ClientTypes /\ room \in RoomStates /\ loginOnChallengeReceived \in BOOLEAN
      /\ u # NoUser /\ SavedField \in Own \cup {NoSocket, Undefined}
      /\ NoSocket # s /\ Undefined # s /\ NoSocket # Undefined
  BY SavedFieldType, NoUserAssumption, OwnAssumption, FieldAssumption
     DEF ClientInv, ClientTypes
<1>2. /\ UNCHANGED <<sent, session, conn, logins, verifiable>> /\ (In(s)' <=> In(s))
      /\ Received(s)' = Received(s) /\ (Challenged(s)' <=> Challenged(s))
  BY DEF vars, In, Received, Challenged
<1>3. /\ Silent(s) /\ session[s].address = NoUser /\ DOMAIN outbox[s] = {}
      /\ ~Comes(sent[s], 0, s, "joined")
  BY DEF Sends, Silent, In
<1>4. ready[s] = "open" => ~Announced(Received(s), Who(s, u))
  BY <1>3, NotAnnounced
<1>5. ready[s] = "open" => ~Announced(Received(s)', Who(s, known)')
  <2>1. Who(s, known)' = Who(s, u)
    BY DEF Who
  <2> QED BY <1>2, <1>4, <2>1
<1> DEFINE out == LoggedOut(room, u, SavedField)
<1>6. /\ out \in RoomStates /\ out.step = "Connected" /\ out.status = "LoggedOut"
      /\ out.session = SavedField
  BY <1>1, LoggedOutIs DEF OutOf
<1> HIDE DEF out
<1>7. /\ outbox' = outbox
      /\ \/ room.step = "Connecting" /\ signing' = signing
         \/ AutoLogin(out, u, loginOnChallengeReceived)
  BY <1>1 DEF RegistrationChanges, out
<1>8. ASSUME signing' = signing, ~(ready'[s] = "open" /\ savedSession = s) PROVE Sends(s)'
  <2>1. Silent(s)'
    BY <1>2, <1>3, <1>7, <1>8 DEF Silent
  <2> QED BY <1>2, <1>3, <1>7, <1>8, <2>1 DEF Sends, Silent
<1>9. CASE room.step = "Connecting" /\ signing' = signing
  <2>1. ready'[s] # "open"
    BY <1>9 DEF FirstFits
  <2>2. Hears(s)'
    BY <2>1 DEF Hears
  <2> QED BY <1>8, <1>9, <2>1, <2>2
<1>10. CASE AutoLogin(out, u, loginOnChallengeReceived) /\ savedSession = NoSocket
  <2>1. loginOnChallengeReceived' = TRUE /\ room' = out /\ signing' = signing
    BY <1>10 DEF AutoLogin
  <2>2. room'.status = "LoggedOut" /\ room'.session = Undefined
    BY <1>6, <1>10, <2>1 DEF SavedField
  <2>3. Hears(s)'
    BY <1>2, <1>5, <1>10, <2>1, <2>2 DEF Hears
  <2>4. Sends(s)'
    BY <1>1, <1>8, <1>10, <2>1
  <2> QED BY <2>3, <2>4
<1>11. CASE AutoLogin(out, u, loginOnChallengeReceived) /\ savedSession # NoSocket
  <2>1. savedSession = s /\ LoginStarts(out, u)
    BY <1>11 DEF AutoLogin, FirstFits
  <2>2. /\ room' = LoggedOut(out, u, s)
        /\ signing' = signing \cup {LoginMessage(u, s)}
    BY <1>1, <1>6, <2>1 DEF LoginStarts, CanLogin
  <2>3. room'.status = "LoggedOut" /\ room'.session = s
    BY <1>6, <2>2, LoggedOutIs DEF OutOf
  <2>4. ready[s] \notin {"none", "connecting"}
    BY <1>11 DEF Hears
  <2>5. Hears(s)'
    BY <1>1, <1>2, <1>5, <2>1, <2>3, <2>4 DEF Hears
  <2>6. signing' = {LoginMessage(known, s)'}
    BY <1>3, <2>2 DEF Silent, LoginMessage
  <2>7. /\ \A t \in logins' : t.socket # s
        /\ DOMAIN outbox'[s] = {} /\ session'[s].address = NoUser
        /\ ~Comes(sent'[s], 0, s, "joined")
    BY <1>2, <1>3, <1>7 DEF Silent
  <2>8. known' # NoUser /\ savedSession' # NoSocket
    BY <1>1, <2>1
  <2>9. Sends(s)'
    BY <2>6, <2>7, <2>8 DEF Sends
  <2> QED BY <2>5, <2>9
<1> QED BY <1>7, <1>9, <1>10, <1>11

\* Nothing of the connection changes but that it may close.
LEMMA NothingSpeaks ==
    ASSUME Platform = "bun", ServerInv, ClientInv, Grows, NEW s \in Own, Rewired,
           Hears(s), Sends(s), UNCHANGED <<vars, verifiable>>,
           UNCHANGED <<known, room, savedSession, loginOnChallengeReceived, signing, outbox>>,
           ready'[s] \in {"none", "connecting"} => ready[s] \in {"none", "connecting"}
    PROVE  Hears(s)' /\ Sends(s)'
<1>1. Hears(s)'
  BY HearsKeeps
<1>2. s \in Sockets
  BY OwnAssumption
<1>3. Aside(s) /\ UNCHANGED <<logins, verifiable, conn>>
  BY <1>2, TurnsAside DEF vars
<1>4. ready'[s] = "open" => ready[s] = "open"
  BY DEF Rewired
<1>5. Sends(s)'
  BY <1>3, <1>4, SendsKeeps
<1> QED BY <1>1, <1>5

LEMMA StartSpeaks ==
    ASSUME Platform = "bun", ServerInv, ClientInv, Grows, Steady, steady,
           NEW s \in Own, Start(s), UNCHANGED <<vars, verifiable>>,
           FirstFits(s), Hears(s), Sends(s)
    PROVE  Hears(s)' /\ Sends(s)'
<1>1. /\ ready[s] = "none" /\ ready' = [ready EXCEPT ![s] = "connecting"]
      /\ known' = registration /\ RegistrationChanges(known, registration, s)
      /\ UNCHANGED <<registration, savedSession, read>>
      /\ ready \in [Own -> {"none", "connecting", "open", "closing", "closed"}]
      /\ registration \in Users \cup {NoUser}
  BY DEF Start, ClientInv, ClientTypes
<1>2. Rewired /\ ready'[s] = "connecting"
  BY <1>1, StartFits
<1>3. CASE registration = known
  <2>1. UNCHANGED <<room, signing, outbox, loginOnChallengeReceived>>
    BY <1>1, <1>3 DEF RegistrationChanges
  <2> QED BY <1>1, <1>2, <1>3, <2>1, NothingSpeaks
<1>4. CASE registration # known
  <2>1. known = NoUser /\ registration \in Users
    BY <1>1, <1>4 DEF Steady
  <2> QED BY <1>1, <1>2, <2>1, AccountSpeaks
<1> QED BY <1>3, <1>4

LEMMA RegisterSpeaks ==
    ASSUME Platform = "bun", ServerInv, ClientInv, Grows, Steady, steady,
           registration = NoUser, NEW u \in Users \cup {NoUser}, ChangeRegistration(u),
           UNCHANGED <<vars, verifiable>>,
           NEW s \in Own, FirstFits(s), Hears(s), Sends(s)
    PROVE  Hears(s)' /\ Sends(s)'
<1>1. /\ UNCHANGED <<websocket, ready, savedSession, read, reported>>
      /\ u # registration
  BY DEF ChangeRegistration
<1>2. known = NoUser /\ u \in Users
  BY <1>1 DEF Steady
<1>3. CASE websocket = NoSocket
  <2>1. UNCHANGED <<known, room, signing, outbox, loginOnChallengeReceived>>
    BY <1>3 DEF ChangeRegistration
  <2>2. Rewired
    BY <1>1, NotRewired
  <2> QED BY <1>1, <2>1, <2>2, NothingSpeaks
<1>4. CASE websocket # NoSocket
  <2>1. known' = u /\ RegistrationChanges(known, u, websocket)
    BY <1>4 DEF ChangeRegistration
  <2> QED BY <1>1, <1>2, <2>1, AccountSpeaks
<1> QED BY <1>3, <1>4

\* What the client does speaks as the first connection should.
LEMMA ActsSpeak ==
    ASSUME Platform = "bun", ServerInv, ClientInv, Grows, Steady, ClientActs, steady',
           NEW s \in Own, First(s)', FirstFits(s), First(s), Hears(s), Sends(s)
    PROVE  Hears(s)' /\ Sends(s)'
<1>1. /\ ready \in [Own -> {"none", "connecting", "open", "closing", "closed"}]
      /\ websocket \in Own \cup {NoSocket}
  BY DEF ClientInv, ClientTypes
<1>2. /\ UNCHANGED <<vars, verifiable>>
      /\ steady /\ (registration = NoUser \/ registration' = registration)
  BY DEF ClientActs
<1>3. CASE Stop
  <2>1. /\ UNCHANGED <<known, room, savedSession, loginOnChallengeReceived, signing, outbox>>
        /\ Rewired
    BY <1>3, StopFits DEF Stop
  <2>2. ready'[s] \in {"none", "connecting"} => ready[s] \in {"none", "connecting"}
    BY <1>1, <1>3 DEF Stop
  <2> QED BY <1>2, <2>1, <2>2, NothingSpeaks
<1>4. ASSUME NEW r \in Own, Start(r) PROVE Hears(s)' /\ Sends(s)'
  <2>1. r = s
    BY <1>1, <1>4 DEF Start, First
  <2> QED BY <1>2, <1>4, <2>1, StartSpeaks
<1>5. ASSUME NEW u \in Users \cup {NoUser}, ChangeRegistration(u)
      PROVE  Hears(s)' /\ Sends(s)'
  <2>1. registration = NoUser
    BY <1>2, <1>5 DEF ChangeRegistration
  <2> QED BY <1>2, <1>5, <2>1, RegisterSpeaks
<1>6. ASSUME NEW m \in signing, Signed(m) PROVE Hears(s)' /\ Sends(s)'
  <2>1. UNCHANGED <<known, websocket, ready, read, room, savedSession,
                    loginOnChallengeReceived>>
    BY <1>6 DEF Signed
  <2>2. Hears(s)'
    <3>1. Rewired
      BY <2>1, NotRewired
    <3> QED BY <2>1, <3>1, HearsKeeps
  <2>3. Sends(s)'
    BY <1>2, <1>6, SignedSpeaks
  <2> QED BY <2>2, <2>3
<1>7. CASE LogIn
  BY <1>2, <1>7, LogInSpeaks
<1>8. CASE SendMessage
  BY <1>2, <1>8, SendMessageSpeaks
<1> QED BY <1>3, <1>4, <1>5, <1>6, <1>7, <1>8 DEF ClientActs

LEMMA LogsInStep ==
    ASSUME Platform = "bun", ServerInv, ClientInv, FirstsFit, Steady, OneLogin, LogsIn,
           [SystemNext]_systemVars
    PROVE  LogsIn'
<1> SUFFICES ASSUME NEW s \in Own, First(s)', steady', <<s, "login">> \notin refused'
             PROVE  Hears(s)' /\ Sends(s)'
  BY DEF LogsIn
<1>1. /\ First(s) /\ FirstFits(s) /\ steady
      /\ Hears(s) /\ Sends(s) /\ s \in Sockets
      /\ [Next]_vars /\ Grows /\ ServerInv'
  BY FirstStays, SteadyStep, RefusedStays, OwnAssumption, SystemTurns, ServerGrows,
     ClientStep DEF FirstsFit, LogsIn
<1>2. /\ ready \in [Own -> {"none", "connecting", "open", "closing", "closed"}]
      /\ websocket \in Own \cup {NoSocket}
      /\ outbox \in [Own -> Seq(Mail)]
      /\ conn \in [Sockets -> {"new", "open", "leaving", "closed"}]
      /\ session \in [Sockets -> Session]
  BY DEF ClientInv, ClientTypes, ServerInv, RoomInv, TypeOK
<1>3. \A r \in Own : r # s => ready[r] = "none"
  BY <1>1 DEF First
<1>4. ready[s] = "open" => websocket = s /\ conn[s] # "new"
  BY DEF ClientInv, WiresFit
<1>5. ready[s] = "open" /\ conn'[s] = "open" => conn[s] = "open"
  BY <1>1, <1>4, NoneReopens
<1>6. ASSUME UNCHANGED <<known, websocket, ready, read, room, savedSession,
                         loginOnChallengeReceived>>
      PROVE  Hears(s)'
  <2>1. Rewired
    BY <1>6, NotRewired
  <2> QED BY <1>1, <1>6, <2>1, HearsKeeps
<1>7. ASSUME UNCHANGED <<known, savedSession, signing>>, outbox'[s] = outbox[s],
             ready'[s] = "open" => ready[s] = "open", Aside(s),
             \A t \in logins' : t.socket = s =>
               t \in logins /\ (t.request \in verifiable => t.request \in verifiable'),
             \A t \in logins : t.socket = s => t \in logins'
      PROVE  Sends(s)'
  <2>1. ready'[s] = "open" /\ conn'[s] = "open" => ready[s] = "open" /\ conn[s] = "open"
    BY <1>5, <1>7
  <2> QED BY <1>1, <1>7, <2>1, SendsKeeps
<1>8. ASSUME UNCHANGED clientVars, Aside(s),
             \A t \in logins' : t.socket = s =>
               t \in logins /\ (t.request \in verifiable => t.request \in verifiable'),
             \A t \in logins : t.socket = s => t \in logins'
      PROVE  Hears(s)' /\ Sends(s)'
  BY <1>6, <1>7, <1>8 DEF clientVars
<1>9. ASSUME UNCHANGED <<vars, verifiable>>
      PROVE  /\ Aside(s)
             /\ \A t \in logins' : t.socket = s =>
                  t \in logins /\ (t.request \in verifiable => t.request \in verifiable')
             /\ \A t \in logins : t.socket = s => t \in logins'
  <2>1. UNCHANGED vars /\ UNCHANGED <<logins, verifiable>>
    BY <1>9 DEF vars
  <2>2. Aside(s)
    BY <1>1, <2>1, TurnsAside
  <2> QED BY <2>1, <2>2
<1>10. CASE ClientActs
  BY <1>1, <1>10, ActsSpeak
<1>11. ASSUME NEW r \in Sockets, Opens(r) PROVE Hears(s)' /\ Sends(s)'
  <2>1. Open(r) /\ verifiable' = verifiable /\ logins' = logins
    BY <1>11 DEF Opens, Open
  <2>2. CASE r \in Own
    <3>1. OnOpened(r)
      BY <1>11, <2>2 DEF Opens
    <3>2. r = s
      BY <1>3, <2>2, <3>1 DEF OnOpened
    <3> QED BY <1>1, <2>1, <3>1, <3>2, OpenSpeaks
  <2>3. CASE r \notin Own
    <3>1. UNCHANGED clientVars /\ r # s
      BY <1>11, <2>3 DEF Opens
    <3>2. Aside(s)
      BY <1>1, <2>1, <3>1, TurnsAside
    <3> QED BY <1>8, <2>1, <3>1, <3>2
  <2> QED BY <2>2, <2>3
<1>12. ASSUME NEW r \in Own, Breaks(r) PROVE Hears(s)' /\ Sends(s)'
  <2>1. /\ Disconnect(r) /\ UNCHANGED clientVars /\ r \in Sockets
        /\ verifiable' = verifiable
    BY <1>12, OwnAssumption DEF Breaks
  <2>2. Aside(s) /\ logins' = logins
    BY <1>1, <2>1, TurnsAside DEF Disconnect
  <2> QED BY <1>8, <2>1, <2>2
<1>13. ASSUME NEW r \in Own, ServerCloses(r) PROVE Hears(s)' /\ Sends(s)'
  <2>1. /\ CloseEvent(r) /\ outbox' = [outbox EXCEPT ![r] = <<>>] /\ r \in Sockets
        /\ UNCHANGED <<known, websocket, ready, read, room, savedSession,
                       loginOnChallengeReceived, signing, verifiable>>
    BY <1>13, OwnAssumption DEF ServerCloses
  <2>2. Hears(s)' /\ logins' = logins
    BY <1>6, <2>1 DEF CloseEvent
  <2>3. CASE r # s
    <3>1. Aside(s) /\ outbox'[s] = outbox[s]
      BY <1>1, <1>2, <2>1, <2>3, TurnsAside
    <3> QED BY <1>7, <2>1, <2>2, <3>1
  <2>4. CASE r = s
    BY <1>1, <1>2, <2>1, <2>2, <2>4, CloseSpeaks
  <2> QED BY <2>3, <2>4
<1>14. ASSUME NEW r \in Own, ServerReceives(r) PROVE Hears(s)' /\ Sends(s)'
  <2>1. Hears(s)'
    BY <1>6, <1>14 DEF ServerReceives
  <2>2. CASE r = s
    BY <1>1, <1>14, <2>1, <2>2, MailSpeaks
  <2>3. CASE r # s
    <3> DEFINE m == Head(outbox[r])
    <3>1. /\ outbox[r] # <<>> /\ outbox' = [outbox EXCEPT ![r] = Tail(@)]
          /\ UNCHANGED <<known, ready, savedSession, signing>>
          /\ \/ m.type = "login" /\ RequestLogin(r, m.user) /\ verifiable \subseteq verifiable'
             \/ Logout(r) /\ verifiable' = verifiable
             \/ (\E now \in Clock : SendChat(r, now)) /\ verifiable' = verifiable
             \/ UNCHANGED <<vars, verifiable>>
      BY <1>14 DEF ServerReceives, Handle, Refuse
    <3>2. r \in Sockets /\ (m.type = "login" => m.user \in Users)
      BY <3>1, HeadOfMail, OwnAssumption
    <3> HIDE DEF m
    <3>3. Aside(s)
      BY <1>1, <1>9, <2>3, <3>1, <3>2, TurnsAside
    <3>4. outbox'[s] = outbox[s]
      BY <1>2, <2>3, <3>1
    <3>5. /\ verifiable \subseteq verifiable'
          /\ logins' = logins \/ \E q : q.socket = r /\ logins' = logins \cup {q}
      <4>1. \A u : RequestLogin(r, u) => \E q : q.socket = r /\ logins' = logins \cup {q}
        BY DEF RequestLogin
      <4>2. Logout(r) \/ (\E now \in Clock : SendChat(r, now)) => logins' = logins
        BY DEF Logout, SendChat
      <4> QED BY <3>1, <4>1, <4>2 DEF vars
    <3> QED BY <1>7, <2>1, <2>3, <3>1, <3>3, <3>4, <3>5
  <2> QED BY <2>2, <2>3
<1>15. ASSUME NEW r \in Own, ClientCloses(r) PROVE Hears(s)' /\ Sends(s)'
  <2>1. /\ ready[r] \in {"closing", "open"} /\ ready' = [ready EXCEPT ![r] = "closed"]
        /\ UNCHANGED <<known, savedSession, signing, outbox>>
        /\ UNCHANGED <<vars, verifiable>>
    BY <1>15 DEF ClientCloses, OnClosed
  <2>2. r = s
    BY <1>3, <2>1
  <2>3. ready'[s] = "closed"
    BY <1>2, <2>1, <2>2
  <2>4. Hears(s)'
    BY <2>3 DEF Hears
  <2>5. Sends(s)'
    BY <1>7, <1>9, <2>1, <2>3
  <2> QED BY <2>4, <2>5
<1>16. ASSUME NEW r \in Own, OnMessage(r), UNCHANGED <<vars, verifiable>>
       PROVE  Hears(s)' /\ Sends(s)'
  <2>1. r = s
    BY <1>3, <1>16 DEF OnMessage
  <2> QED BY <1>1, <1>16, <2>1, FrameSpeaks
<1>17. ASSUME NEW r \in Peers, PeerActs(r) PROVE Hears(s)' /\ Sends(s)'
  <2>1. r \in Sockets \ {s} /\ UNCHANGED clientVars /\ verifiable' = verifiable
    BY <1>17 DEF Peers, PeerActs
  <2>2. Logout(r) \/ \E u \in Users : RequestLogin(r, u)
    BY <1>17 DEF PeerActs
  <2>3. Aside(s)
    BY <1>1, <2>1, <2>2, TurnsAside
  <2>4. logins' = logins \/ \E q : q.socket = r /\ logins' = logins \cup {q}
    BY <2>2 DEF Logout, RequestLogin
  <2> QED BY <1>8, <2>1, <2>3, <2>4
<1>18. ASSUME NEW t \in logins, LoginEnds(t) PROVE Hears(s)' /\ Sends(s)'
  <2>1. /\ LoginFails(t) \/ LoginRepeats(t) \/ LoginOpenRoom(t)
        /\ UNCHANGED clientVars
    BY <1>18 DEF LoginEnds
  <2>2. CASE t.socket = s
    <3>1. Hears(s)'
      BY <1>6, <2>1 DEF clientVars
    <3>2. Sends(s)'
      BY <1>1, <1>18, <2>2, LoginSpeaks
    <3> QED BY <3>1, <3>2
  <2>3. CASE t.socket # s
    <3>1. logins' = logins \ {t}
      BY <2>1 DEF LoginFails, LoginRepeats, LoginOpenRoom
    <3>2. \A q \in logins : q.socket # s
      BY <2>3 DEF OneLogin
    <3>3. Aside(s)
      BY <1>1, <2>1, <2>3, TurnsAside
    <3> QED BY <1>8, <2>1, <3>1, <3>2, <3>3
  <2> QED BY <2>2, <2>3
<1>19. CASE UNCHANGED systemVars
  <2>1. UNCHANGED clientVars /\ UNCHANGED <<vars, verifiable>>
    BY <1>19 DEF systemVars
  <2> QED BY <1>8, <1>9, <2>1
<1> QED BY <1>10, <1>11, <1>12, <1>13, <1>14, <1>15, <1>16, <1>17, <1>18, <1>19
        DEF SystemNext

\* With autoLogin the first connection of the client is logged in once all is
\* handled, whoever comes and goes, if it has an account that does not change any
\* more and the server has refused no login of it: whether the account is there
\* before the connection, comes while it opens, comes before the challenge is
\* handled, or after.
THEOREM FirstLogsIn ==
    ASSUME Platform = "bun"
    PROVE  SystemSpec => []FirstConnectionLogsIn
<1> DEFINE Inv == /\ ServerInv /\ ClientInv /\ FirstsFit
                  /\ Steady /\ OneLogin /\ LogsIn
<1>1. SystemInit => Inv
  <2> SUFFICES ASSUME SystemInit PROVE FirstsFit /\ Steady /\ OneLogin /\ LogsIn
    BY SystemStarts
  <2>1. FirstsFit
    BY DEF SystemInit, ClientInit, Connecting, FirstsFit, FirstFits
  <2>2. Steady
    BY DEF SystemInit, ClientInit, Connecting, Steady
  <2>3. OneLogin
    BY DEF SystemInit, Init, OneLogin
  <2>4. ASSUME NEW s \in Own PROVE Hears(s) /\ Sends(s)
    <3>1. /\ ready[s] = "none" /\ savedSession = NoSocket /\ signing = {} /\ outbox[s] = <<>>
          /\ s \in Sockets
      BY OwnAssumption DEF SystemInit, ClientInit
    <3>2. logins = {} /\ session[s].address = NoUser /\ sent[s] = <<>>
      BY <3>1 DEF SystemInit, Init, NewSession
    <3>3. DOMAIN sent[s] = {} /\ DOMAIN outbox[s] = {}
      BY <3>1, <3>2
    <3>4. Hears(s)
      BY <3>1 DEF Hears
    <3>5. Sends(s)
      BY <3>1, <3>2, <3>3 DEF Sends, Silent, Comes, In
    <3> QED BY <3>4, <3>5
  <2> QED BY <2>1, <2>2, <2>3, <2>4 DEF LogsIn
<1>2. Inv /\ [SystemNext]_systemVars => Inv'
  <2> SUFFICES ASSUME Inv, [SystemNext]_systemVars PROVE Inv'
    OBVIOUS
  <2>1. (ServerInv /\ ClientInv)' /\ FirstsFit' /\ OneLogin' /\ LogsIn'
    BY ClientStep, FirstsFitStep, OneLoginStep, LogsInStep
  <2>2. Steady'
    BY SteadyStep DEF Steady
  <2> QED BY <2>1, <2>2
<1>3. Inv => FirstConnectionLogsIn
  <2> SUFFICES ASSUME Inv, NEW s \in Own, Quiet(s), First(s), known # NoUser, steady,
                      <<s, "login">> \notin refused
               PROVE  room.status = "LoggedIn"
    BY DEF FirstConnectionLogsIn
  <2>1. /\ UpToDate(s) /\ ready[s] = "open" /\ conn[s] = "open" /\ read[s] = Len(sent[s])
        /\ outbox[s] = <<>> /\ signing = {} /\ logins = {}
        /\ s \in Sockets /\ NoSocket # s
    BY OwnAssumption, FieldAssumption DEF Quiet, UpToDate
  <2>2. Hears(s) /\ Sends(s) /\ FirstFits(s)
    BY DEF LogsIn, FirstsFit
  <2>3. ~Challenged(s)
    <3>1. sent[s] \in Seq(Frame)
      BY <2>1, ReadFits
    <3>2. \A i \in DOMAIN sent[s] : ~(i > Len(sent[s]))
      BY <3>1, LenProperties
    <3> QED BY <2>1, <3>2 DEF Challenged
  <2>4. savedSession = s
    BY <2>1, <2>2, <2>3 DEF Hears, FirstFits
  <2>5. ~Has(outbox[s], "login")
    <3>1. DOMAIN outbox[s] = {}
      BY <2>1
    <3> QED BY <3>1 DEF Has
  <2>6. In(s) /\ session[s].address = known
    BY <2>1, <2>2, <2>4, <2>5 DEF Sends, In
  <2>7. s \in sessions /\ known \in Users
    BY <2>1 DEF ServerInv, RoomInv, RosterInvariant, ClientInv, ClientTypes
  <2>8. Announced(Received(s), Who(s, known))
    BY <2>1, <2>6, <2>7, UpToDateFits
  <2> QED BY <2>1, <2>2, <2>8 DEF Hears
<1> HIDE DEF Inv
<1> QED BY <1>1, <1>2, <1>3, PTL DEF SystemSpec
=============================================================================
