---------------------------- MODULE Roster_proofs ----------------------------
(***************************************************************************)
(* Theorems about what the clients of a room are told of each other, for   *)
(* every set of connections and users, every clock and every bound.        *)
(***************************************************************************)
EXTENDS Room_proofs

-----------------------------------------------------------------------------
(* Announcements in sequences of frames. *)

\* frames say that p has left.
Leaves(frames, p) ==
    \E i \in DOMAIN frames : frames[i].type = "quit" /\ p \in frames[i].who

LEMMA Concat ==
    ASSUME NEW S, NEW a \in Seq(S), NEW b \in Seq(S)
    PROVE  /\ a \o b \in Seq(S)
           /\ Len(a) \in Nat /\ Len(b) \in Nat
           /\ DOMAIN a = 1..Len(a) /\ DOMAIN b = 1..Len(b)
           /\ DOMAIN (a \o b) = 1..(Len(a) + Len(b))
           /\ \A i \in 1..Len(a) : (a \o b)[i] = a[i]
           /\ \A i \in 1..Len(b) : (a \o b)[Len(a) + i] = b[i]
<1> DEFINE c == a \o b
<1>1. /\ Len(a) \in Nat /\ Len(b) \in Nat
      /\ DOMAIN a = 1..Len(a) /\ DOMAIN b = 1..Len(b)
  BY LenProperties
<1>2. /\ c \in Seq(S) /\ Len(c) = Len(a) + Len(b)
      /\ \A i \in 1..(Len(a) + Len(b)) :
           c[i] = IF i <= Len(a) THEN a[i] ELSE b[i - Len(a)]
  BY ConcatProperties
<1> HIDE DEF c
<1>3. DOMAIN c = 1..(Len(a) + Len(b))
  BY <1>2, LenProperties
<1>4. ASSUME NEW i \in 1..Len(a) PROVE c[i] = a[i]
  BY <1>1, <1>2, <1>4
<1>5. ASSUME NEW i \in 1..Len(b) PROVE c[Len(a) + i] = b[i]
  <2>1. /\ Len(a) + i \in 1..(Len(a) + Len(b))
        /\ ~(Len(a) + i <= Len(a)) /\ (Len(a) + i) - Len(a) = i
    BY <1>1, <1>5
  <2> QED BY <1>2, <2>1
<1> QED BY <1>1, <1>2, <1>3, <1>4, <1>5 DEF c

\* Frames after others announce p, or leave it announced.
LEMMA AnnouncedConcat ==
    ASSUME NEW a \in Seq(Frame), NEW b \in Seq(Frame), NEW p
    PROVE  Announced(a \o b, p) <=>
             Announced(b, p) \/ (Announced(a, p) /\ ~Leaves(b, p))
<1> DEFINE c == a \o b
<1>1. /\ Len(a) \in Nat /\ Len(b) \in Nat
      /\ DOMAIN a = 1..Len(a) /\ DOMAIN b = 1..Len(b)
      /\ DOMAIN c = 1..(Len(a) + Len(b))
      /\ \A i \in 1..Len(a) : c[i] = a[i]
      /\ \A i \in 1..Len(b) : c[Len(a) + i] = b[i]
  BY Concat
<1> HIDE DEF c
<1>2. \A i \in 1..(Len(a) + Len(b)) : i <= Len(a) \/ i - Len(a) \in 1..Len(b)
  BY <1>1
<1>3. \A i \in 1..Len(b) : Len(a) + i \in DOMAIN c /\ Len(a) + i > Len(a)
  BY <1>1
<1>4. ASSUME NEW i \in DOMAIN c, c[i].type = "joined", p \in c[i].who,
             \A j \in DOMAIN c : j > i /\ c[j].type = "quit" => p \notin c[j].who
      PROVE  Announced(b, p) \/ (Announced(a, p) /\ ~Leaves(b, p))
  <2>1. CASE i <= Len(a)
    <3>1. i \in DOMAIN a /\ a[i] = c[i]
      BY <1>1, <2>1
    <3>2. ASSUME NEW j \in DOMAIN a, j > i, a[j].type = "quit"
          PROVE  p \notin a[j].who
      <4>1. j \in DOMAIN c /\ c[j] = a[j]
        BY <1>1, <3>2
      <4> QED BY <1>4, <3>2, <4>1
    <3>3. ASSUME NEW j \in DOMAIN b, b[j].type = "quit"
          PROVE  p \notin b[j].who
      <4>1. Len(a) + j \in DOMAIN c /\ c[Len(a) + j] = b[j] /\ Len(a) + j > i
        BY <1>1, <2>1, <3>1, <3>3
      <4> QED BY <1>4, <3>3, <4>1
    <3> QED BY <1>4, <3>1, <3>2, <3>3 DEF Announced, Leaves
  <2>2. CASE ~(i <= Len(a))
    <3> DEFINE k == i - Len(a)
    <3>1. k \in DOMAIN b /\ b[k] = c[i]
      <4>1. k \in 1..Len(b) /\ Len(a) + k = i
        BY <1>1, <1>2, <2>2
      <4> QED BY <1>1, <4>1
    <3>2. ASSUME NEW j \in DOMAIN b, j > k, b[j].type = "quit"
          PROVE  p \notin b[j].who
      <4>1. Len(a) + j \in DOMAIN c /\ c[Len(a) + j] = b[j] /\ Len(a) + j > i
        BY <1>1, <3>1, <3>2
      <4> QED BY <1>4, <3>2, <4>1
    <3> QED BY <1>4, <3>1, <3>2 DEF Announced
  <2> QED BY <2>1, <2>2
<1>5. ASSUME NEW i \in DOMAIN b, b[i].type = "joined", p \in b[i].who,
             \A j \in DOMAIN b : j > i /\ b[j].type = "quit" => p \notin b[j].who
      PROVE  Announced(c, p)
  <2>1. Len(a) + i \in DOMAIN c /\ c[Len(a) + i] = b[i]
    BY <1>1, <1>3
  <2>2. ASSUME NEW j \in DOMAIN c, j > Len(a) + i, c[j].type = "quit"
        PROVE  p \notin c[j].who
    <3> DEFINE k == j - Len(a)
    <3>1. k \in DOMAIN b /\ Len(a) + k = j /\ k > i
      BY <1>1, <1>2, <2>2
    <3>2. b[k] = c[j]
      BY <1>1, <3>1
    <3> QED BY <1>5, <2>2, <3>1, <3>2
  <2> QED BY <1>5, <2>1, <2>2 DEF Announced
<1>6. ASSUME NEW i \in DOMAIN a, a[i].type = "joined", p \in a[i].who,
             \A j \in DOMAIN a : j > i /\ a[j].type = "quit" => p \notin a[j].who,
             ~Leaves(b, p)
      PROVE  Announced(c, p)
  <2>1. i \in DOMAIN c /\ c[i] = a[i]
    BY <1>1
  <2>2. ASSUME NEW j \in DOMAIN c, j > i, c[j].type = "quit"
        PROVE  p \notin c[j].who
    <3>1. CASE j <= Len(a)
      <4>1. j \in DOMAIN a /\ a[j] = c[j]
        BY <1>1, <3>1
      <4> QED BY <1>6, <2>2, <4>1
    <3>2. CASE ~(j <= Len(a))
      <4>1. j - Len(a) \in DOMAIN b /\ Len(a) + (j - Len(a)) = j
        BY <1>1, <1>2, <3>2
      <4>2. b[j - Len(a)] = c[j]
        BY <1>1, <4>1
      <4> QED BY <1>6, <2>2, <4>1, <4>2 DEF Leaves
    <3> QED BY <3>1, <3>2
  <2> QED BY <1>6, <2>1, <2>2 DEF Announced
<1>7. Announced(c, p) => Announced(b, p) \/ (Announced(a, p) /\ ~Leaves(b, p))
  BY <1>4 DEF Announced
<1>8. Announced(b, p) => Announced(c, p)
  BY <1>5 DEF Announced
<1>9. Announced(a, p) /\ ~Leaves(b, p) => Announced(c, p)
  BY <1>6 DEF Announced
<1> QED BY <1>7, <1>8, <1>9 DEF c

LEMMA LeavesConcat ==
    ASSUME NEW a \in Seq(Frame), NEW b \in Seq(Frame), NEW p
    PROVE  Leaves(a \o b, p) <=> Leaves(a, p) \/ Leaves(b, p)
<1> DEFINE c == a \o b
<1>1. /\ Len(a) \in Nat /\ Len(b) \in Nat
      /\ DOMAIN a = 1..Len(a) /\ DOMAIN b = 1..Len(b)
      /\ DOMAIN c = 1..(Len(a) + Len(b))
      /\ \A i \in 1..Len(a) : c[i] = a[i]
      /\ \A i \in 1..Len(b) : c[Len(a) + i] = b[i]
  BY Concat
<1> HIDE DEF c
<1>2. ASSUME NEW i \in DOMAIN c, c[i].type = "quit", p \in c[i].who
      PROVE  Leaves(a, p) \/ Leaves(b, p)
  <2>1. CASE i <= Len(a)
    <3>1. i \in DOMAIN a /\ a[i] = c[i]
      BY <1>1, <2>1
    <3> QED BY <1>2, <3>1 DEF Leaves
  <2>2. CASE ~(i <= Len(a))
    <3>1. i - Len(a) \in DOMAIN b /\ Len(a) + (i - Len(a)) = i
      BY <1>1, <2>2
    <3>2. b[i - Len(a)] = c[i]
      BY <1>1, <3>1
    <3> QED BY <1>2, <3>1, <3>2 DEF Leaves
  <2> QED BY <2>1, <2>2
<1>3. ASSUME NEW i \in DOMAIN a, a[i].type = "quit", p \in a[i].who
      PROVE  Leaves(c, p)
  <2>1. i \in DOMAIN c /\ c[i] = a[i]
    BY <1>1
  <2> QED BY <1>3, <2>1 DEF Leaves
<1>4. ASSUME NEW i \in DOMAIN b, b[i].type = "quit", p \in b[i].who
      PROVE  Leaves(c, p)
  <2>1. Len(a) + i \in DOMAIN c /\ c[Len(a) + i] = b[i]
    BY <1>1
  <2> QED BY <1>4, <2>1 DEF Leaves
<1>5. Leaves(c, p) => Leaves(a, p) \/ Leaves(b, p)
  BY <1>2 DEF Leaves
<1>6. (Leaves(a, p) => Leaves(c, p)) /\ (Leaves(b, p) => Leaves(c, p))
  BY <1>3, <1>4 DEF Leaves
<1> QED BY <1>5, <1>6 DEF c

\* A frame alone, or none.
LEMMA OneFrame ==
    ASSUME NEW f \in Frame, NEW p
    PROVE  /\ <<f>> \in Seq(Frame)
           /\ Announced(<<f>>, p) <=> f.type = "joined" /\ p \in f.who
           /\ Leaves(<<f>>, p) <=> f.type = "quit" /\ p \in f.who
           /\ ~Announced(<<>>, p) /\ ~Leaves(<<>>, p)
<1>1. DOMAIN <<f>> = {1} /\ <<f>>[1] = f
  OBVIOUS
<1>2. Announced(<<f>>, p) <=> f.type = "joined" /\ p \in f.who
  BY <1>1 DEF Announced
<1>3. Leaves(<<f>>, p) <=> f.type = "quit" /\ p \in f.who
  BY <1>1 DEF Leaves
<1>4. ~Announced(<<>>, p) /\ ~Leaves(<<>>, p)
  BY DEF Announced, Leaves
<1> QED BY <1>2, <1>3, <1>4

\* Messages tell nothing of who is there.
LEMMA MessagesSayNothing ==
    ASSUME NEW frames \in Seq(Message), NEW p
    PROVE  frames \in Seq(Frame) /\ ~Announced(frames, p) /\ ~Leaves(frames, p)
<1>1. frames \in Seq(Frame)
  BY FrameTypes, SeqMonotonic
<1>2. \A i \in DOMAIN frames : frames[i] \in Message
  BY ElementOfSeq, LenProperties
<1>3. \A i \in DOMAIN frames : frames[i].type = "chat"
  BY <1>2 DEF Message
<1> QED BY <1>1, <1>3 DEF Announced, Leaves

\* What a broadcast tells of a connection that it does not drop is what the
\* frame tells.
LEMMA BurstTells ==
    ASSUME NEW frame \in Frame, NEW F \in SUBSET Sockets,
           NEW ses \in [Sockets -> Session], NEW q \in Sockets \ F, NEW u
    PROVE  /\ Burst(frame, F, ses) \in Seq(Frame)
           /\ Announced(Burst(frame, F, ses), Who(q, u)) <=>
                frame.type = "joined" /\ Who(q, u) \in frame.who
           /\ Leaves(Burst(frame, F, ses), Who(q, u)) <=>
                frame.type = "quit" /\ Who(q, u) \in frame.who
<1> DEFINE who == {Who(r, ses[r].address) : r \in {x \in F : ses[x].address # NoUser}}
           p   == Who(q, u)
<1>1. \A r \in Sockets : ses[r].address \in Users \cup {NoUser}
  BY DEF Session
<1>2. Quit(who) \in Frame
  BY <1>1, WhoType, FrameTypes
<1>3. p \notin who
  BY DEF Who
<1>4. Quit(who).type = "quit" /\ Quit(who).who = who
  BY DEF Quit
<1> HIDE DEF who, p
<1>5. /\ QuitsOf(F, ses) \in Seq(Frame)
      /\ ~Announced(QuitsOf(F, ses), p) /\ ~Leaves(QuitsOf(F, ses), p)
  <2>1. QuitsOf(F, ses) = IF who = {} THEN <<>> ELSE <<Quit(who)>>
    BY DEF QuitsOf, who
  <2> QED BY <1>2, <1>3, <1>4, <2>1, OneFrame, EmptySeq
<1>6. /\ <<frame>> \in Seq(Frame)
      /\ Announced(<<frame>>, p) <=> frame.type = "joined" /\ p \in frame.who
      /\ Leaves(<<frame>>, p) <=> frame.type = "quit" /\ p \in frame.who
  BY OneFrame
<1>7. Burst(frame, F, ses) = <<frame>> \o QuitsOf(F, ses)
  BY DEF Burst
<1>8. Burst(frame, F, ses) \in Seq(Frame)
  BY <1>5, <1>6, <1>7, ConcatProperties
<1> DEFINE one  == <<frame>>
           rest == QuitsOf(F, ses)
<1> HIDE DEF one, rest
<1>9. /\ one \in Seq(Frame) /\ rest \in Seq(Frame) /\ Burst(frame, F, ses) = one \o rest
      /\ ~Announced(rest, p) /\ ~Leaves(rest, p)
  BY <1>5, <1>6, <1>7 DEF one, rest
<1>10. Announced(one \o rest, p) <=> Announced(one, p)
  BY <1>9, AnnouncedConcat
<1>11. Leaves(one \o rest, p) <=> Leaves(one, p)
  BY <1>9, LeavesConcat
<1> QED BY <1>6, <1>8, <1>9, <1>10, <1>11 DEF one, p

-----------------------------------------------------------------------------
(* The roster. *)

\* The connections that the others know the user of: those that are open, not
\* yet open, and on Bun, where no send drops any, all that have a session.
Listed == {s \in Sockets : \/ conn[s] \in {"new", "open"}
                           \/ Platform = "bun" /\ s \in sessions}

\* Each connected client has been told who the listed connections are.
Known(streams, ses, receivers, listed) ==
    \A r \in receivers, s \in listed, u \in Users :
      Announced(streams[r], Who(s, u)) <=> ses[s].address = u

Connected == {c \in Sockets : conn[c] = "open"}

\* RosterExact with what it needs: about whom a client has been told, who is in
\* the map, and what an eviction would restore.
RosterInvariant ==
    /\ Known(sent, session, Connected, Listed)
    /\ \A s \in Sockets : /\ conn[s] = "open" => s \in sessions
                          /\ conn[s] = "new" => /\ s \notin sessions
                                                /\ session[s].address = NoUser
    /\ \A t \in logins : /\ conn[t.socket] # "new" /\ t.step = "db"
                         /\ Platform = "bun" => t.socket \in sessions
    /\ Platform = "cf" =>
         \A s \in Connected : attachment[s].address = session[s].address

LEMMA ThrowingFits ==
    ASSUME NEW S, NEW ses, NEW F \in Throwing(S, ses)
    PROVE  /\ F \subseteq S /\ (Platform = "bun" => F = {})
           /\ \A r \in F : conn[r] # "open"
BY PlatformAssumption DEF Throwing

\* In a room open to all, every session is served, but those that leave the map,
\* which are not connected.
LEMMA DeliverOpen ==
    ASSUME ~gated, TypeOK, RosterInvariant,
           NEW frames, NEW ses \in [Sockets -> Session], NEW F,
           F \subseteq sessions, \A r \in F : conn[r] # "open",
           Deliver(frames, F, ses, sent)
    PROVE  /\ session' = ses /\ sessions' = sessions \ F
           /\ \A r \in Connected : sent'[r] = sent[r] \o frames
<1>1. \A r \in Sockets : ~Blocked(ses[r])
  BY DEF Blocked
<1>2. session' = ses
  BY <1>1 DEF Deliver
<1>3. ASSUME NEW r \in Connected PROVE sent'[r] = sent[r] \o frames
  <2>1. r \in Sockets /\ conn[r] = "open" /\ r \in sessions \ F
    BY <1>3 DEF Connected, RosterInvariant
  <2> QED BY <1>1, <2>1 DEF Deliver
<1> QED BY <1>2, <1>3 DEF Deliver

\* All that a delivery needs to keep everyone informed: each frame tells what
\* has become of the users.
LEMMA KnownAfter ==
    ASSUME TypeOK, NEW frames \in Seq(Frame), NEW ses, NEW listed,
           listed \subseteq Listed,
           Known(sent, session, Connected, Listed),
           \A r \in Connected : sent'[r] = sent[r] \o frames,
           \A s \in listed, u \in Users :
             ses[s].address = u <=>
               \/ Announced(frames, Who(s, u))
               \/ session[s].address = u /\ ~Leaves(frames, Who(s, u))
    PROVE  Known(sent', ses, Connected, listed)
<1>1. ASSUME NEW r \in Connected, NEW s \in listed, NEW u \in Users
      PROVE  Announced(sent'[r], Who(s, u)) <=> ses[s].address = u
  <2>1. sent[r] \in Seq(Frame)
    BY DEF Connected, TypeOK
  <2>2. Announced(sent[r], Who(s, u)) <=> session[s].address = u
    BY DEF Known
  <2>3. Announced(sent[r] \o frames, Who(s, u)) <=>
          \/ Announced(frames, Who(s, u))
          \/ Announced(sent[r], Who(s, u)) /\ ~Leaves(frames, Who(s, u))
    BY <2>1, AnnouncedConcat
  <2> QED BY <2>2, <2>3
<1> QED BY <1>1 DEF Known

\* What is told to all comes with the change that it tells of.
LEMMA SpeakStep ==
    ASSUME ~gated, TypeOK, RosterInvariant, UNCHANGED conn, logins' \subseteq logins,
           NEW frames \in Seq(Frame), NEW ses \in [Sockets -> Session],
           NEW S, NEW any, NEW F \in Throwing(S, any), S = sessions,
           Deliver(frames, F, ses, sent),
           \A s \in Listed \ F, u \in Users :
             ses[s].address = u <=>
               \/ Announced(frames, Who(s, u))
               \/ session[s].address = u /\ ~Leaves(frames, Who(s, u)),
           \A s \in Sockets : conn[s] = "new" => ses[s].address = NoUser,
           Platform = "cf" =>
             \A s \in Connected : attachment'[s].address = ses[s].address
    PROVE  RosterInvariant'
<1>1. /\ F \subseteq sessions /\ (Platform = "bun" => F = {})
      /\ \A r \in F : conn[r] # "open"
  BY ThrowingFits
<1>2. /\ session' = ses /\ sessions' = sessions \ F
      /\ \A r \in Connected : sent'[r] = sent[r] \o frames
  BY <1>1, DeliverOpen
<1>3. /\ Connected' = Connected
      /\ Listed' \subseteq Listed \ F
  <2>1. \A s \in Sockets : conn[s] = "new" => s \notin sessions
    BY DEF RosterInvariant
  <2> QED BY <1>1, <1>2, <2>1 DEF Connected, Listed
<1>4. Known(sent', session', Connected', Listed')
  <2>1. Listed' \subseteq Listed
    BY <1>3
  <2>2. \A s \in Listed', u \in Users :
             ses[s].address = u <=>
               \/ Announced(frames, Who(s, u))
               \/ session[s].address = u /\ ~Leaves(frames, Who(s, u))
    BY <1>3
  <2>3. Known(sent, session, Connected, Listed)
    BY DEF RosterInvariant
  <2> DEFINE listed == Listed'
  <2> HIDE DEF listed
  <2>4. Known(sent', ses, Connected, listed)
    BY <1>2, <2>1, <2>2, <2>3, KnownAfter DEF listed
  <2> QED BY <1>2, <1>3, <2>4 DEF listed
<1>5. \A s \in Sockets : /\ conn'[s] = "open" => s \in sessions'
                         /\ conn'[s] = "new" => /\ s \notin sessions'
                                                /\ session'[s].address = NoUser
  BY <1>1, <1>2 DEF RosterInvariant
<1>6. \A t \in logins' : /\ conn'[t.socket] # "new" /\ t.step = "db"
                         /\ Platform = "bun" => t.socket \in sessions'
  BY <1>1, <1>2 DEF RosterInvariant
<1>7. Platform = "cf" =>
        \A s \in Connected' : attachment'[s].address = session'[s].address
  BY <1>2, <1>3
<1> QED BY <1>4, <1>5, <1>6, <1>7 DEF RosterInvariant

LEMMA WhoIs ==
    \A r, s, u, v : Who(r, u) = Who(s, v) <=> r = s /\ u = v
<1>1. ASSUME NEW r, NEW s, NEW u, NEW v, Who(r, u) = Who(s, v)
      PROVE  r = s /\ u = v
  <2>1. Who(r, u).id = Who(s, v).id /\ Who(r, u).user = Who(s, v).user
    BY <1>1
  <2> QED BY <2>1 DEF Who
<1> QED BY <1>1

\* saveSocketData records the user, where anything is recorded.
LEMMA SaveUser ==
    ASSUME attachment \in [Sockets -> Attachment], NEW s \in Sockets, NEW user,
           NEW authorized, Save(s, user, authorized)
    PROVE  Platform = "cf" =>
             \A r \in Sockets : attachment'[r].address =
               IF r = s THEN user ELSE attachment[r].address
BY DEF Save, Attachment

\* Joined and quit frames.
LEMMA Presences ==
    ASSUME NEW s \in Sockets, NEW u \in Users \cup {NoUser}
    PROVE  /\ Joined({Who(s, u)}) \in Frame /\ Quit({Who(s, u)}) \in Frame
           /\ Joined({Who(s, u)}).type = "joined" /\ Joined({Who(s, u)}).who = {Who(s, u)}
           /\ Quit({Who(s, u)}).type = "quit" /\ Quit({Who(s, u)}).who = {Who(s, u)}
<1>1. {Who(s, u)} \in SUBSET Presence
  BY WhoType
<1> QED BY <1>1, FrameTypes DEF Joined, Quit

\* Login, logout and switch are told.
LEMMA LoginRoster ==
    ASSUME ~gated, TypeOK, RosterInvariant, NEW t \in logins, LoginOpenRoom(t)
    PROVE  RosterInvariant'
<1> DEFINE s    == t.socket
           old  == session[s].address
           ses  == [session EXCEPT ![s].address = t.user]
           join == Joined({Who(s, t.user)})
           quit == Quit({Who(s, old)})
           frames(F) == IF old = NoUser THEN Burst(join, F, ses)
                        ELSE Burst(quit, F, session) \o <<join>>
<1>1. /\ s \in Sockets /\ t.user \in Users /\ old \in Users \cup {NoUser}
      /\ \A q \in Sockets : session[q].address \in Users \cup {NoUser}
      /\ conn[s] # "new"
  BY DEF TypeOK, Login, Session, RosterInvariant
<1>2. ses \in [Sockets -> Session]
  BY <1>1, SessionUpdate DEF TypeOK
<1>3. \A q \in Sockets :
        ses[q].address = IF q = s THEN t.user ELSE session[q].address
  BY <1>1 DEF TypeOK, Session
<1>4. /\ old # t.user /\ UNCHANGED conn /\ logins' \subseteq logins
      /\ Save(s, t.user, session[s].authorized)
      /\ \E F \in Throwing(sessions, session) : Deliver(frames(F), F, ses, sent)
  BY DEF LoginOpenRoom
<1>5. /\ join \in Frame /\ join.type = "joined" /\ join.who = {Who(s, t.user)}
      /\ quit \in Frame /\ quit.type = "quit" /\ quit.who = {Who(s, old)}
  BY <1>1, Presences
<1>6. session \in [Sockets -> Session] /\ sessions \in SUBSET Sockets
      /\ attachment \in [Sockets -> Attachment]
  BY DEF TypeOK
<1>7. Platform = "cf" =>
        \A r \in Connected : attachment'[r].address = ses[r].address
  BY <1>1, <1>3, <1>4, <1>6, SaveUser DEF RosterInvariant, Connected
<1>8. \A r \in Sockets : conn[r] = "new" => ses[r].address = NoUser
  BY <1>1, <1>3 DEF RosterInvariant
<1> HIDE DEF s, old, ses, join, quit
<1>9. PICK F \in Throwing(sessions, session) : Deliver(frames(F), F, ses, sent)
  BY <1>4
<1>10. F \in SUBSET Sockets
  BY <1>6, <1>9, ThrowingFits
<1>11. ASSUME NEW q \in Sockets \ F, NEW u \in Users
       PROVE  /\ frames(F) \in Seq(Frame)
              /\ ses[q].address = u <=>
                   \/ Announced(frames(F), Who(q, u))
                   \/ session[q].address = u /\ ~Leaves(frames(F), Who(q, u))
  <2>1. CASE old = NoUser
    <3>1. /\ frames(F) \in Seq(Frame)
          /\ Announced(frames(F), Who(q, u)) <=> Who(q, u) = Who(s, t.user)
          /\ ~Leaves(frames(F), Who(q, u))
      BY <1>2, <1>5, <1>10, <2>1, BurstTells
    <3>2. q = s => session[q].address # u
      BY <2>1, NoUserAssumption DEF old
    <3> QED BY <1>1, <1>3, <3>1, <3>2, WhoIs
  <2>2. CASE old # NoUser
    <3> DEFINE first == Burst(quit, F, session)
               last  == <<join>>
    <3>1. /\ first \in Seq(Frame)
          /\ ~Announced(first, Who(q, u))
          /\ Leaves(first, Who(q, u)) <=> Who(q, u) = Who(s, old)
      BY <1>5, <1>6, <1>10, BurstTells
    <3>2. /\ last \in Seq(Frame)
          /\ Announced(last, Who(q, u)) <=> Who(q, u) = Who(s, t.user)
          /\ ~Leaves(last, Who(q, u))
      BY <1>5, OneFrame
    <3>3. frames(F) = first \o last
      BY <2>2
    <3> HIDE DEF first, last, frames
    <3>4. /\ frames(F) \in Seq(Frame)
          /\ Announced(frames(F), Who(q, u)) <=> Who(q, u) = Who(s, t.user)
          /\ Leaves(frames(F), Who(q, u)) <=> Who(q, u) = Who(s, old)
      BY <3>1, <3>2, <3>3, ConcatProperties, AnnouncedConcat, LeavesConcat
    <3> QED BY <1>1, <1>3, <1>4, <3>4, WhoIs DEF old
  <2> QED BY <2>1, <2>2
<1>12. frames(F) \in Seq(Frame)
  <2>1. CASE old = NoUser
    BY <1>2, <1>5, <1>10, <2>1, BurstType
  <2>2. CASE old # NoUser
    BY <1>5, <1>6, <1>10, <2>2, BurstType, OneFrame, ConcatProperties
  <2> QED BY <2>1, <2>2
<1> HIDE DEF frames
<1>13. Listed \ F \subseteq Sockets \ F
  BY DEF Listed
<1> QED BY <1>2, <1>4, <1>7, <1>8, <1>9, <1>11, <1>12, <1>13, SpeakStep

LEMMA LogoutRoster ==
    ASSUME ~gated, TypeOK, RosterInvariant, NEW s \in Sockets, Logout(s)
    PROVE  RosterInvariant'
<1> DEFINE old  == session[s].address
           ses  == [session EXCEPT ![s].address = NoUser]
           quit == Quit({Who(s, old)})
<1>1. /\ old \in Users \cup {NoUser} /\ conn[s] # "new"
      /\ session \in [Sockets -> Session] /\ sessions \in SUBSET Sockets
      /\ attachment \in [Sockets -> Attachment]
  BY DEF TypeOK, Session, RosterInvariant, Logout, Request
<1>2. ses \in [Sockets -> Session]
  BY <1>1, SessionUpdate
<1>3. \A q \in Sockets :
        ses[q].address = IF q = s THEN NoUser ELSE session[q].address
  BY <1>1 DEF Session
<1>4. /\ UNCHANGED conn /\ logins' \subseteq logins
      /\ Save(s, NoUser, session[s].authorized)
      /\ \E F \in Throwing(sessions, session) :
           Deliver(Burst(quit, F, session), F, ses, sent)
  BY DEF Logout
<1>5. quit \in Frame /\ quit.type = "quit" /\ quit.who = {Who(s, old)}
  BY <1>1, Presences
<1>6. Platform = "cf" =>
        \A r \in Connected : attachment'[r].address = ses[r].address
  BY <1>1, <1>3, <1>4, SaveUser DEF RosterInvariant, Connected
<1>7. \A r \in Sockets : conn[r] = "new" => ses[r].address = NoUser
  BY <1>1, <1>3 DEF RosterInvariant
<1> HIDE DEF old, ses, quit
<1>8. PICK F \in Throwing(sessions, session) :
        Deliver(Burst(quit, F, session), F, ses, sent)
  BY <1>4
<1>9. F \in SUBSET Sockets
  BY <1>1, <1>8, ThrowingFits
<1> DEFINE frames == Burst(quit, F, session)
<1>10. frames \in Seq(Frame)
  BY <1>1, <1>5, <1>9, BurstType
<1>11. ASSUME NEW q \in Sockets \ F, NEW u \in Users
       PROVE  ses[q].address = u <=>
                \/ Announced(frames, Who(q, u))
                \/ session[q].address = u /\ ~Leaves(frames, Who(q, u))
  <2>1. /\ ~Announced(frames, Who(q, u))
        /\ Leaves(frames, Who(q, u)) <=> Who(q, u) = Who(s, old)
    BY <1>1, <1>5, <1>9, BurstTells
  <2> QED BY <1>3, <2>1, WhoIs, NoUserAssumption DEF old
<1> HIDE DEF frames
<1>12. Deliver(frames, F, ses, sent)
  BY <1>8 DEF frames
<1>13. Listed \ F \subseteq Sockets \ F
  BY DEF Listed
<1> QED BY <1>2, <1>4, <1>6, <1>7, <1>8, <1>10, <1>11, <1>12, <1>13, SpeakStep

\* A message says nothing of its sender's presence.
LEMMA ChatRoster ==
    ASSUME ~gated, TypeOK, RosterInvariant, NEW s \in Sockets, NEW now \in Clock,
           SendChat(s, now)
    PROVE  RosterInvariant'
<1> DEFINE chat == Chat(Stamp(now), session[s].address)
<1>1. /\ session \in [Sockets -> Session] /\ sessions \in SUBSET Sockets
      /\ session[s].address \in Users
  BY DEF TypeOK, Session, SendChat
<1>2. chat \in Frame /\ chat.type = "chat"
  <2>1. Stamp(now) \in Nat
    BY BoundsAssumption DEF Maximum, Stamp, TypeOK
  <2> QED BY <1>1, <2>1, FrameTypes DEF Chat
<1>3. /\ UNCHANGED <<conn, logins, attachment>>
      /\ \E F \in Throwing(sessions, session) :
           Deliver(Burst(chat, F, session), F, session, sent)
  BY DEF SendChat
<1> HIDE DEF chat
<1>4. PICK F \in Throwing(sessions, session) :
        Deliver(Burst(chat, F, session), F, session, sent)
  BY <1>3
<1>5. F \in SUBSET Sockets
  BY <1>1, <1>4, ThrowingFits
<1> DEFINE frames == Burst(chat, F, session)
<1>6. frames \in Seq(Frame)
  BY <1>1, <1>2, <1>5, BurstType
<1>7. \A q \in Sockets \ F, u \in Users :
        ~Announced(frames, Who(q, u)) /\ ~Leaves(frames, Who(q, u))
  BY <1>1, <1>2, <1>5, BurstTells
<1> HIDE DEF frames
<1>8. Deliver(frames, F, session, sent)
  BY <1>4 DEF frames
<1>9. Listed \ F \subseteq Sockets \ F
  BY DEF Listed
<1>10. /\ \A r \in Sockets : conn[r] = "new" => session[r].address = NoUser
       /\ Platform = "cf" =>
            \A r \in Connected : attachment'[r].address = session[r].address
  BY <1>3 DEF RosterInvariant
<1> QED BY <1>1, <1>3, <1>4, <1>6, <1>7, <1>8, <1>9, <1>10, SpeakStep

\* The connection that has gone is listed no more.
LEMMA CloseRoster ==
    ASSUME ~gated, TypeOK, RosterInvariant, NEW s \in Sockets, CloseEvent(s)
    PROVE  RosterInvariant'
<1> DEFINE left == session[s].address
           quit == Quit({Who(s, left)})
<1>1. /\ session \in [Sockets -> Session] /\ sessions \in SUBSET Sockets
      /\ conn \in [Sockets -> {"new", "open", "leaving", "closed"}]
      /\ left \in Users \cup {NoUser}
  BY DEF TypeOK, Session
<1>2. /\ conn[s] = "leaving" /\ conn' = [conn EXCEPT ![s] = "closed"]
      /\ UNCHANGED <<attachment, logins>> /\ EventLoopFree
  BY DEF CloseEvent
<1>3. quit \in Frame /\ quit.type = "quit" /\ quit.who = {Who(s, left)}
  BY <1>1, Presences
<1>4. \E F \in SUBSET Sockets, frames \in Seq(Frame) :
         /\ F \subseteq sessions /\ (\A r \in F : conn[r] # "open")
         /\ Platform = "bun" => F \subseteq {s}
         /\ session' = session /\ sessions' = sessions \ (F \cup {s})
         /\ \A r \in Connected : sent'[r] = sent[r] \o frames
         /\ \A q \in Sockets \ (F \cup {s}), u \in Users :
              ~Announced(frames, Who(q, u)) /\ ~Leaves(frames, Who(q, u))
  <2>1. CASE s \in sessions /\ left # NoUser
    <3>1. PICK F \in Throwing(sessions \ {s}, session) :
            Deliver(Burst(quit, F, session), F \cup {s}, session, sent)
      BY <2>1 DEF CloseEvent
    <3>2. /\ F \subseteq sessions \ {s} /\ (Platform = "bun" => F = {})
          /\ \A r \in F : conn[r] # "open"
      BY <3>1, ThrowingFits
    <3>3. F \in SUBSET Sockets
      BY <1>1, <3>2
    <3> HIDE DEF quit, left
    <3> DEFINE frames == Burst(quit, F, session)
    <3>4. frames \in Seq(Frame)
      BY <1>1, <1>3, <3>3, BurstType
    <3>5. ASSUME NEW q \in Sockets \ (F \cup {s}), NEW u \in Users
          PROVE  ~Announced(frames, Who(q, u)) /\ ~Leaves(frames, Who(q, u))
      <4>1. /\ ~Announced(frames, Who(q, u))
            /\ Leaves(frames, Who(q, u)) <=> Who(q, u) = Who(s, left)
        BY <1>1, <1>3, <3>3, BurstTells
      <4> QED BY <4>1, WhoIs
    <3> HIDE DEF frames
    <3>6. Deliver(frames, F \cup {s}, session, sent)
      BY <3>1 DEF frames
    <3>7. F \cup {s} \subseteq sessions /\ \A r \in F \cup {s} : conn[r] # "open"
      BY <1>2, <2>1, <3>2
    <3>8. /\ session' = session /\ sessions' = sessions \ (F \cup {s})
          /\ \A r \in Connected : sent'[r] = sent[r] \o frames
      BY <1>1, <3>6, <3>7, DeliverOpen
    <3> QED BY <3>2, <3>3, <3>4, <3>5, <3>8
  <2>2. CASE ~(s \in sessions /\ left # NoUser)
    <3>1. session' = session /\ sessions' = sessions \ {s} /\ sent' = sent
      BY <2>2 DEF CloseEvent
    <3>2. \A r \in Connected : sent'[r] = sent[r] \o <<>>
      BY <3>1, ConcatEmptySeq DEF Connected, TypeOK
    <3>3. \A q, u : ~Announced(<<>>, Who(q, u)) /\ ~Leaves(<<>>, Who(q, u))
      BY DEF Announced, Leaves
    <3>4. <<>> \in Seq(Frame)
      BY EmptySeq
    <3> WITNESS {} \in SUBSET Sockets, <<>> \in Seq(Frame)
    <3> QED BY <3>1, <3>2, <3>3
  <2> QED BY <2>1, <2>2
<1>5. PICK F \in SUBSET Sockets, frames \in Seq(Frame) :
         /\ F \subseteq sessions /\ (\A r \in F : conn[r] # "open")
         /\ Platform = "bun" => F \subseteq {s}
         /\ session' = session /\ sessions' = sessions \ (F \cup {s})
         /\ \A r \in Connected : sent'[r] = sent[r] \o frames
         /\ \A q \in Sockets \ (F \cup {s}), u \in Users :
              ~Announced(frames, Who(q, u)) /\ ~Leaves(frames, Who(q, u))
  BY <1>4
<1>6. Connected' = Connected
  BY <1>1, <1>2 DEF Connected
<1>7. Listed' \subseteq Listed /\ Listed' \subseteq Sockets \ (F \cup {s})
  <2>1. \A r \in Sockets : conn[r] = "new" => r \notin sessions
    BY DEF RosterInvariant
  <2>2. \A r \in Sockets : conn'[r] = IF r = s THEN "closed" ELSE conn[r]
    BY <1>1, <1>2
  <2> QED BY <1>2, <1>5, <2>1, <2>2 DEF Listed
<1>8. Known(sent', session', Connected', Listed')
  <2> DEFINE listed == Listed'
  <2>1. \A q \in listed, u \in Users :
          session[q].address = u <=>
            \/ Announced(frames, Who(q, u))
            \/ session[q].address = u /\ ~Leaves(frames, Who(q, u))
    BY <1>5, <1>7
  <2>2. listed \subseteq Listed
    BY <1>7
  <2> HIDE DEF listed
  <2>3. Known(sent', session, Connected, listed)
    BY <1>5, <2>1, <2>2, KnownAfter DEF RosterInvariant
  <2> QED BY <1>5, <1>6, <2>3 DEF listed
<1>9. \A r \in Sockets : /\ conn'[r] = "open" => r \in sessions'
                         /\ conn'[r] = "new" => /\ r \notin sessions'
                                                /\ session'[r].address = NoUser
  BY <1>1, <1>2, <1>5 DEF RosterInvariant
<1>10. \A t \in logins' : /\ conn'[t.socket] # "new" /\ t.step = "db"
                          /\ Platform = "bun" => t.socket \in sessions'
  <2>1. Platform = "bun" => logins = {}
    BY <1>2 DEF EventLoopFree, RosterInvariant
  <2>2. \A t \in logins : t.socket \in Sockets
    BY DEF TypeOK, Login
  <2> QED BY <1>1, <1>2, <2>1, <2>2 DEF RosterInvariant
<1>11. Platform = "cf" =>
         \A r \in Connected' : attachment'[r].address = session'[r].address
  BY <1>2, <1>5, <1>6 DEF RosterInvariant
<1> QED BY <1>8, <1>9, <1>10, <1>11 DEF RosterInvariant

\* Who arrives is told who is there, and is nobody yet.
LEMMA OpenRoster ==
    ASSUME ~gated, TypeOK, RosterInvariant, NEW s \in Sockets, Open(s)
    PROVE  RosterInvariant'
<1> DEFINE online == {Who(r, session[r].address) :
                        r \in {q \in sessions : session[q].address # NoUser}}
           roster == IF online = {} THEN <<>> ELSE <<Joined(online)>>
           frames == (roster \o Latest) \o <<Challenge>>
<1>1. /\ session \in [Sockets -> Session] /\ sessions \in SUBSET Sockets
      /\ conn \in [Sockets -> {"new", "open", "leaving", "closed"}]
      /\ sent \in [Sockets -> Seq(Frame)] /\ attachment \in [Sockets -> Attachment]
      /\ \A q \in Sockets : session[q].address \in Users \cup {NoUser}
  BY DEF TypeOK, Session
<1>2. /\ conn[s] = "new" /\ s \notin sessions /\ session[s].address = NoUser
  BY DEF Open, RosterInvariant
<1>3. /\ conn' = [conn EXCEPT ![s] = "open"]
      /\ sessions' = sessions \cup {s}
      /\ session' = [session EXCEPT ![s] = [NewSession EXCEPT !.blocked = <<>>]]
      /\ sent' = [sent EXCEPT ![s] = frames]
      /\ Save(s, NoUser, FALSE) /\ logins' = logins
  BY DEF Open
<1>4. \A q \in Sockets : session'[q].address = session[q].address
  BY <1>1, <1>2, <1>3 DEF NewSession
<1>5. ASSUME NEW p
      PROVE  frames \in Seq(Frame) /\ (Announced(frames, p) <=> p \in online)
  <2>1. online \in SUBSET Presence
    BY <1>1, WhoType
  <2>2. Joined(online) \in Frame /\ Joined(online).type = "joined"
        /\ Joined(online).who = online
    BY <2>1, FrameTypes DEF Joined
  <2>3. roster \in Seq(Frame) /\ (Announced(roster, p) <=> p \in online)
    <3> HIDE DEF online
    <3>1. CASE online = {}
      BY <3>1, EmptySeq DEF Announced
    <3>2. CASE online # {}
      BY <2>2, <3>2, OneFrame
    <3> QED BY <3>1, <3>2
  <2>4. /\ Latest \in Seq(Frame)
        /\ ~Announced(Latest, p) /\ ~Leaves(Latest, p)
    <3>1. Latest \in Seq(Message)
      BY LatestType DEF TypeOK
    <3> QED BY <3>1, MessagesSayNothing
  <2> DEFINE last == <<Challenge>>
  <2>5. /\ last \in Seq(Frame)
        /\ ~Announced(last, p) /\ ~Leaves(last, p)
    <3>1. Challenge.type = "challenge"
      BY DEF Challenge
    <3> QED BY <3>1, FrameTypes, OneFrame
  <2> HIDE DEF last, roster
  <2> DEFINE front == roster \o Latest
  <2>6. front \in Seq(Frame) /\ (Announced(front, p) <=> Announced(roster, p))
    BY <2>3, <2>4, ConcatProperties, AnnouncedConcat
  <2> HIDE DEF front
  <2>7. front \o last \in Seq(Frame) /\ (Announced(front \o last, p) <=> Announced(front, p))
    BY <2>5, <2>6, ConcatProperties, AnnouncedConcat
  <2> QED BY <2>3, <2>6, <2>7 DEF front, last
<1>6. \A q \in Sockets : conn'[q] = IF q = s THEN "open" ELSE conn[q]
  BY <1>1, <1>3
<1>7. /\ Connected' = Connected \cup {s} /\ s \notin Connected
      /\ Listed' \subseteq Listed
  BY <1>1, <1>2, <1>3, <1>6 DEF Connected, Listed
<1> HIDE DEF frames
<1>8. ASSUME NEW r \in Connected', NEW q \in Listed', NEW u \in Users
      PROVE  Announced(sent'[r], Who(q, u)) <=> session'[q].address = u
  <2>1. q \in Sockets /\ q \in Listed
    BY <1>7 DEF Listed
  <2>2. CASE r = s
    <3>1. Announced(sent'[r], Who(q, u)) <=> Who(q, u) \in online
      BY <1>1, <1>3, <1>5, <2>2
    <3>2. Who(q, u) \in online <=> q \in sessions /\ session[q].address = u
      <4>1. Who(q, u) \in online =>
              q \in sessions /\ session[q].address = u
        BY WhoIs
      <4>2. q \in sessions /\ session[q].address = u => Who(q, u) \in online
        BY NoUserAssumption
      <4> QED BY <4>1, <4>2
    <3>3. q \notin sessions => session[q].address # u
      BY <2>1, NoUserAssumption DEF Listed, RosterInvariant
    <3> QED BY <1>4, <2>1, <3>1, <3>2, <3>3
  <2>3. CASE r # s
    <3>1. r \in Connected /\ sent'[r] = sent[r]
      BY <1>1, <1>3, <1>7, <2>3 DEF Connected
    <3> QED BY <1>4, <2>1, <3>1 DEF RosterInvariant, Known
  <2> QED BY <2>2, <2>3
<1>9. Known(sent', session', Connected', Listed')
  BY <1>8 DEF Known
<1>10. \A r \in Sockets : /\ conn'[r] = "open" => r \in sessions'
                          /\ conn'[r] = "new" => /\ r \notin sessions'
                                                 /\ session'[r].address = NoUser
  BY <1>1, <1>3, <1>4, <1>6 DEF RosterInvariant
<1>11. \A t \in logins' : /\ conn'[t.socket] # "new" /\ t.step = "db"
                          /\ Platform = "bun" => t.socket \in sessions'
  <2>1. \A t \in logins : t.socket \in Sockets
    BY DEF TypeOK, Login
  <2> QED BY <1>3, <1>6, <2>1 DEF RosterInvariant
<1>12. Platform = "cf" =>
         \A r \in Connected' : attachment'[r].address = session'[r].address
  <2>1. Platform = "cf" =>
          \A r \in Sockets : attachment'[r].address =
            IF r = s THEN NoUser ELSE attachment[r].address
    BY <1>1, <1>3, SaveUser
  <2> QED BY <1>2, <1>4, <1>7, <2>1 DEF RosterInvariant, Connected
<1> QED BY <1>9, <1>10, <1>11, <1>12 DEF RosterInvariant

\* What an eviction restores is what the others have been told.
LEMMA HibernateRoster ==
    ASSUME ~gated, TypeOK, RosterInvariant, Hibernate
    PROVE  RosterInvariant'
<1>1. PICK held \in SUBSET {s \in Sockets : conn[s] = "leaving"} :
         LET woken == held \cup {s \in Sockets : conn[s] = "open"}
         IN  /\ sessions' = woken
             /\ session' = [s \in Sockets |->
                              IF s \in woken
                                THEN [address    |-> attachment[s].address,
                                      authorized |-> attachment[s].authorized,
                                      blocked    |-> <<>>]
                                ELSE session[s]]
  BY DEF Hibernate
<1>2. /\ Platform = "cf" /\ logins' = {} /\ UNCHANGED <<conn, attachment, sent>>
  BY DEF Hibernate
<1>3. \A s \in Sockets : /\ s \in sessions' <=> s \in held \/ conn[s] = "open"
                         /\ s \in held => conn[s] = "leaving"
  BY <1>1
<1>4. \A s \in Sockets : session'[s].address =
        IF s \in held \/ conn[s] = "open" THEN attachment[s].address
                                          ELSE session[s].address
  BY <1>1
<1>5. \A s \in Sockets : conn[s] \in {"new", "open"} =>
        session'[s].address = session[s].address
  BY <1>2, <1>3, <1>4 DEF RosterInvariant, Connected
<1>6. Connected' = Connected /\ Listed' = Listed
      /\ \A s \in Listed : s \in Sockets /\ conn[s] \in {"new", "open"}
  BY <1>2 DEF Connected, Listed
<1>7. Known(sent', session', Connected', Listed')
  <2>1. \A s \in Listed : session'[s].address = session[s].address
    BY <1>5, <1>6
  <2> QED BY <1>2, <1>6, <2>1 DEF RosterInvariant, Known
<1>8. \A s \in Sockets : /\ conn'[s] = "open" => s \in sessions'
                         /\ conn'[s] = "new" => /\ s \notin sessions'
                                                /\ session'[s].address = NoUser
  BY <1>2, <1>3, <1>5 DEF RosterInvariant
<1>9. \A s \in Connected' : attachment'[s].address = session'[s].address
  BY <1>2, <1>3, <1>4 DEF Connected
<1> QED BY <1>2, <1>7, <1>8, <1>9 DEF RosterInvariant

\* The steps that send nothing.
LEMMA SilentRoster ==
    ASSUME ~gated, TypeOK, RosterInvariant,
           UNCHANGED <<sessions, session, attachment, sent>>,
           \A s \in Sockets : \/ conn'[s] = conn[s]
                              \/ conn[s] = "open" /\ conn'[s] = "leaving",
           \A t \in logins' : \/ t \in logins
                              \/ t.socket \in sessions /\ t.step = "db"
    PROVE  RosterInvariant'
<1>1. Connected' \subseteq Connected /\ Listed' \subseteq Listed
  BY DEF Connected, Listed
<1>2. Known(sent', session', Connected', Listed')
  BY <1>1 DEF RosterInvariant, Known
<1>3. \A s \in Sockets : /\ conn'[s] = "open" => s \in sessions'
                         /\ conn'[s] = "new" => /\ s \notin sessions'
                                                /\ session'[s].address = NoUser
  BY DEF RosterInvariant
<1>4. ASSUME NEW t \in logins'
      PROVE  /\ conn'[t.socket] # "new" /\ t.step = "db"
             /\ Platform = "bun" => t.socket \in sessions'
  <2>1. sessions \subseteq Sockets /\ \A l \in logins : l.socket \in Sockets
    BY DEF TypeOK, Login
  <2>2. /\ t.step = "db" /\ t.socket \in Sockets /\ conn[t.socket] # "new"
        /\ Platform = "bun" => t.socket \in sessions
    BY <2>1 DEF RosterInvariant
  <2> QED BY <2>2
<1>5. Platform = "cf" =>
         \A s \in Connected' : attachment'[s].address = session'[s].address
  BY <1>1 DEF RosterInvariant
<1> QED BY <1>2, <1>3, <1>4, <1>5 DEF RosterInvariant

LEMMA RosterStep ==
    ASSUME ~gated, TypeOK, RosterInvariant, [Next]_vars
    PROVE  RosterInvariant'
<1>1. ASSUME NEW s \in Sockets, Disconnect(s) PROVE RosterInvariant'
  <2>1. \A r \in Sockets : \/ conn'[r] = conn[r]
                           \/ conn[r] = "open" /\ conn'[r] = "leaving"
    BY <1>1 DEF Disconnect, TypeOK
  <2> QED BY <1>1, <2>1, SilentRoster DEF Disconnect
<1>2. ASSUME NEW s \in Sockets, NEW u \in Users, RequestLogin(s, u)
      PROVE  RosterInvariant'
  <2>1. \A t \in logins' : \/ t \in logins
                           \/ t.socket \in sessions /\ t.step = "db"
    BY <1>2 DEF RequestLogin, Request
  <2> QED BY <1>2, <2>1, SilentRoster DEF RequestLogin
<1>3. ASSUME NEW t \in logins, LoginFails(t) \/ LoginRepeats(t) \/ ChainRefuses(t)
      PROVE  RosterInvariant'
  BY <1>3, SilentRoster DEF LoginFails, LoginRepeats, ChainRefuses
<1>4. ASSUME NEW t \in logins, LoginGatedRoom(t) \/ ChainPasses(t)
      PROVE  FALSE
  BY <1>4 DEF LoginGatedRoom, ChainPasses, RosterInvariant
<1>5. CASE UNCHANGED vars
  BY <1>5, SilentRoster DEF vars
<1> QED BY <1>1, <1>2, <1>3, <1>4, <1>5, OpenRoster, CloseRoster, LogoutRoster,
           ChatRoster, LoginRoster, HibernateRoster DEF Next

LEMMA RosterStarts ==
    ASSUME Init, ~gated
    PROVE  RosterInvariant
<1>1. Connected = {} /\ sessions = {} /\ logins = {}
      /\ \A s \in Sockets : session[s].address = NoUser
  BY DEF Init, Connected, NewSession
<1>2. \A s \in Sockets : conn[s] # "open"
  BY DEF Init
<1> QED BY <1>1, <1>2 DEF RosterInvariant, Known

LEMMA RosterInvariantHolds == Spec => [](~gated => RosterInvariant)
<1>1. Init /\ ~gated => RosterInvariant
  BY RosterStarts
<1>2. TypeOK /\ (~gated => RosterInvariant) /\ [Next]_vars => (~gated => RosterInvariant)'
  <2>1. [Next]_vars => gated' = gated
    BY DEF Next, vars, Open, Disconnect, CloseEvent, Logout, RequestLogin, SendChat,
           LoginFails, LoginRepeats, LoginOpenRoom, LoginGatedRoom, ChainRefuses,
           ChainPasses, Hibernate
  <2> QED BY <2>1, RosterStep
<1> QED BY <1>1, <1>2, TypeCorrect, PTL DEF Spec

\* In a room open to all, every connected client knows of every other connected
\* client whether it is logged in and as whom, on both platforms: through
\* switches, sends that throw in the middle of a broadcast, overlapping logins
\* of one connection and evictions of the object.
THEOREM RosterCorrect == Spec => []RosterExact
<1>1. (~gated => RosterInvariant) => RosterExact
  BY DEF RosterInvariant, RosterExact, Known, Connected, Listed
<1> QED BY <1>1, RosterInvariantHolds, PTL

\* On Cloudflare an eviction gives every connected session back as it was.
THEOREM EvictionsGoUnnoticed ==
    ASSUME Platform = "cf"
    PROVE  Spec => []HibernationIsTransparent
<1>1. (~gated => RosterInvariant) => HibernationIsTransparent
  BY DEF RosterInvariant, HibernationIsTransparent, Connected
<1> QED BY <1>1, RosterInvariantHolds, PTL

-----------------------------------------------------------------------------
(* Quits. *)

QuitsFit(frames) ==
    \A i \in DOMAIN frames : frames[i].type = "quit" =>
      \A p \in frames[i].who : Announced(SubSeq(frames, 1, i - 1), p)

\* One more frame, a quit of those announced or none.
LEMMA QuitsAppend ==
    ASSUME NEW a \in Seq(Frame), NEW f \in Frame, QuitsFit(a),
           f.type = "quit" => \A p \in f.who : Announced(a, p)
    PROVE  a \o <<f>> \in Seq(Frame) /\ QuitsFit(a \o <<f>>)
<1> DEFINE b == <<f>>
           c == a \o b
<1>1. b \in Seq(Frame) /\ Len(b) = 1 /\ b[1] = f
  OBVIOUS
<1> HIDE DEF b
<1>2. /\ c \in Seq(Frame) /\ Len(a) \in Nat
      /\ DOMAIN a = 1..Len(a) /\ DOMAIN c = 1..(Len(a) + 1)
      /\ \A i \in 1..Len(a) : c[i] = a[i]
      /\ \A i \in 1..1 : c[Len(a) + i] = b[i]
      /\ Len(c) = Len(a) + 1
  BY <1>1, Concat, ConcatProperties
<1>3. c[Len(a) + 1] = f
  BY <1>1, <1>2
<1> HIDE DEF c
<1>4. ASSUME NEW i \in 1..(Len(a) + 1)
      PROVE  SubSeq(c, 1, i - 1) = SubSeq(a, 1, i - 1)
  <2> DEFINE k == i - 1
             s == SubSeq(c, 1, k)
             t == SubSeq(a, 1, k)
  <2>1. k \in 0..Len(a) /\ k \in 0..Len(c) /\ 1..k \subseteq 1..Len(a)
    BY <1>2
  <2>2. s \in Seq(Frame) /\ Len(s) = k /\ \A j \in 1..k : s[j] = c[j]
    BY <1>2, <2>1, PrefixOf
  <2>3. t \in Seq(Frame) /\ Len(t) = k /\ \A j \in 1..k : t[j] = a[j]
    BY <1>2, <2>1, PrefixOf
  <2> HIDE DEF s, t, k
  <2>4. s = t
    BY <1>2, <2>1, <2>2, <2>3, SeqEqual
  <2> QED BY <2>4 DEF s, t, k
<1>5. ASSUME NEW i \in 1..(Len(a) + 1), c[i].type = "quit", NEW p \in c[i].who
      PROVE  Announced(SubSeq(c, 1, i - 1), p)
  <2>1. CASE i \in 1..Len(a)
    BY <1>2, <1>4, <1>5, <2>1 DEF QuitsFit
  <2>2. CASE i = Len(a) + 1
    <3>1. SubSeq(a, 1, i - 1) = a
      <4>1. i - 1 = Len(a)
        BY <1>2, <2>2
      <4> QED BY <4>1, SubSeqFull
    <3> QED BY <1>3, <1>4, <1>5, <2>2, <3>1
  <2> QED BY <1>2, <2>1, <2>2
<1>6. QuitsFit(c)
  BY <1>2, <1>5 DEF QuitsFit
<1> QED BY <1>2, <1>6 DEF b, c

\* A broadcast that drops nobody is its frame.
LEMMA BurstAlone ==
    ASSUME NEW frame \in Frame, NEW ses
    PROVE  Burst(frame, {}, ses) = <<frame>>
<1>1. QuitsOf({}, ses) = <<>>
  BY DEF QuitsOf
<1>2. <<frame>> \in Seq(Frame)
  OBVIOUS
<1> QED BY <1>1, <1>2, ConcatEmptySeq DEF Burst

\* All that is sent to all is a frame that fits what each of them has been told.
LEMMA QuitsDelivered ==
    ASSUME ~gated, TypeOK, RosterInvariant, Platform = "bun",
           \A r \in Sockets : QuitsFit(sent[r]),
           NEW f \in Frame, NEW ses \in [Sockets -> Session], NEW F,
           F \subseteq sessions, \A r \in F : conn[r] # "open",
           Deliver(<<f>>, F, ses, sent),
           f.type = "quit" =>
             \E s \in Listed, u \in Users : session[s].address = u /\ f.who = {Who(s, u)}
    PROVE  \A r \in Sockets : QuitsFit(sent'[r])
<1>1. ASSUME NEW r \in Sockets PROVE QuitsFit(sent'[r])
  <2>1. CASE conn[r] = "open"
    <3>1. r \in Connected /\ sent[r] \in Seq(Frame) /\ QuitsFit(sent[r])
      BY <2>1 DEF Connected, TypeOK
    <3>2. f.type = "quit" => \A p \in f.who : Announced(sent[r], p)
      BY <3>1 DEF RosterInvariant, Known
    <3>3. sent'[r] = sent[r] \o <<f>>
      BY <3>1, DeliverOpen
    <3> QED BY <3>1, <3>2, <3>3, QuitsAppend
  <2>2. CASE conn[r] # "open"
    <3>1. sent'[r] = sent[r]
      BY <2>2 DEF Deliver
    <3> QED BY <3>1
  <2> QED BY <2>1, <2>2
<1> QED BY <1>1

LEMMA QuitsStep ==
    ASSUME ~gated, TypeOK, RosterInvariant, Platform = "bun",
           \A r \in Sockets : QuitsFit(sent[r]), [Next]_vars
    PROVE  \A r \in Sockets : QuitsFit(sent'[r])
<1>1. /\ session \in [Sockets -> Session] /\ sessions \in SUBSET Sockets
      /\ sent \in [Sockets -> Seq(Frame)]
      /\ \A q \in Sockets : session[q].address \in Users \cup {NoUser}
      /\ \A t \in logins : t.socket \in Sockets /\ t.user \in Users
  BY DEF TypeOK, Session, Login
<1>2. ASSUME NEW s \in Sockets, Open(s) PROVE \A r \in Sockets : QuitsFit(sent'[r])
  <2> DEFINE online == {Who(r, session[r].address) :
                          r \in {q \in sessions : session[q].address # NoUser}}
             roster == IF online = {} THEN <<>> ELSE <<Joined(online)>>
             front  == roster \o Latest
             last   == <<Challenge>>
  <2>1. sent' = [sent EXCEPT ![s] = front \o last]
    BY <1>2 DEF Open
  <2>2. ASSUME NEW p PROVE ~Leaves(front \o last, p)
    <3>1. online \in SUBSET Presence
      BY <1>1, WhoType
    <3>2. Joined(online) \in Frame /\ Joined(online).type = "joined"
      BY <3>1, FrameTypes DEF Joined
    <3>3. roster \in Seq(Frame) /\ ~Leaves(roster, p)
      <4> HIDE DEF online
      <4>1. CASE online = {}
        BY <4>1, EmptySeq DEF Leaves
      <4>2. CASE online # {}
        BY <3>2, <4>2, OneFrame
      <4> QED BY <4>1, <4>2
    <3>4. Latest \in Seq(Frame) /\ ~Leaves(Latest, p)
      <4>1. Latest \in Seq(Message)
        BY LatestType DEF TypeOK
      <4> QED BY <4>1, MessagesSayNothing
    <3>5. last \in Seq(Frame) /\ ~Leaves(last, p)
      <4>1. Challenge.type = "challenge"
        BY DEF Challenge
      <4> QED BY <4>1, FrameTypes, OneFrame
    <3> HIDE DEF last, roster
    <3>6. front \in Seq(Frame) /\ ~Leaves(front, p)
      BY <3>3, <3>4, ConcatProperties, LeavesConcat
    <3> HIDE DEF front
    <3> QED BY <3>5, <3>6, LeavesConcat
  <2> HIDE DEF front, last
  <2>3. QuitsFit(front \o last)
    BY <2>2 DEF QuitsFit, Leaves
  <2> QED BY <1>1, <2>1, <2>3
<1>3. ASSUME NEW t \in logins, LoginOpenRoom(t)
      PROVE  \A r \in Sockets : QuitsFit(sent'[r])
  <2> DEFINE s    == t.socket
             old  == session[s].address
             ses  == [session EXCEPT ![s].address = t.user]
             join == Joined({Who(s, t.user)})
             quit == Quit({Who(s, old)})
  <2>1. /\ s \in Sockets /\ s \in sessions /\ s \in Listed
        /\ old \in Users \cup {NoUser} /\ t.user \in Users
    BY <1>1 DEF RosterInvariant, Listed
  <2>2. ses \in [Sockets -> Session]
    BY <1>1, <2>1, SessionUpdate
  <2>3. /\ join \in Frame /\ join.type = "joined"
        /\ quit \in Frame /\ quit.type = "quit" /\ quit.who = {Who(s, old)}
    BY <2>1, Presences
  <2>4. Throwing(sessions, session) = {{}}
    BY DEF Throwing
  <2>5. Deliver(IF old = NoUser THEN Burst(join, {}, ses)
                ELSE Burst(quit, {}, session) \o <<join>>, {}, ses, sent)
    BY <1>3, <2>4 DEF LoginOpenRoom
  <2>6. Deliver(IF old = NoUser THEN <<join>> ELSE <<quit>> \o <<join>>, {}, ses, sent)
    BY <2>3, <2>5, BurstAlone
  <2> HIDE DEF old, ses, join, quit
  <2>7. CASE old = NoUser
    BY <2>2, <2>3, <2>6, <2>7, QuitsDelivered
  <2>8. ASSUME old # NoUser, NEW r \in Sockets
        PROVE  QuitsFit(sent'[r])
    <3>1. CASE conn[r] = "open"
      <4>1. r \in Connected /\ sent[r] \in Seq(Frame) /\ QuitsFit(sent[r])
        BY <1>1, <3>1 DEF Connected
      <4>2. Announced(sent[r], Who(s, old))
        BY <2>1, <2>8, <4>1 DEF RosterInvariant, Known, old
      <4>3. sent'[r] = sent[r] \o (<<quit>> \o <<join>>)
        <5> DEFINE two  == <<quit>> \o <<join>>
                   none == {}
        <5>1. Deliver(two, none, ses, sent)
          BY <2>6, <2>8
        <5>2. none \subseteq sessions /\ \A q \in none : conn[q] # "open"
          OBVIOUS
        <5> HIDE DEF two, none
        <5>3. \A q \in Connected : sent'[q] = sent[q] \o two
          BY <2>2, <5>1, <5>2, DeliverOpen
        <5> QED BY <4>1, <5>3 DEF two
      <4> DEFINE told == sent[r] \o <<quit>>
      <4>4. told \in Seq(Frame) /\ QuitsFit(told)
        BY <2>3, <4>1, <4>2, QuitsAppend
      <4>5. sent'[r] = told \o <<join>>
        <5> DEFINE a == sent[r]
                   b == <<quit>>
                   c == <<join>>
        <5>1. a \in Seq(Frame) /\ b \in Seq(Frame) /\ c \in Seq(Frame)
          BY <2>3, <4>1
        <5> HIDE DEF a, b, c
        <5>2. (a \o b) \o c = a \o (b \o c)
          BY <5>1, ConcatAssociative
        <5> QED BY <4>3, <5>2 DEF a, b, c
      <4> HIDE DEF told
      <4> QED BY <2>3, <4>4, <4>5, QuitsAppend
    <3>2. CASE conn[r] # "open"
      <4>1. sent'[r] = sent[r]
        BY <2>6, <3>2 DEF Deliver
      <4> QED BY <4>1
    <3> QED BY <3>1, <3>2
  <2> QED BY <2>7, <2>8
<1>4. ASSUME NEW s \in Sockets, Logout(s) PROVE \A r \in Sockets : QuitsFit(sent'[r])
  <2> DEFINE old  == session[s].address
             ses  == [session EXCEPT ![s].address = NoUser]
             quit == Quit({Who(s, old)})
  <2>1. s \in sessions /\ s \in Listed /\ old \in Users
    BY <1>1, <1>4 DEF Logout, Request, Listed
  <2>2. ses \in [Sockets -> Session]
    BY <1>1, SessionUpdate
  <2>3. quit \in Frame /\ quit.type = "quit" /\ quit.who = {Who(s, old)}
    BY <2>1, Presences, ZenonT(60)
  <2>4. Throwing(sessions, session) = {{}}
    BY DEF Throwing
  <2>5. Deliver(<<quit>>, {}, ses, sent)
    BY <1>4, <2>3, <2>4, BurstAlone DEF Logout
  <2>6. \E q \in Listed, u \in Users : session[q].address = u /\ quit.who = {Who(q, u)}
    BY <2>1, <2>3
  <2> HIDE DEF ses, quit
  <2> QED BY <2>2, <2>3, <2>5, <2>6, QuitsDelivered
<1>5. ASSUME NEW s \in Sockets, NEW now \in Clock, SendChat(s, now)
      PROVE  \A r \in Sockets : QuitsFit(sent'[r])
  <2> DEFINE chat == Chat(Stamp(now), session[s].address)
  <2>1. chat \in Frame /\ chat.type = "chat"
    <3>1. Stamp(now) \in Nat
      BY BoundsAssumption DEF Maximum, Stamp, TypeOK
    <3>2. session[s].address \in Users
      BY <1>1, <1>5 DEF SendChat
    <3> QED BY <3>1, <3>2, FrameTypes DEF Chat
  <2>2. Throwing(sessions, session) = {{}}
    BY DEF Throwing
  <2>3. Deliver(<<chat>>, {}, session, sent)
    BY <1>5, <2>1, <2>2, BurstAlone DEF SendChat
  <2>4. chat.type # "quit"
    BY <2>1
  <2>5. {} \subseteq sessions /\ \A r \in {} : conn[r] # "open"
    OBVIOUS
  <2>6. chat \in Frame /\ session \in [Sockets -> Session]
    BY <1>1, <2>1
  <2> HIDE DEF chat
  <2> QED BY <2>3, <2>4, <2>5, <2>6, QuitsDelivered
<1>6. ASSUME NEW s \in Sockets, CloseEvent(s) PROVE \A r \in Sockets : QuitsFit(sent'[r])
  <2> DEFINE left == session[s].address
             quit == Quit({Who(s, left)})
  <2>1. CASE s \in sessions /\ left # NoUser
    <3>1. s \in Listed /\ left \in Users /\ conn[s] = "leaving"
      BY <1>1, <1>6, <2>1 DEF Listed, CloseEvent
    <3>2. quit \in Frame /\ quit.type = "quit" /\ quit.who = {Who(s, left)}
      BY <3>1, Presences
    <3>3. Throwing(sessions \ {s}, session) = {{}}
      BY DEF Throwing
    <3>4. Deliver(<<quit>>, {s}, session, sent)
      <4>1. Deliver(Burst(quit, {}, session), {} \cup {s}, session, sent)
        BY <1>6, <2>1, <3>3 DEF CloseEvent
      <4>2. {} \cup {s} = {s}
        OBVIOUS
      <4> QED BY <3>2, <4>1, <4>2, BurstAlone
    <3>5. \E q \in Listed, u \in Users :
            session[q].address = u /\ quit.who = {Who(q, u)}
      BY <3>1, <3>2
    <3> HIDE DEF quit
    <3>6. {s} \subseteq sessions /\ \A r \in {s} : conn[r] # "open"
      BY <2>1, <3>1
    <3> QED BY <1>1, <3>2, <3>4, <3>5, <3>6, QuitsDelivered
  <2>2. CASE ~(s \in sessions /\ left # NoUser)
    BY <1>6, <2>2 DEF CloseEvent
  <2> QED BY <2>1, <2>2
<1>7. ASSUME \/ \E s \in Sockets : Disconnect(s) \/ \E u \in Users : RequestLogin(s, u)
             \/ \E t \in logins : LoginFails(t) \/ LoginRepeats(t) \/ ChainRefuses(t)
             \/ UNCHANGED vars
      PROVE  \A r \in Sockets : QuitsFit(sent'[r])
  BY <1>7 DEF Disconnect, RequestLogin, LoginFails, LoginRepeats, ChainRefuses, vars
<1>8. ASSUME NEW t \in logins, LoginGatedRoom(t) \/ ChainPasses(t)
      PROVE  FALSE
  BY <1>8 DEF LoginGatedRoom, ChainPasses, RosterInvariant
<1> QED BY <1>2, <1>3, <1>4, <1>5, <1>6, <1>7, <1>8 DEF Next, Hibernate

\* On Bun, where no send throws, no client is told that a user has quit whom it
\* does not have in its list: quits never come twice and never before the
\* login they undo, in whatever order clients log in, switch and leave.
THEOREM QuitsFollowJoins ==
    ASSUME Platform = "bun"
    PROVE  Spec => []QuitFollowsJoin
<1> DEFINE Fit == ~gated => \A r \in Sockets : QuitsFit(sent[r])
<1>1. Init => Fit
  BY DEF Init, QuitsFit
<1>2. TypeOK /\ (~gated => RosterInvariant) /\ Fit /\ [Next]_vars => Fit'
  <2>1. [Next]_vars => gated' = gated
    BY DEF Next, vars, Open, Disconnect, CloseEvent, Logout, RequestLogin, SendChat,
           LoginFails, LoginRepeats, LoginOpenRoom, LoginGatedRoom, ChainRefuses,
           ChainPasses, Hibernate
  <2> QED BY <2>1, QuitsStep
<1>3. Fit => QuitFollowsJoin
  BY DEF QuitFollowsJoin, QuitsFit
<1> HIDE DEF Fit
<1> QED BY <1>1, <1>2, <1>3, TypeCorrect, RosterInvariantHolds, PTL DEF Spec
=============================================================================
