---------------------------- MODULE Room_proofs -----------------------------
(***************************************************************************)
(* Theorems about the chat room, for every set of connections and users,   *)
(* every clock and every bound.                                            *)
(***************************************************************************)
EXTENDS Room, SequenceTheorems, FiniteSetTheorems, TLAPS

-----------------------------------------------------------------------------
(* What the helpers return. *)

\* A presence frame or a message is a frame, and so is the challenge.
LEMMA FrameTypes ==
    /\ Challenge \in Frame
    /\ \A who \in SUBSET Presence : Joined(who) \in Frame /\ Quit(who) \in Frame
    /\ \A ts \in Nat, u \in Users : Chat(ts, u) \in Message
    /\ Message \subseteq Frame
BY DEF Challenge, Joined, Quit, Chat, Frame, Message

\* Who(s, u) is the presence of u on s.
LEMMA WhoType ==
    \A s \in Sockets, u \in Users \cup {NoUser} : Who(s, u) \in Presence
BY DEF Who, Presence

\* The connections that throw are sessions of the map.
LEMMA ThrowingType ==
    ASSUME NEW S, NEW ses, NEW F \in Throwing(S, ses)
    PROVE  F \subseteq S
BY DEF Throwing

\* What a broadcast sends is a sequence of frames.
LEMMA BurstType ==
    ASSUME NEW frame \in Frame, NEW F \in SUBSET Sockets,
           NEW ses \in [Sockets -> Session]
    PROVE  Burst(frame, F, ses) \in Seq(Frame)
<1> DEFINE who == {Who(r, ses[r].address) : r \in {q \in F : ses[q].address # NoUser}}
<1>1. \A r \in Sockets : ses[r].address \in Users \cup {NoUser}
  BY DEF Session
<1>2. who \in SUBSET Presence
  BY <1>1, WhoType
<1>3. Quit(who) \in Frame
  BY <1>2, FrameTypes
<1>4. QuitsOf(F, ses) \in Seq(Frame)
  BY <1>3 DEF QuitsOf
<1> QED
  BY <1>4 DEF Burst

\* So is what the broadcast of a quit sends.
LEMMA QuitBurstType ==
    ASSUME NEW s \in Sockets, NEW u \in Users \cup {NoUser}, NEW F \in SUBSET Sockets,
           NEW ses \in [Sockets -> Session]
    PROVE  Burst(Quit({Who(s, u)}), F, ses) \in Seq(Frame)
<1>1. Who(s, u) \in Presence
  BY WhoType
<1>2. Quit({Who(s, u)}) \in Frame
  BY <1>1, FrameTypes
<1> QED
  BY <1>2, BurstType

\* Delivering frames keeps the types of the map, the sessions and the streams.
LEMMA DeliverType ==
    ASSUME sessions \in SUBSET Sockets,
           NEW frames \in Seq(Frame), NEW F,
           NEW ses \in [Sockets -> Session],
           NEW out \in [Sockets -> Seq(Frame)],
           Deliver(frames, F, ses, out)
    PROVE  /\ sessions' \in SUBSET Sockets
           /\ session' \in [Sockets -> Session]
           /\ sent' \in [Sockets -> Seq(Frame)]
<1>1. sessions' \in SUBSET Sockets
  BY DEF Deliver
<1>2. \A r \in Sockets : out[r] \o frames \in Seq(Frame)
  BY ConcatProperties
<1>3. sent' \in [Sockets -> Seq(Frame)]
  BY <1>2 DEF Deliver
<1>4. ASSUME NEW r \in Sockets
      PROVE  [ses[r] EXCEPT !.blocked = @ \o frames] \in Session
  <2>1. ses[r].blocked \o frames \in Seq(Frame)
    BY ConcatProperties DEF Session
  <2> QED
    BY <2>1 DEF Session
<1>5. session' \in [Sockets -> Session]
  BY <1>4 DEF Deliver
<1> QED
  BY <1>1, <1>3, <1>5

\* The backlog is a sequence of messages.
LEMMA LatestType ==
    ASSUME history \in Seq(Message)
    PROVE  Latest \in Seq(Message)
<1> DEFINE m == Maximum(1, Len(history) - Backlog + 1)
<1>1. m \in Int /\ m >= 1
  BY BoundsAssumption, LenProperties DEF Maximum
<1>2. \A i \in m..Len(history) : history[i] \in Message
  BY <1>1, LenProperties
<1> QED
  BY <1>1, <1>2, LenProperties, SubSeqProperties DEF Latest

\* The first k elements of a sequence.
LEMMA PrefixOf ==
    ASSUME NEW S, NEW s \in Seq(S), NEW k \in 0..Len(s)
    PROVE  /\ SubSeq(s, 1, k) \in Seq(S)
           /\ Len(SubSeq(s, 1, k)) = k
           /\ \A i \in 1..k : SubSeq(s, 1, k)[i] = s[i]
<1>1. Len(s) \in Nat /\ k \in Int /\ 1 \in Int
  BY LenProperties
<1>2. \A i \in 1..k : s[i] \in S
  BY <1>1, ElementOfSeq
<1>3. /\ SubSeq(s, 1, k) \in Seq(S)
      /\ Len(SubSeq(s, 1, k)) = IF 1 <= k THEN k - 1 + 1 ELSE 0
      /\ \A i \in 1..(k - 1 + 1) : SubSeq(s, 1, k)[i] = s[1 + i - 1]
  BY <1>1, <1>2, SubSeqProperties
<1>4. Len(SubSeq(s, 1, k)) = k
  BY <1>1, <1>3
<1>5. ASSUME NEW i \in 1..k PROVE SubSeq(s, 1, k)[i] = s[i]
  <2>1. i \in 1..(k - 1 + 1) /\ 1 + i - 1 = i
    BY <1>1
  <2> QED
    BY <1>3, <2>1
<1> QED
  BY <1>3, <1>4, <1>5

\* The elements of a sequence from the k-th on.
LEMMA SuffixOf ==
    ASSUME NEW S, NEW s \in Seq(S), NEW k \in Nat \ {0}
    PROVE  /\ SubSeq(s, k, Len(s)) \in Seq(S)
           /\ k > Len(s) => SubSeq(s, k, Len(s)) = <<>>
           /\ \A i \in 1..Len(SubSeq(s, k, Len(s))) :
                \E j \in 1..Len(s) : SubSeq(s, k, Len(s))[i] = s[j]
<1>1. Len(s) \in Nat /\ k \in Int /\ k >= 1
  BY LenProperties
<1>2. \A i \in k..Len(s) : s[i] \in S
  BY <1>1, ElementOfSeq
<1>3. /\ SubSeq(s, k, Len(s)) \in Seq(S)
      /\ Len(SubSeq(s, k, Len(s))) = IF k <= Len(s) THEN Len(s) - k + 1 ELSE 0
      /\ \A i \in 1..(Len(s) - k + 1) : SubSeq(s, k, Len(s))[i] = s[k + i - 1]
  BY <1>1, <1>2, SubSeqProperties
<1>4. k > Len(s) => SubSeq(s, k, Len(s)) = <<>>
  BY <1>1, SubSeqEmpty
<1>5. ASSUME NEW i \in 1..Len(SubSeq(s, k, Len(s)))
      PROVE  \E j \in 1..Len(s) : SubSeq(s, k, Len(s))[i] = s[j]
  <2>1. i \in 1..(Len(s) - k + 1) /\ k + i - 1 \in 1..Len(s)
    BY <1>1, <1>3
  <2> QED
    BY <1>3, <2>1
<1> QED
  BY <1>3, <1>4, <1>5

\* Storing a message among messages gives messages, each an old one or the
\* new; when the new one is newer than all, it is appended.
LEMMA PutProperties ==
    ASSUME NEW messages \in Seq(Message), NEW m \in Message
    PROVE  /\ Put(messages, m) \in Seq(Message)
           /\ \A i \in DOMAIN Put(messages, m) :
                \/ Put(messages, m)[i] = m
                \/ \E j \in DOMAIN messages : Put(messages, m)[i] = messages[j]
           /\ (\A j \in DOMAIN messages : messages[j].ts < m.ts)
                => Put(messages, m) = messages \o <<m>>
<1> DEFINE Older == {i \in DOMAIN messages : messages[i].ts < m.ts}
           n     == Len(messages)
<1>1. n \in Nat /\ DOMAIN messages = 1..n
  BY LenProperties
<1>2. IsFiniteSet(1..n) /\ Cardinality(1..n) = n
  BY <1>1, FS_Interval
<1>3. Older \in SUBSET (1..n)
  BY <1>1
<1>4. IsFiniteSet(Older) /\ Cardinality(Older) <= n
  BY <1>2, <1>3, FS_Subset
<1>5. Cardinality(Older) \in 0..n
  BY <1>1, <1>4, FS_CardinalityType
<1>6. PICK older \in 0..n, next \in Nat \ {0} :
        /\ older = Cardinality(Older)
        /\ next > older
        /\ Put(messages, m) =
             (SubSeq(messages, 1, older) \o <<m>>) \o SubSeq(messages, next, n)
  <2> DEFINE older    == Cardinality(Older)
             replaces == older < n /\ messages[older + 1].ts = m.ts
             next     == older + (IF replaces THEN 2 ELSE 1)
  <2>1. next \in Nat \ {0} /\ next > older
    BY <1>1, <1>5
  <2>2. Put(messages, m) =
             (SubSeq(messages, 1, older) \o <<m>>) \o SubSeq(messages, next, n)
    BY DEF Put
  <2> QED
    BY <1>5, <2>1, <2>2
<1> DEFINE before == SubSeq(messages, 1, older)
           after  == SubSeq(messages, next, n)
           put    == (before \o <<m>>) \o after
<1>7. /\ before \in Seq(Message)
      /\ Len(before) = older
      /\ \A i \in 1..older : before[i] = messages[i]
  BY <1>1, PrefixOf
<1>8. /\ after \in Seq(Message)
      /\ next > n => after = <<>>
      /\ \A i \in 1..Len(after) : \E j \in 1..n : after[i] = messages[j]
  BY <1>1, SuffixOf
<1> HIDE DEF before, after, Older
<1>9. Len(after) \in Nat /\ older \in Nat
  BY <1>1, <1>8, LenProperties
<1> DEFINE front == before \o <<m>>
<1>10. /\ front \in Seq(Message)
       /\ Len(front) = older + 1
       /\ \A i \in 1..older : front[i] = messages[i]
       /\ front[older + 1] = m
  <2>1. <<m>> \in Seq(Message) /\ Len(<<m>>) = 1 /\ <<m>>[1] = m
    OBVIOUS
  <2>2. /\ front \in Seq(Message)
        /\ Len(front) = Len(before) + Len(<<m>>)
        /\ \A i \in 1..(Len(before) + Len(<<m>>)) :
             front[i] = IF i <= Len(before) THEN before[i]
                          ELSE <<m>>[i - Len(before)]
    BY <1>7, <2>1, ConcatProperties
  <2> HIDE DEF front
  <2>3. \A i \in 1..(older + 1) :
          front[i] = IF i <= older THEN before[i] ELSE <<m>>[i - older]
    BY <1>7, <2>1, <2>2
  <2>4. front[older + 1] = m
    BY <2>1, <2>3, <1>9
  <2> QED
    BY <1>7, <1>9, <2>1, <2>2, <2>3, <2>4
<1> HIDE DEF front
<1>11. /\ put \in Seq(Message)
       /\ Len(put) = older + 1 + Len(after)
       /\ \A i \in 1..(older + 1 + Len(after)) :
            put[i] = IF i <= older + 1 THEN front[i]
                       ELSE after[i - (older + 1)]
  <2>1. put = front \o after
    BY DEF front
  <2>2. /\ front \o after \in Seq(Message)
        /\ Len(front \o after) = Len(front) + Len(after)
        /\ \A i \in 1..(Len(front) + Len(after)) :
             (front \o after)[i] = IF i <= Len(front) THEN front[i]
                                     ELSE after[i - Len(front)]
    <3>1. front \in Seq(Message) /\ after \in Seq(Message)
      BY <1>8, <1>10
    <3> QED
      BY <3>1, ConcatProperties
  <2> QED
    BY <1>10, <2>1, <2>2
<1> HIDE DEF put
<1>12. ASSUME NEW i \in DOMAIN put
       PROVE  put[i] = m \/ \E j \in DOMAIN messages : put[i] = messages[j]
  <2>1. i \in 1..(older + 1 + Len(after))
    BY <1>11, LenProperties
  <2>2. CASE i <= older
    <3>1. i \in 1..older /\ i \in DOMAIN messages
      BY <2>1, <2>2, <1>1, <1>9
    <3>2. put[i] = messages[i]
      BY <3>1, <2>1, <2>2, <1>9, <1>10, <1>11
    <3> QED
      BY <3>1, <3>2
  <2>3. CASE i = older + 1
    BY <2>1, <2>3, <1>9, <1>10, <1>11
  <2>4. CASE i > older + 1
    <3>1. i - (older + 1) \in 1..Len(after)
      BY <2>1, <2>4, <1>9
    <3>2. put[i] = after[i - (older + 1)]
      BY <2>1, <2>4, <1>9, <1>11
    <3> QED
      BY <3>1, <3>2, <1>1, <1>8
  <2> QED
    BY <2>1, <2>2, <2>3, <2>4, <1>9
<1>13. ASSUME \A j \in DOMAIN messages : messages[j].ts < m.ts
       PROVE  put = messages \o <<m>>
  <2>1. Older = 1..n
    BY <1>1, <1>13 DEF Older
  <2>2. older = n
    BY <2>1, <1>2, <1>6
  <2>3. after = <<>> /\ before = messages
    BY <2>2, <1>1, <1>6, <1>8, SubSeqFull DEF before
  <2> QED
    BY <2>3, <1>10, ConcatEmptySeq DEF put, front
<1> QED
  BY <1>6, <1>11, <1>12, <1>13 DEF before, after, put

-----------------------------------------------------------------------------
(* Type correctness. *)

\* The attachments keep their type when one is saved.
LEMMA SaveType ==
    ASSUME attachment \in [Sockets -> Attachment], NEW s \in Sockets,
           NEW user \in Users \cup {NoUser}, NEW authorized \in BOOLEAN,
           Save(s, user, authorized)
    PROVE  attachment' \in [Sockets -> Attachment]
BY DEF Save, Attachment

\* A session whose user or authorization changes is still a session.
LEMMA SessionUpdate ==
    ASSUME NEW ses \in [Sockets -> Session], NEW s \in Sockets
    PROVE  /\ \A u \in Users \cup {NoUser} :
                [ses EXCEPT ![s].address = u] \in [Sockets -> Session]
           /\ [ses EXCEPT ![s].authorized = TRUE] \in [Sockets -> Session]
           /\ [ses EXCEPT ![s].authorized = TRUE, ![s].blocked = <<>>]
                \in [Sockets -> Session]
<1>1. <<>> \in Seq(Frame)
  BY EmptySeq
<1>2. ASSUME NEW e \in Session
      PROVE  /\ \A u \in Users \cup {NoUser} : [e EXCEPT !.address = u] \in Session
             /\ [e EXCEPT !.authorized = TRUE] \in Session
             /\ [e EXCEPT !.authorized = TRUE, !.blocked = <<>>] \in Session
  BY <1>1 DEF Session
<1>3. ASSUME NEW u \in Users \cup {NoUser}
      PROVE  [ses EXCEPT ![s].address = u] \in [Sockets -> Session]
  BY <1>2
<1>4. [ses EXCEPT ![s].authorized = TRUE] \in [Sockets -> Session]
  BY <1>2
<1>5. [ses EXCEPT ![s].authorized = TRUE, ![s].blocked = <<>>]
        = [ses EXCEPT ![s] = [ses[s] EXCEPT !.authorized = TRUE, !.blocked = <<>>]]
  BY DEF Session
<1> QED
  BY <1>2, <1>3, <1>4, <1>5

\* Each step of the room keeps the types of its variables.
LEMMA TypeStep ==
    ASSUME TypeOK, [Next]_vars
    PROVE  TypeOK'
<1> USE DEF TypeOK
<1>1. \A s \in Sockets : session[s].address \in Users \cup {NoUser}
                           /\ session[s].authorized \in BOOLEAN
                           /\ session[s].blocked \in Seq(Frame)
  BY DEF Session
<1>2. ASSUME NEW s \in Sockets, Open(s) PROVE TypeOK'
  <2> DEFINE online == {Who(r, session[r].address) :
                          r \in {q \in sessions : session[q].address # NoUser}}
             roster == IF online = {} THEN <<>> ELSE <<Joined(online)>>
             frames == roster \o Latest
  <2>1. online \in SUBSET Presence
    BY <1>1, WhoType
  <2>2. Joined(online) \in Frame
    BY <2>1, FrameTypes
  <2>3. roster \in Seq(Frame)
    BY <2>2
  <2>4. Latest \in Seq(Frame)
    BY LatestType, FrameTypes, SeqMonotonic
  <2>5. frames \in Seq(Frame)
    BY <2>3, <2>4, ConcatProperties
  <2>6. frames \o <<Challenge>> \in Seq(Frame) /\ <<Challenge>> \in Seq(Frame)
    BY <2>5, FrameTypes, ConcatProperties
  <2>7. [NewSession EXCEPT !.blocked = IF gated THEN frames ELSE <<>>] \in Session
    <3> HIDE DEF frames
    <3>1. (IF gated THEN frames ELSE <<>>) \in Seq(Frame)
      BY <2>5, EmptySeq
    <3> QED
      BY <3>1 DEF NewSession, Session
  <2>8. attachment' \in [Sockets -> Attachment]
    BY <1>2, SaveType DEF Open
  <2> HIDE DEF frames
  <2>9. session' \in [Sockets -> Session] /\ sent' \in [Sockets -> Seq(Frame)]
    BY <1>2, <2>6, <2>7 DEF Open, frames
  <2> QED
    BY <1>2, <2>8, <2>9 DEF Open
<1>3. ASSUME NEW s \in Sockets, NEW u \in Users, RequestLogin(s, u) PROVE TypeOK'
  <2>1. [request |-> requests, socket |-> s, user |-> u, step |-> "db"] \in Login
    BY DEF Login
  <2> QED
    BY <1>3, <2>1, BoundsAssumption DEF RequestLogin, Request
<1>4. ASSUME NEW t \in logins, LoginFails(t) \/ LoginRepeats(t) \/ ChainRefuses(t)
      PROVE  TypeOK'
  BY <1>4 DEF LoginFails, LoginRepeats, ChainRefuses
<1>5. \A t \in logins : t.socket \in Sockets /\ t.user \in Users
                          /\ [t EXCEPT !.step = "chain"] \in Login
  BY DEF Login
<1>6. ASSUME NEW t \in logins, LoginOpenRoom(t) PROVE TypeOK'
  <2> DEFINE s    == t.socket
             old  == session[s].address
             ses  == [session EXCEPT ![s].address = t.user]
             join == Joined({Who(s, t.user)})
  <2>1. s \in Sockets /\ t.user \in Users \cup {NoUser} /\ old \in Users \cup {NoUser}
    BY <1>1, <1>5
  <2>2. join \in Frame /\ Quit({Who(s, old)}) \in Frame /\ <<join>> \in Seq(Frame)
    BY <2>1, WhoType, FrameTypes
  <2>3. ses \in [Sockets -> Session]
    BY <2>1, SessionUpdate
  <2> HIDE DEF s, old, ses, join
  <2>4. PICK F \in Throwing(sessions, session) :
          Deliver(IF old = NoUser
                    THEN Burst(join, F, ses)
                    ELSE Burst(Quit({Who(s, old)}), F, session) \o <<join>>,
                  F, ses, sent)
    BY <1>6 DEF LoginOpenRoom, s, old, ses, join
  <2>5. F \in SUBSET Sockets
    BY <2>4, ThrowingType
  <2>6. /\ Burst(join, F, ses) \in Seq(Frame)
        /\ Burst(Quit({Who(s, old)}), F, session) \o <<join>> \in Seq(Frame)
    BY <2>2, <2>3, <2>5, BurstType, ConcatProperties
  <2>7. /\ sessions' \in SUBSET Sockets
        /\ session' \in [Sockets -> Session]
        /\ sent' \in [Sockets -> Seq(Frame)]
    BY <2>3, <2>4, <2>6, DeliverType
  <2>8. attachment' \in [Sockets -> Attachment]
    <3>1. Save(s, t.user, session[s].authorized)
      BY <1>6 DEF LoginOpenRoom, s
    <3> QED
      BY <1>1, <2>1, <3>1, SaveType
  <2> QED
    BY <1>6, <2>7, <2>8 DEF LoginOpenRoom
<1>7. ASSUME NEW t \in logins, LoginGatedRoom(t) PROVE TypeOK'
  <2> DEFINE s   == t.socket
             old == session[s].address
             ses == [session EXCEPT ![s].address = t.user]
  <2>1. s \in Sockets /\ t.user \in Users \cup {NoUser} /\ old \in Users \cup {NoUser}
    BY <1>1, <1>5
  <2>2. Quit({Who(s, old)}) \in Frame
    BY <2>1, WhoType, FrameTypes
  <2>3. ses \in [Sockets -> Session]
    BY <2>1, SessionUpdate
  <2> HIDE DEF s, old, ses
  <2>4. PICK F \in SUBSET Sockets, frames \in Seq(Frame) :
          Deliver(frames, F, ses, sent)
    <3>1. CASE old = NoUser
      BY <1>7, <3>1, EmptySeq DEF LoginGatedRoom, s, old, ses
    <3>2. CASE old # NoUser
      <4>1. PICK F \in Throwing(sessions, session) :
              Deliver(Burst(Quit({Who(s, old)}), F, session), F, ses, sent)
        BY <1>7, <3>2 DEF LoginGatedRoom, s, old, ses
      <4>2. F \in SUBSET Sockets
        BY <4>1, ThrowingType
      <4>3. Burst(Quit({Who(s, old)}), F, session) \in Seq(Frame)
        BY <2>2, <4>2, BurstType
      <4> QED
        BY <4>1, <4>2, <4>3
    <3> QED
      BY <3>1, <3>2
  <2>5. /\ sessions' \in SUBSET Sockets
        /\ session' \in [Sockets -> Session]
        /\ sent' \in [Sockets -> Seq(Frame)]
    BY <2>3, <2>4, DeliverType
  <2> QED
    BY <1>5, <1>7, <2>5 DEF LoginGatedRoom
<1>8. ASSUME NEW t \in logins, ChainPasses(t) PROVE TypeOK'
  <2> DEFINE s       == t.socket
             address == session[s].address
             queued  == session[s].blocked
             ses     == [session EXCEPT ![s].authorized = TRUE, ![s].blocked = <<>>]
             opened  == [session EXCEPT ![s].authorized = TRUE]
             flushed == IF conn[s] = "open" THEN [sent EXCEPT ![s] = @ \o queued]
                                            ELSE sent
  <2>1. s \in Sockets /\ address \in Users \cup {NoUser} /\ queued \in Seq(Frame)
    BY <1>1, <1>5
  <2>2. Joined({Who(s, address)}) \in Frame
    BY <2>1, WhoType, FrameTypes
  <2>3. ses \in [Sockets -> Session] /\ opened \in [Sockets -> Session]
    BY <2>1, SessionUpdate
  <2>4. flushed \in [Sockets -> Seq(Frame)]
    BY <2>1, ConcatProperties
  <2> HIDE DEF s, address, queued, ses, opened, flushed
  <2>5. \/ \E F \in Throwing(sessions, ses) :
             Deliver(Burst(Joined({Who(s, address)}), F, ses), F, ses, flushed)
        \/ Deliver(<<>>, {}, opened, sent)
    BY <1>8 DEF ChainPasses, s, address, queued, ses, opened, flushed
  <2>6. /\ sessions' \in SUBSET Sockets
        /\ session' \in [Sockets -> Session]
        /\ sent' \in [Sockets -> Seq(Frame)]
    <3>1. CASE Deliver(<<>>, {}, opened, sent)
      BY <2>3, <3>1, EmptySeq, DeliverType
    <3>2. ASSUME NEW F \in Throwing(sessions, ses),
                 Deliver(Burst(Joined({Who(s, address)}), F, ses), F, ses, flushed)
          PROVE  /\ sessions' \in SUBSET Sockets
                 /\ session' \in [Sockets -> Session]
                 /\ sent' \in [Sockets -> Seq(Frame)]
      BY <2>2, <2>3, <2>4, <3>2, ThrowingType, BurstType, DeliverType
    <3> QED
      BY <2>5, <3>1, <3>2
  <2>7. attachment' \in [Sockets -> Attachment]
    BY <1>8, <2>1, SaveType DEF ChainPasses, s, address
  <2> QED
    BY <1>8, <2>6, <2>7 DEF ChainPasses
<1>9. ASSUME NEW s \in Sockets, Logout(s) PROVE TypeOK'
  <2>1. PICK F \in Throwing(sessions, session) :
          Deliver(Burst(Quit({Who(s, session[s].address)}), F, session), F,
                  [session EXCEPT ![s].address = NoUser], sent)
    BY <1>9 DEF Logout
  <2>2. F \in SUBSET Sockets
    BY <2>1, ThrowingType
  <2>3. Burst(Quit({Who(s, session[s].address)}), F, session) \in Seq(Frame)
    BY <1>1, <2>2, QuitBurstType
  <2>4. [session EXCEPT ![s].address = NoUser] \in [Sockets -> Session]
    BY SessionUpdate
  <2>5. /\ sessions' \in SUBSET Sockets
        /\ session' \in [Sockets -> Session]
        /\ sent' \in [Sockets -> Seq(Frame)]
    BY <2>1, <2>3, <2>4, DeliverType
  <2>6. attachment' \in [Sockets -> Attachment]
    <3>1. Save(s, NoUser, session[s].authorized)
      BY <1>9 DEF Logout
    <3> QED
      BY <1>1, <3>1, SaveType, ZenonT(60)
  <2> QED
    BY <1>9, <2>5, <2>6, BoundsAssumption DEF Logout, Request
<1>10. ASSUME NEW s \in Sockets, NEW now \in Clock, SendChat(s, now) PROVE TypeOK'
  <2> DEFINE from == session[s].address
             ts   == Stamp(now)
  <2>1. ts \in Nat
    BY BoundsAssumption DEF Maximum, Stamp
  <2>2. from \in Users
    BY <1>1, <1>10 DEF SendChat
  <2>3. Chat(ts, from) \in Message /\ Chat(ts, from) \in Frame
    BY <2>1, <2>2, FrameTypes
  <2> HIDE DEF from, ts
  <2>4. PICK F \in Throwing(sessions, session) :
          Deliver(Burst(Chat(ts, from), F, session), F, session, sent)
    BY <1>10 DEF SendChat, from, ts
  <2>5. Burst(Chat(ts, from), F, session) \in Seq(Frame)
    BY <2>3, <2>4, ThrowingType, BurstType
  <2>6. /\ sessions' \in SUBSET Sockets
        /\ session' \in [Sockets -> Session]
        /\ sent' \in [Sockets -> Seq(Frame)]
    BY <2>4, <2>5, DeliverType
  <2>7. history' \in Seq(Message)
    BY <1>10, <2>3, PutProperties DEF SendChat, from, ts
  <2> QED
    BY <1>10, <2>1, <2>6, <2>7, BoundsAssumption DEF SendChat, Request, ts
<1>11. ASSUME NEW s \in Sockets, Disconnect(s) PROVE TypeOK'
  BY <1>11 DEF Disconnect
<1>12. ASSUME NEW s \in Sockets, CloseEvent(s) PROVE TypeOK'
  <2>1. /\ sessions' \in SUBSET Sockets
        /\ session' \in [Sockets -> Session]
        /\ sent' \in [Sockets -> Seq(Frame)]
    <3>1. CASE s \notin sessions \/ session[s].address = NoUser
      BY <1>12, <3>1 DEF CloseEvent
    <3>2. CASE s \in sessions /\ session[s].address # NoUser
      <4>1. PICK F \in Throwing(sessions \ {s}, session) :
              Deliver(Burst(Quit({Who(s, session[s].address)}), F, session),
                      F \cup {s}, session, sent)
        BY <1>12, <3>2 DEF CloseEvent
      <4>2. F \in SUBSET Sockets
        BY <4>1, ThrowingType
      <4>3. Burst(Quit({Who(s, session[s].address)}), F, session) \in Seq(Frame)
        BY <1>1, <4>2, QuitBurstType
      <4> QED
        BY <4>1, <4>3, DeliverType
    <3> QED
      BY <3>1, <3>2
  <2> QED
    BY <1>12, <2>1 DEF CloseEvent
<1>13. ASSUME Hibernate PROVE TypeOK'
  <2>1. ASSUME NEW s \in Sockets
        PROVE  [address |-> attachment[s].address,
                authorized |-> attachment[s].authorized,
                blocked |-> <<>>] \in Session
    BY DEF Attachment, Session
  <2>2. session' \in [Sockets -> Session] /\ sessions' \in SUBSET Sockets
    BY <1>13, <2>1 DEF Hibernate
  <2> QED
    BY <1>13, <2>2 DEF Hibernate
<1>14. CASE UNCHANGED vars
  BY <1>14 DEF vars
<1> QED
  BY <1>2, <1>3, <1>4, <1>6, <1>7, <1>8, <1>9, <1>10, <1>11, <1>12, <1>13, <1>14
     DEF Next

LEMMA TypeStarts == Init => TypeOK
BY BoundsAssumption DEF Init, TypeOK, Session, NewSession, Attachment

\* The variables of the room always have their types.
THEOREM TypeCorrect == Spec => []TypeOK
BY TypeStarts, TypeStep, PTL DEF Spec

-----------------------------------------------------------------------------
(* The order of the history, where nothing is evicted. *)

\* The rest of the room leaves the history and the last timestamp alone.
LEMMA HistoryUntouched ==
    ASSUME Platform = "bun", [Next]_vars,
           ~ \E s \in Sockets, now \in Clock : SendChat(s, now)
    PROVE  UNCHANGED <<history, lastTimestamp>>
BY DEF Next, vars, Open, Disconnect, CloseEvent, Logout, RequestLogin, LoginFails,
       LoginRepeats, LoginOpenRoom, LoginGatedRoom, ChainRefuses, ChainPasses,
       Hibernate

\* A message is stamped after the last timestamp given, hence after all that is
\* stored: it is appended.
LEMMA ChatAppends ==
    ASSUME TypeOK, HistoryBelowLast, NEW s \in Sockets, NEW now \in Clock,
           SendChat(s, now)
    PROVE  LET m == Chat(Stamp(now), session[s].address)
           IN  /\ m \in Message /\ lastTimestamp' = m.ts /\ m.ts > lastTimestamp
               /\ history' = history \o <<m>>
               /\ \A i \in DOMAIN history : history[i].ts < m.ts
<1> DEFINE from == session[s].address
           ts   == Stamp(now)
           m    == Chat(ts, from)
<1>1. lastTimestamp \in Nat /\ history \in Seq(Message)
  BY DEF TypeOK
<1>2. ts \in Nat /\ ts > lastTimestamp
  BY <1>1, BoundsAssumption DEF Maximum, Stamp
<1>3. from \in Users
  BY DEF SendChat, TypeOK, Session
<1>4. m \in Message /\ m.ts = ts
  BY <1>2, <1>3, FrameTypes DEF Chat
<1>5. lastTimestamp' = ts /\ history' = Put(history, m)
  BY DEF SendChat
<1> HIDE DEF m, ts, from
<1>6. \A i \in DOMAIN history : history[i].ts \in Nat /\ history[i].ts < m.ts
  <2>1. \A i \in DOMAIN history : history[i] \in Message
    BY <1>1, ElementOfSeq, LenProperties
  <2>2. \A i \in DOMAIN history : history[i].ts \in Nat
    BY <2>1 DEF Message
  <2> QED
    BY <1>1, <1>2, <1>4, <2>2 DEF HistoryBelowLast
<1>7. history' = history \o <<m>>
  BY <1>1, <1>4, <1>5, <1>6, PutProperties
<1> QED
  BY <1>2, <1>4, <1>5, <1>6, <1>7 DEF m, ts, from

\* It is the last in turn.
LEMMA HistoryStep ==
    ASSUME Platform = "bun", TypeOK, HistoryBelowLast, [Next]_vars
    PROVE  /\ HistoryBelowLast'
           /\ \/ UNCHANGED history
              \/ /\ Len(history') = Len(history) + 1
                 /\ \A i \in DOMAIN history :
                      /\ history'[i] = history[i]
                      /\ history[i].ts < history'[Len(history')].ts
<1>1. CASE ~ \E s \in Sockets, now \in Clock : SendChat(s, now)
  BY <1>1, HistoryUntouched DEF HistoryBelowLast
<1>2. ASSUME NEW s \in Sockets, NEW now \in Clock, SendChat(s, now)
      PROVE  /\ HistoryBelowLast'
             /\ Len(history') = Len(history) + 1
             /\ \A i \in DOMAIN history :
                  /\ history'[i] = history[i]
                  /\ history[i].ts < history'[Len(history')].ts
  <2> DEFINE m == Chat(Stamp(now), session[s].address)
  <2>1. /\ m \in Message /\ lastTimestamp' = m.ts
        /\ history' = history \o <<m>>
        /\ \A i \in DOMAIN history : history[i].ts < m.ts
    BY <1>2, ChatAppends
  <2>2. history \in Seq(Message)
    BY DEF TypeOK
  <2> HIDE DEF m
  <2>3. /\ Len(history') = Len(history) + 1
        /\ DOMAIN history' = 1..Len(history')
        /\ \A i \in DOMAIN history : history'[i] = history[i]
        /\ history'[Len(history')] = m
        /\ Len(history) \in Nat /\ DOMAIN history = 1..Len(history)
    BY <2>1, <2>2
  <2>4. m.ts \in Nat /\ \A i \in DOMAIN history : history[i].ts \in Nat
    <3>1. \A i \in DOMAIN history : history[i] \in Message
      BY <2>2, ElementOfSeq, LenProperties
    <3> QED BY <2>1, <3>1 DEF Message
  <2>5. HistoryBelowLast'
    BY <2>1, <2>3, <2>4 DEF HistoryBelowLast
  <2> QED
    BY <2>1, <2>3, <2>5
<1> QED
  BY <1>1, <1>2, HistoryUntouched

\* On Bun every message stored is newer than all those stored before, whatever
\* the clock answers, and none of those is ever replaced.
THEOREM HistoryOrdered ==
    ASSUME Platform = "bun"
    PROVE  Spec => HistoryGrowsAtItsEnd
<1>1. Init => HistoryBelowLast
  BY DEF Init, HistoryBelowLast
<1>2. TypeOK /\ HistoryBelowLast /\ [Next]_vars => HistoryBelowLast'
  BY HistoryStep
<1>3. TypeOK /\ HistoryBelowLast /\ [Next]_vars =>
        [/\ Len(history') = Len(history) + 1
         /\ \A i \in DOMAIN history :
              /\ history'[i] = history[i]
              /\ history[i].ts < history'[Len(history')].ts]_history
  BY HistoryStep
<1> QED
  BY <1>1, <1>2, <1>3, TypeCorrect, PTL DEF Spec, HistoryGrowsAtItsEnd

-----------------------------------------------------------------------------
(* The gate. *)

\* Whatever is not a challenge has been sent to authorized sessions only.
Admitted(streams, ses) ==
    \A r \in Sockets : \A i \in DOMAIN streams[r] :
      streams[r][i].type # "challenge" => ses[r].authorized

\* GateHolds with what it needs when the object is built again from the
\* attachments: they record each authorization.
GateInvariant ==
    /\ gated => Admitted(sent, session)
    /\ Platform = "cf" =>
         \A s \in Sockets : attachment[s].authorized = session[s].authorized

\* Delivering leaves every authorization as it is and sends to the authorized.
LEMMA DeliverAdmits ==
    ASSUME NEW frames \in Seq(Frame), NEW F,
           NEW ses \in [Sockets -> Session],
           NEW out \in [Sockets -> Seq(Frame)],
           Deliver(frames, F, ses, out)
    PROVE  /\ \A r \in Sockets : session'[r].authorized = ses[r].authorized
           /\ gated /\ Admitted(out, ses) => Admitted(sent', session')
<1>1. ASSUME NEW r \in Sockets PROVE session'[r].authorized = ses[r].authorized
  BY DEF Deliver, Session
<1>2. ASSUME gated, Admitted(out, ses), NEW r \in Sockets,
             NEW i \in DOMAIN sent'[r], sent'[r][i].type # "challenge"
      PROVE  session'[r].authorized
  <2>1. CASE sent'[r] = out[r]
    BY <1>1, <1>2, <2>1 DEF Admitted
  <2>2. CASE sent'[r] # out[r]
    <3>1. ~Blocked(ses[r])
      BY <2>2 DEF Deliver
    <3> QED
      BY <1>1, <1>2, <3>1 DEF Blocked
  <2> QED
    BY <2>1, <2>2
<1> QED
  BY <1>1, <1>2 DEF Admitted

\* A save that records the authorization of the session keeps the records true.
LEMMA SaveRecords ==
    ASSUME attachment \in [Sockets -> Attachment], NEW s \in Sockets, NEW user,
           NEW authorized \in BOOLEAN, Save(s, user, authorized)
    PROVE  Platform = "cf" =>
             \A r \in Sockets : attachment'[r].authorized =
               IF r = s THEN authorized ELSE attachment[r].authorized
BY DEF Save, Attachment

\* Each step keeps the gate closed to the sessions that are not authorized.
LEMMA GateStep ==
    ASSUME TypeOK, GateInvariant, [Next]_vars
    PROVE  GateInvariant'
<1> USE DEF GateInvariant
<1>1. /\ session \in [Sockets -> Session] /\ attachment \in [Sockets -> Attachment]
      /\ sent \in [Sockets -> Seq(Frame)] /\ sessions \in SUBSET Sockets
  BY DEF TypeOK
<1>2. \A t \in logins : t.socket \in Sockets /\ t.user \in Users
  BY DEF TypeOK, Login
<1>3. \A s \in Sockets : session[s].authorized \in BOOLEAN
                           /\ session[s].address \in Users \cup {NoUser}
                           /\ session[s].blocked \in Seq(Frame)
  BY <1>1 DEF Session
<1>4. ASSUME UNCHANGED <<gated, sent, session, attachment>> PROVE GateInvariant'
  BY <1>4 DEF Admitted
<1>5. ASSUME NEW s \in Sockets, NEW F, NEW frames \in Seq(Frame),
             NEW user \in Users \cup {NoUser},
             Deliver(frames, F, [session EXCEPT ![s].address = user], sent),
             UNCHANGED gated,
             attachment' = attachment \/ Save(s, user, session[s].authorized)
      PROVE  GateInvariant'
  <2> DEFINE ses == [session EXCEPT ![s].address = user]
  <2>1. ses \in [Sockets -> Session]
    BY <1>1, SessionUpdate
  <2>2. \A r \in Sockets : ses[r].authorized = session[r].authorized
    BY <1>1 DEF Session
  <2> HIDE DEF ses
  <2>3. /\ \A r \in Sockets : session'[r].authorized = session[r].authorized
        /\ gated /\ Admitted(sent, ses) => Admitted(sent', session')
    <3>1. sent \in [Sockets -> Seq(Frame)] /\ Deliver(frames, F, ses, sent)
      BY <1>1, <1>5 DEF ses
    <3>2. /\ \A r \in Sockets : session'[r].authorized = ses[r].authorized
          /\ gated /\ Admitted(sent, ses) => Admitted(sent', session')
      BY <2>1, <3>1, DeliverAdmits
    <3> QED
      BY <2>2, <3>2
  <2>4. gated' => Admitted(sent, ses)
    BY <1>5, <2>2 DEF Admitted
  <2>5. Platform = "cf" =>
          \A r \in Sockets : attachment'[r].authorized = session[r].authorized
    BY <1>1, <1>3, <1>5, SaveRecords
  <2> QED
    BY <1>5, <2>3, <2>4, <2>5 DEF Admitted
<1>6. ASSUME NEW s \in Sockets, Open(s) PROVE GateInvariant'
  <2>1. \A r \in Sockets :
          session'[r].authorized = IF r = s THEN FALSE ELSE session[r].authorized
    BY <1>1, <1>6 DEF Open, NewSession, Session
  <2>2. gated' => Admitted(sent', session')
    <3>1. gated => sent' = [sent EXCEPT ![s] = <<Challenge>>]
      BY <1>6 DEF Open
    <3>2. \A i \in DOMAIN <<Challenge>> : <<Challenge>>[i].type = "challenge"
      BY DEF Challenge
    <3> QED
      BY <1>1, <1>6, <2>1, <3>1, <3>2 DEF Open, Admitted
  <2>3. Save(s, NoUser, FALSE)
    BY <1>6 DEF Open
  <2>4. Platform = "cf" =>
          \A r \in Sockets : attachment'[r].authorized = session'[r].authorized
    BY <1>1, <2>1, <2>3, SaveRecords
  <2> QED
    BY <2>2, <2>4
<1>7. ASSUME NEW t \in logins, LoginOpenRoom(t) PROVE GateInvariant'
  <2>1. t.socket \in Sockets /\ ~gated /\ UNCHANGED gated
    BY <1>2, <1>7 DEF LoginOpenRoom
  <2>2. PICK F, frames :
          Deliver(frames, F, [session EXCEPT ![t.socket].address = t.user], sent)
    <3> DEFINE s    == t.socket
               old  == session[s].address
               ses  == [session EXCEPT ![s].address = t.user]
               join == Joined({Who(s, t.user)})
               sending(F) == IF old = NoUser
                               THEN Burst(join, F, ses)
                               ELSE Burst(Quit({Who(s, old)}), F, session) \o <<join>>
    <3>1. \E F \in Throwing(sessions, session) : Deliver(sending(F), F, ses, sent)
      BY <1>7 DEF LoginOpenRoom
    <3> HIDE DEF sending
    <3> QED
      BY <3>1
  <2>3. \A r \in Sockets : session'[r].authorized = session[r].authorized
    BY <1>1, <2>2 DEF Deliver, Session
  <2>4. Save(t.socket, t.user, session[t.socket].authorized)
    BY <1>7 DEF LoginOpenRoom
  <2>5. Platform = "cf" =>
          \A r \in Sockets : attachment'[r].authorized = session[r].authorized
    BY <1>1, <1>3, <2>1, <2>4, SaveRecords
  <2> QED
    BY <2>1, <2>3, <2>5
<1>8. ASSUME NEW t \in logins, LoginGatedRoom(t) PROVE GateInvariant'
  <2> DEFINE s   == t.socket
             old == session[s].address
  <2>1. s \in Sockets /\ t.user \in Users \cup {NoUser} /\ Quit({Who(s, old)}) \in Frame
    BY <1>2, <1>3, WhoType, FrameTypes
  <2>2. PICK F \in SUBSET Sockets, frames \in Seq(Frame) :
          Deliver(frames, F, [session EXCEPT ![s].address = t.user], sent)
    <3>1. CASE old = NoUser
      BY <1>8, <3>1, EmptySeq DEF LoginGatedRoom
    <3>2. CASE old # NoUser
      <4>1. PICK F \in Throwing(sessions, session) :
              Deliver(Burst(Quit({Who(s, old)}), F, session), F,
                      [session EXCEPT ![s].address = t.user], sent)
        BY <1>8, <3>2 DEF LoginGatedRoom
      <4>2. F \in SUBSET Sockets
        BY <1>1, <4>1, ThrowingType
      <4>3. Burst(Quit({Who(s, old)}), F, session) \in Seq(Frame)
        BY <1>1, <2>1, <4>2, BurstType
      <4> QED
        BY <4>1, <4>2, <4>3
    <3> QED
      BY <3>1, <3>2
  <2>3. UNCHANGED <<gated, attachment>>
    BY <1>8 DEF LoginGatedRoom
  <2> QED
    BY <1>5, <2>1, <2>2, <2>3
<1>9. ASSUME NEW t \in logins, ChainPasses(t) PROVE GateInvariant'
  <2> DEFINE s       == t.socket
             address == session[s].address
             queued  == session[s].blocked
             ses     == [session EXCEPT ![s].authorized = TRUE, ![s].blocked = <<>>]
             opened  == [session EXCEPT ![s].authorized = TRUE]
             flushed == IF conn[s] = "open" THEN [sent EXCEPT ![s] = @ \o queued]
                                            ELSE sent
  <2>1. s \in Sockets /\ address \in Users \cup {NoUser} /\ queued \in Seq(Frame)
    BY <1>2, <1>3
  <2>2. Joined({Who(s, address)}) \in Frame
    BY <2>1, WhoType, FrameTypes
  <2>3. ses \in [Sockets -> Session] /\ opened \in [Sockets -> Session]
    BY <1>1, <2>1, SessionUpdate
  <2>4. flushed \in [Sockets -> Seq(Frame)]
    BY <1>1, <2>1, ConcatProperties
  <2>5. \A r \in Sockets :
          /\ ses[r].authorized = IF r = s THEN TRUE ELSE session[r].authorized
          /\ opened[r].authorized = IF r = s THEN TRUE ELSE session[r].authorized
    BY <1>1, <2>1 DEF Session
  <2>6. \A r \in Sockets : r # s => flushed[r] = sent[r]
    BY <1>1
  <2> HIDE DEF s, address, queued, ses, opened, flushed
  <2>7. gated => Admitted(flushed, ses) /\ Admitted(sent, opened)
    BY <2>5, <2>6 DEF Admitted
  <2>8. \/ \E F \in Throwing(sessions, ses) :
             Deliver(Burst(Joined({Who(s, address)}), F, ses), F, ses, flushed)
        \/ Deliver(<<>>, {}, opened, sent)
    BY <1>9 DEF ChainPasses, s, address, queued, ses, opened, flushed
  <2>9. /\ \A r \in Sockets :
             session'[r].authorized = IF r = s THEN TRUE ELSE session[r].authorized
        /\ gated => Admitted(sent', session')
    <3>1. CASE Deliver(<<>>, {}, opened, sent)
      BY <1>1, <2>3, <2>5, <2>7, <3>1, EmptySeq, DeliverAdmits
    <3>2. ASSUME NEW F \in Throwing(sessions, ses),
                 Deliver(Burst(Joined({Who(s, address)}), F, ses), F, ses, flushed)
          PROVE  /\ \A r \in Sockets : session'[r].authorized =
                      IF r = s THEN TRUE ELSE session[r].authorized
                 /\ gated => Admitted(sent', session')
      <4>1. Burst(Joined({Who(s, address)}), F, ses) \in Seq(Frame)
        BY <1>1, <2>2, <2>3, ThrowingType, BurstType
      <4> QED
        BY <2>3, <2>4, <2>5, <2>7, <3>2, <4>1, DeliverAdmits
    <3> QED
      BY <2>8, <3>1, <3>2
  <2>10. UNCHANGED gated /\ Save(s, address, TRUE)
    BY <1>9 DEF ChainPasses, s, address
  <2>11. Platform = "cf" =>
           \A r \in Sockets : attachment'[r].authorized = session'[r].authorized
    BY <1>1, <2>1, <2>9, <2>10, SaveRecords
  <2> QED
    BY <2>9, <2>10, <2>11
<1>10. ASSUME NEW s \in Sockets, Logout(s) PROVE GateInvariant'
  <2>1. PICK F \in Throwing(sessions, session) :
          Deliver(Burst(Quit({Who(s, session[s].address)}), F, session), F,
                  [session EXCEPT ![s].address = NoUser], sent)
    BY <1>10 DEF Logout
  <2>2. Burst(Quit({Who(s, session[s].address)}), F, session) \in Seq(Frame)
    <3>1. F \in SUBSET Sockets
      BY <1>1, <2>1, ThrowingType
    <3> QED
      BY <1>1, <1>3, <3>1, QuitBurstType
  <2>3. UNCHANGED gated /\ Save(s, NoUser, session[s].authorized)
    BY <1>10 DEF Logout
  <2> QED
    BY <1>5, <2>1, <2>2, <2>3
<1>11. ASSUME NEW frames \in Seq(Frame), NEW F, Deliver(frames, F, session, sent),
              UNCHANGED <<gated, attachment>>
       PROVE  GateInvariant'
  BY <1>1, <1>11, DeliverAdmits
<1>12. ASSUME NEW s \in Sockets, NEW now \in Clock, SendChat(s, now)
       PROVE  GateInvariant'
  <2> DEFINE ts == Stamp(now)
  <2>1. Chat(ts, session[s].address) \in Frame
    <3>1. ts \in Nat
      BY BoundsAssumption DEF Maximum, Stamp, TypeOK
    <3>2. session[s].address \in Users
      BY <1>3, <1>12 DEF SendChat
    <3> QED
      BY <3>1, <3>2, FrameTypes
  <2>2. PICK F \in Throwing(sessions, session) :
          Deliver(Burst(Chat(ts, session[s].address), F, session), F, session, sent)
    BY <1>12 DEF SendChat
  <2> HIDE DEF ts
  <2>3. Burst(Chat(ts, session[s].address), F, session) \in Seq(Frame)
    BY <1>1, <2>1, <2>2, ThrowingType, BurstType
  <2> QED
    BY <1>11, <1>12, <2>2, <2>3 DEF SendChat
<1>13. ASSUME NEW s \in Sockets, CloseEvent(s) PROVE GateInvariant'
  <2>1. CASE s \notin sessions \/ session[s].address = NoUser
    BY <1>4, <1>13, <2>1 DEF CloseEvent
  <2>2. CASE s \in sessions /\ session[s].address # NoUser
    <3>1. PICK F \in Throwing(sessions \ {s}, session) :
            Deliver(Burst(Quit({Who(s, session[s].address)}), F, session),
                    F \cup {s}, session, sent)
      BY <1>13, <2>2 DEF CloseEvent
    <3>2. F \in SUBSET Sockets
      BY <1>1, <3>1, ThrowingType
    <3>3. Burst(Quit({Who(s, session[s].address)}), F, session) \in Seq(Frame)
      BY <1>1, <1>3, <3>2, QuitBurstType
    <3> QED
      BY <1>11, <1>13, <3>1, <3>3 DEF CloseEvent
  <2> QED
    BY <2>1, <2>2
<1>14. ASSUME Hibernate PROVE GateInvariant'
  <2>1. \A s \in Sockets : session'[s].authorized = session[s].authorized
    BY <1>1, <1>14 DEF Hibernate
  <2> QED
    BY <1>14, <2>1 DEF Hibernate, Admitted
<1>15. ASSUME \/ \E s \in Sockets : Disconnect(s) \/ \E u \in Users : RequestLogin(s, u)
              \/ \E t \in logins : LoginFails(t) \/ LoginRepeats(t) \/ ChainRefuses(t)
              \/ UNCHANGED vars
       PROVE  GateInvariant'
  BY <1>4, <1>15
     DEF Disconnect, RequestLogin, LoginFails, LoginRepeats, ChainRefuses, vars
<1> QED
  BY <1>6, <1>7, <1>8, <1>9, <1>10, <1>12, <1>13, <1>14, <1>15 DEF Next

\* In a gated room nothing but the challenge reaches a connection that has not
\* passed the authorization, on both platforms and through evictions.
THEOREM GateCorrect == Spec => []GateHolds
<1>1. Init => GateInvariant
  <2>1. Init => Admitted(sent, session)
    BY DEF Init, Admitted
  <2>2. Init => \A s \in Sockets : /\ attachment[s].authorized = FALSE
                                   /\ session[s].authorized = FALSE
    BY DEF Init, NewSession
  <2> QED
    BY <2>1, <2>2 DEF GateInvariant
<1>2. GateInvariant => GateHolds
  BY DEF GateInvariant, GateHolds, Admitted
<1>3. TypeOK /\ GateInvariant /\ [Next]_vars => GateInvariant'
  BY GateStep
<1> QED
  BY <1>1, <1>2, <1>3, TypeCorrect, PTL DEF Spec
=============================================================================
