----------------------- MODULE Conversations_proofs ------------------------
(***************************************************************************)
(* Theorems about Conversations, for all users, conversations, recipient   *)
(* lists and bounds, and for both kinds of database: the types, that the   *)
(* three tables agree, that only a user's own requests take back what the  *)
(* user has accepted or read, that a send is stored whole, and that        *)
(* conversations are dated by messages stored in them.                     *)
(***************************************************************************)
EXTENDS Conversations, TLAPS

-----------------------------------------------------------------------------
(* What the statements write. *)

\* The upsert of a conversation keeps the type of the table, leaves a row for
\* the conversation and removes none.
LEMMA ConversationUpserted ==
    ASSUME TypeOK, NEW t \in Send
    PROVE  /\ UpsertConversation(t) \in [Convs -> Conversation \cup {None}]
           /\ UpsertConversation(t)[t.conv] # None
           /\ \A c \in Convs :
                conversations[c] # None => UpsertConversation(t)[c] # None
<1> DEFINE row    == conversations[t.conv]
           new    == [creationDate |-> t.timestamp, members |-> t.to,
                      lastMessage |-> t.timestamp]
           older  == [row EXCEPT !.lastMessage = t.timestamp]
           result == IF row = None THEN new ELSE older
<1>1. t.conv \in Convs /\ t.timestamp \in Nat /\ t.to \in Seq(Users)
  BY DEF Send
<1>2. conversations \in [Convs -> Conversation \cup {None}]
  BY DEF TypeOK
<1>3. new \in Conversation
  BY <1>1 DEF Conversation
<1>4. row # None => older \in Conversation
  BY <1>1, <1>2 DEF Conversation
<1>5. result \in Conversation
  BY <1>3, <1>4
<1>6. result # None
  BY <1>5, NoneAssumption
<1>7. UpsertConversation(t) = [conversations EXCEPT ![t.conv] = result]
  BY DEF UpsertConversation
<1> HIDE DEF result
<1> QED
  BY <1>1, <1>2, <1>5, <1>6, <1>7

\* The upsert of a participant returns a row, and one that is not lower than a
\* row that was there.
LEMMA ParticipantUpserted ==
    ASSUME TypeOK, NEW t \in Send, NEW r \in Users
    PROVE  /\ UpsertedParticipant(t, r) \in Participant
           /\ UpsertedParticipant(t, r) # None
           /\ participants[t.conv][r] # None =>
                /\ UpsertedParticipant(t, r).status >= participants[t.conv][r].status
                /\ UpsertedParticipant(t, r).lastRead
                     >= participants[t.conv][r].lastRead
<1> DEFINE row      == participants[t.conv][r]
           status   == IF r = t.user THEN Accepted ELSE Unaccepted
           lastRead == IF r = t.user THEN t.lastRead ELSE 0
<1>1. t.conv \in Convs /\ t.lastRead \in Nat
  BY DEF Send
<1>2. row \in Participant \cup {None}
  BY <1>1 DEF TypeOK
<1>3. status \in {0, 1, 2} /\ lastRead \in Nat
  BY <1>1 DEF Accepted, Unaccepted
<1> HIDE DEF status, lastRead
<1>4. CASE row = None
  <2>1. UpsertedParticipant(t, r) = [status |-> status, lastRead |-> lastRead]
    BY <1>4 DEF UpsertedParticipant, status, lastRead
  <2>2. UpsertedParticipant(t, r) \in Participant
    BY <1>3, <2>1 DEF Participant, Unaccepted, Rejected, Accepted
  <2> QED
    BY <1>4, <2>2, NoneAssumption
<1>5. CASE row # None
  <2> DEFINE result == [status   |-> Larger(row.status, status),
                        lastRead |-> Larger(row.lastRead, lastRead)]
  <2>1. UpsertedParticipant(t, r) = result
    BY <1>5 DEF UpsertedParticipant, status, lastRead
  <2>2. row.status \in {0, 1, 2} /\ row.lastRead \in Nat
    BY <1>2, <1>5 DEF Participant, Unaccepted, Rejected, Accepted
  <2>3. /\ Larger(row.status, status) \in {0, 1, 2}
        /\ Larger(row.lastRead, lastRead) \in Nat
        /\ Larger(row.status, status) >= row.status
        /\ Larger(row.lastRead, lastRead) >= row.lastRead
    BY <1>3, <2>2 DEF Larger
  <2>4. result \in Participant
    BY <2>3 DEF Participant, Unaccepted, Rejected, Accepted
  <2> QED
    BY <2>1, <2>3, <2>4, NoneAssumption
<1> QED
  BY <1>4, <1>5

\* The recipients of a send are users.
LEMMA RecipientTypes ==
    ASSUME NEW t \in Send
    PROVE  /\ Range(t.to) \subseteq Users
           /\ \A i \in DOMAIN t.to : t.to[i] \in Users /\ i \in Nat
<1>1. t.to \in Seq(Users)
  BY DEF Send
<1> QED
  BY <1>1 DEF Range

\* A message row has the type of the table.
LEMMA MessageTypes ==
    ASSUME NEW t \in Send, NEW r \in Users
    PROVE  /\ MessageRow(t, r) \in Message
           /\ MessageRow(t, r).conv = t.conv
           /\ MessageRow(t, r).recipient = r
BY DEF MessageRow, Message, Send

\* A statement executed leaves a send with its counter one higher.
LEMMA ExecutedTypes ==
    ASSUME TypeOK, NEW t \in Send
    PROVE  /\ Executed(t) \subseteq Task
           /\ \A u \in Executed(t) :
                u \in tasks \/ u = [t EXCEPT !.next = t.next + 1]
<1>1. [t EXCEPT !.next = t.next + 1] \in Send
  BY DEF Send
<1> QED
  BY <1>1 DEF Executed, TypeOK, Task

\* A task that is served is a send or an update, by its op.
LEMMA TaskTypes ==
    ASSUME TypeOK, NEW t \in tasks
    PROVE  /\ t.op = "send" => t \in Send
           /\ t.op # "send" => t \in Update
BY DEF TypeOK, Task, Send, Update

\* The other writes change one row, which is there, into another row.
LEMMA RowUpdated ==
    ASSUME TypeOK, NEW t \in tasks,
           AcceptConversation(t) \/ RejectConversation(t) \/ MarkAsRead(t)
    PROVE  /\ t.op # "send" /\ t.conv \in Convs /\ t.user \in Users
           /\ \/ participants' = participants
              \/ \E row \in Participant :
                   /\ participants[t.conv][t.user] # None
                   /\ participants' = [participants EXCEPT ![t.conv][t.user] = row]
           /\ tasks' = tasks \ {t}
           /\ UNCHANGED <<transactional, now, conversations, messages, received,
                          answered, requests>>
<1>1. t.op # "send"
  BY DEF AcceptConversation, RejectConversation, MarkAsRead
<1>2. t.conv \in Convs /\ t.user \in Users /\ t.lastRead \in Nat
  BY <1>1, TaskTypes DEF Update
<1>3. participants[t.conv][t.user] \in Participant \cup {None}
  BY <1>2 DEF TypeOK
<1>4. PICK row : /\ UpdateRow(t, row)
                 /\ participants[t.conv][t.user] # None => row \in Participant
  <2>1. CASE AcceptConversation(t)
    BY <1>2, <2>1
    DEF AcceptConversation, Participant, Unaccepted, Rejected, Accepted
  <2>2. CASE RejectConversation(t)
    BY <1>3, <2>2
    DEF RejectConversation, Participant, Unaccepted, Rejected, Accepted
  <2>3. CASE MarkAsRead(t)
    BY <1>2, <2>3 DEF MarkAsRead, Participant, Unaccepted, Rejected, Accepted
  <2> QED
    BY <2>1, <2>2, <2>3
<1> QED
  BY <1>1, <1>2, <1>4 DEF UpdateRow

-----------------------------------------------------------------------------
(* Types. *)

\* Every step keeps the types.
LEMMA TypeStep == TypeOK /\ [Next]_vars => TypeOK'
<1> SUFFICES ASSUME TypeOK, [Next]_vars PROVE TypeOK'
  OBVIOUS
<1> USE DEF tables
<1>1. ASSUME Tick PROVE TypeOK'
  BY <1>1, NumbersAssumption DEF Tick, TypeOK
<1>2. ASSUME NEW a \in Addressing, NEW random \in Randoms, NEW lastRead \in 0..now,
             RequestSend(a, random, lastRead)
      PROVE  TypeOK'
  <2> DEFINE t == [op |-> "send", request |-> requests, user |-> a.from,
                   conv |-> a.conv, to |-> a.to, timestamp |-> now,
                   messageID |-> now * 1000 + random, lastRead |-> lastRead,
                   next |-> 0]
  <2>1. a.conv \in Convs /\ a.from \in Users /\ a.to \in Seq(Users)
    BY AddressingAssumption
  <2>2. now \in Nat /\ requests \in Nat /\ lastRead \in Nat
    BY NumbersAssumption DEF TypeOK
  <2>3. now * 1000 + random \in Nat
    BY <2>2, NumbersAssumption
  <2>4. t \in Send
    BY <2>1, <2>2, <2>3 DEF Send
  <2>5. tasks' = tasks \cup {t} /\ received' = received \cup {t}
    BY <1>2 DEF RequestSend
  <2>6. requests' \in 0..MaxRequests
    BY <1>2, NumbersAssumption DEF RequestSend, Request, TypeOK
  <2> HIDE DEF t
  <2> QED
    BY <1>2, <2>4, <2>5, <2>6 DEF RequestSend, TypeOK, Task
<1>3. ASSUME NEW op \in {"accept", "reject", "read"}, NEW u \in Users,
             NEW c \in Convs, NEW lastRead \in 0..now,
             RequestUpdate(op, u, c, lastRead)
      PROVE  TypeOK'
  <2> DEFINE t == [op |-> op, request |-> requests, user |-> u, conv |-> c,
                   lastRead |-> lastRead]
  <2>1. t \in Update
    BY NumbersAssumption DEF TypeOK, Update
  <2>2. tasks' = tasks \cup {t}
    BY <1>3 DEF RequestUpdate
  <2>3. requests' \in 0..MaxRequests
    BY <1>3, NumbersAssumption DEF RequestUpdate, Request, TypeOK
  <2> HIDE DEF t
  <2> QED
    BY <1>3, <2>1, <2>2, <2>3 DEF RequestUpdate, TypeOK, Task
<1>4. ASSUME NEW t \in tasks, CommitSend(t) PROVE TypeOK'
  <2>1. t \in Send /\ t.conv \in Convs /\ t.request \in Nat
    BY <1>4, TaskTypes DEF CommitSend, Send
  <2>2. conversations' \in [Convs -> Conversation \cup {None}]
    BY <1>4, <2>1, ConversationUpserted DEF CommitSend
  <2>3. participants' \in [Convs -> [Users -> Participant \cup {None}]]
    <3> DEFINE row(u) == IF u \in Range(t.to) THEN UpsertedParticipant(t, u)
                           ELSE participants[t.conv][u]
               rows   == [u \in Users |-> row(u)]
    <3>1. participants \in [Convs -> [Users -> Participant \cup {None}]]
      BY DEF TypeOK
    <3>2. \A u \in Users : row(u) \in Participant \cup {None}
      BY <2>1, <3>1, ParticipantUpserted
    <3>3. participants' = [participants EXCEPT ![t.conv] = rows]
      BY <1>4 DEF CommitSend
    <3> HIDE DEF row
    <3>4. rows \in [Users -> Participant \cup {None}]
      BY <3>2
    <3> HIDE DEF rows
    <3> QED
      BY <2>1, <3>1, <3>3, <3>4
  <2>4. messages' \subseteq Message
    BY <1>4, <2>1, RecipientTypes, MessageTypes DEF CommitSend, TypeOK
  <2> QED
    BY <1>4, <2>1, <2>2, <2>3, <2>4 DEF CommitSend, TypeOK
<1>5. ASSUME NEW t \in tasks, RollBackSend(t) PROVE TypeOK'
  BY <1>5 DEF RollBackSend, TypeOK
<1>6. ASSUME NEW t \in tasks, ExecuteConversation(t) PROVE TypeOK'
  <2>1. t \in Send
    BY <1>6, TaskTypes DEF ExecuteConversation
  <2>2. conversations' \in [Convs -> Conversation \cup {None}]
    BY <1>6, <2>1, ConversationUpserted DEF ExecuteConversation
  <2>3. tasks' \subseteq Task
    BY <1>6, <2>1, ExecutedTypes DEF ExecuteConversation
  <2> QED
    BY <1>6, <2>2, <2>3 DEF ExecuteConversation, TypeOK
<1>7. ASSUME NEW t \in tasks, ExecuteParticipant(t) PROVE TypeOK'
  <2>1. t \in Send /\ t.conv \in Convs
    BY <1>7, TaskTypes DEF ExecuteParticipant, Send
  <2>2. PICK i \in DOMAIN t.to :
          participants' = [participants EXCEPT ![t.conv][t.to[i]] =
                             UpsertedParticipant(t, t.to[i])]
    BY <1>7 DEF ExecuteParticipant
  <2>3. UpsertedParticipant(t, t.to[i]) \in Participant
    BY <2>1, RecipientTypes, ParticipantUpserted
  <2>4. participants' \in [Convs -> [Users -> Participant \cup {None}]]
    BY <2>1, <2>2, <2>3 DEF TypeOK
  <2>5. tasks' \subseteq Task
    BY <1>7, <2>1, ExecutedTypes DEF ExecuteParticipant
  <2> QED
    BY <1>7, <2>4, <2>5 DEF ExecuteParticipant, TypeOK
<1>8. ASSUME NEW t \in tasks, ExecuteMessage(t) PROVE TypeOK'
  <2>1. t \in Send
    BY <1>8, TaskTypes DEF ExecuteMessage
  <2>2. messages' \subseteq Message
    BY <1>8, <2>1, RecipientTypes, MessageTypes DEF ExecuteMessage, TypeOK
  <2>3. tasks' \subseteq Task
    BY <1>8, <2>1, ExecutedTypes DEF ExecuteMessage
  <2> QED
    BY <1>8, <2>2, <2>3 DEF ExecuteMessage, TypeOK
<1>9. ASSUME NEW t \in tasks, AbortSend(t) PROVE TypeOK'
  BY <1>9 DEF AbortSend, TypeOK
<1>10. ASSUME NEW t \in tasks, AnswerSend(t) PROVE TypeOK'
  <2>1. t.request \in Nat
    BY <1>10, TaskTypes DEF AnswerSend, Send
  <2> QED
    BY <1>10, <2>1 DEF AnswerSend, TypeOK
<1>11. ASSUME NEW t \in tasks,
              AcceptConversation(t) \/ RejectConversation(t) \/ MarkAsRead(t)
       PROVE  TypeOK'
  <2>1. participants' \in [Convs -> [Users -> Participant \cup {None}]]
    <3>1. participants \in [Convs -> [Users -> Participant \cup {None}]]
      BY DEF TypeOK
    <3>2. /\ t.conv \in Convs /\ t.user \in Users
          /\ \/ participants' = participants
             \/ \E row \in Participant :
                  participants' = [participants EXCEPT ![t.conv][t.user] = row]
      BY <1>11, RowUpdated
    <3>3. ASSUME NEW row \in Participant,
                 participants' = [participants EXCEPT ![t.conv][t.user] = row]
          PROVE  participants' \in [Convs -> [Users -> Participant \cup {None}]]
      BY <3>1, <3>2, <3>3
    <3> QED
      BY <3>1, <3>2, <3>3
  <2> QED
    BY <1>11, <2>1, RowUpdated DEF TypeOK
<1>12. ASSUME Crash PROVE TypeOK'
  BY <1>12 DEF Crash, TypeOK
<1>13. CASE UNCHANGED vars
  BY <1>13 DEF vars, TypeOK
<1> QED
  BY <1>1, <1>2, <1>3, <1>4, <1>5, <1>6, <1>7, <1>8, <1>9, <1>10, <1>11, <1>12,
     <1>13 DEF Next

\* Every variable keeps its type, whatever clients send and however the
\* database interleaves it.
THEOREM TypeCorrect == Spec => []TypeOK
<1>1. Init => TypeOK
  BY NumbersAssumption DEF Init, TypeOK
<1> QED
  BY <1>1, TypeStep, PTL DEF Spec

-----------------------------------------------------------------------------
(* The tables agree. *)

\* What EveryMessageListed says row by row, and, on Bun, what the statements
\* that a send has executed so far have left for the next ones.
TablesFit ==
    /\ \A m \in messages : participants[m.conv][m.recipient] # None
    /\ \A c \in Convs, u \in Users :
         participants[c][u] # None => conversations[c] # None
    /\ ~transactional =>
         \A t \in tasks : t.op = "send" =>
           /\ t.next >= 1 => conversations[t.conv] # None
           /\ \A i \in DOMAIN t.to :
                t.next = 2 * i => participants[t.conv][t.to[i]] # None

\* Rows are never removed, and a new participant belongs to a conversation: then
\* the new messages alone have to be looked at.
LEMMA RowsStay ==
    ASSUME TablesFit,
           \A c \in Convs : conversations[c] # None => conversations'[c] # None,
           \A c \in Convs, u \in Users :
             participants[c][u] # None => participants'[c][u] # None,
           \A c \in Convs, u \in Users :
             participants[c][u] = None /\ participants'[c][u] # None
               => conversations'[c] # None,
           messages \subseteq Message
    PROVE  /\ \A m \in messages : participants'[m.conv][m.recipient] # None
           /\ \A c \in Convs, u \in Users :
                participants'[c][u] # None => conversations'[c] # None
BY DEF TablesFit, Message

\* The tasks that are left as they are keep what they need.
LEMMA TasksStay ==
    ASSUME TypeOK, TablesFit, ~transactional,
           \A c \in Convs : conversations[c] # None => conversations'[c] # None,
           \A c \in Convs, u \in Users :
             participants[c][u] # None => participants'[c][u] # None,
           NEW t \in tasks, t.op = "send"
    PROVE  /\ t.next >= 1 => conversations'[t.conv] # None
           /\ \A i \in DOMAIN t.to :
                t.next = 2 * i => participants'[t.conv][t.to[i]] # None
<1>1. t \in Send /\ t.conv \in Convs
  BY TaskTypes DEF Send
<1>2. \A i \in DOMAIN t.to : t.to[i] \in Users
  BY <1>1, RecipientTypes
<1> QED
  BY <1>1, <1>2 DEF TablesFit

\* Every step keeps the tables together.
LEMMA TablesStep == TypeOK /\ TablesFit /\ [Next]_vars => TablesFit'
<1> SUFFICES ASSUME TypeOK, TablesFit, [Next]_vars PROVE TablesFit'
  OBVIOUS
<1> USE DEF tables
<1>1. ASSUME UNCHANGED <<tables, transactional>>,
             \A t \in tasks' : t \in tasks \/ t.op # "send" \/ t.next = 0
      PROVE  TablesFit'
  <2>1. \A m \in messages' : participants'[m.conv][m.recipient] # None
    BY <1>1 DEF TablesFit
  <2>2. \A c \in Convs, u \in Users :
          participants'[c][u] # None => conversations'[c] # None
    BY <1>1 DEF TablesFit
  <2>3. ASSUME ~transactional', NEW t \in tasks', t.op = "send"
        PROVE  /\ t.next >= 1 => conversations'[t.conv] # None
               /\ \A i \in DOMAIN t.to :
                    t.next = 2 * i => participants'[t.conv][t.to[i]] # None
    <3>1. CASE t \in tasks
      BY <1>1, <2>3, <3>1 DEF TablesFit
    <3>2. CASE t \notin tasks
      <4>1. t.next = 0
        BY <1>1, <2>3, <3>2
      <4>2. t \in Send
        BY <2>3, TypeStep DEF TypeOK, Task, Update
      <4>3. \A i \in DOMAIN t.to : 2 * i # 0
        BY <4>2 DEF Send
      <4> QED
        BY <4>1, <4>3
    <3> QED
      BY <3>1, <3>2
  <2> QED
    BY <2>1, <2>2, <2>3 DEF TablesFit
<1>2. ASSUME Tick PROVE TablesFit'
  BY <1>1, <1>2 DEF Tick
<1>3. ASSUME NEW a \in Addressing, NEW random \in Randoms, NEW lastRead \in 0..now,
             RequestSend(a, random, lastRead)
      PROVE  TablesFit'
  BY <1>1, <1>3 DEF RequestSend
<1>4. ASSUME NEW op \in {"accept", "reject", "read"}, NEW u \in Users,
             NEW c \in Convs, NEW lastRead \in 0..now,
             RequestUpdate(op, u, c, lastRead)
      PROVE  TablesFit'
  BY <1>1, <1>4 DEF RequestUpdate
<1>5. ASSUME NEW t \in tasks, CommitSend(t) PROVE TablesFit'
  <2>1. t \in Send /\ t.conv \in Convs
    BY <1>5, TaskTypes DEF CommitSend, Send
  <2>2. /\ conversations'[t.conv] # None
        /\ \A c \in Convs : conversations[c] # None => conversations'[c] # None
    BY <1>5, <2>1, ConversationUpserted DEF CommitSend
  <2>3. \A c \in Convs, u \in Users :
          participants'[c][u] = IF c = t.conv /\ u \in Range(t.to)
                                  THEN UpsertedParticipant(t, u)
                                  ELSE participants[c][u]
    BY <1>5 DEF CommitSend, TypeOK
  <2>4. \A u \in Users : UpsertedParticipant(t, u) # None
    BY <2>1, ParticipantUpserted
  <2>5. /\ \A m \in messages : participants'[m.conv][m.recipient] # None
        /\ \A c \in Convs, u \in Users :
             participants'[c][u] # None => conversations'[c] # None
    BY <2>2, <2>3, <2>4, RowsStay DEF TypeOK
  <2>6. ASSUME NEW m \in messages', m \notin messages
        PROVE  participants'[m.conv][m.recipient] # None
    <3>1. PICK r \in Range(t.to) : m = MessageRow(t, r)
      BY <1>5, <2>6 DEF CommitSend
    <3>2. r \in Users /\ m.conv = t.conv /\ m.recipient = r
      BY <2>1, <3>1, RecipientTypes, MessageTypes
    <3> QED
      BY <2>1, <2>3, <2>4, <3>2
  <2>7. transactional'
    BY <1>5 DEF CommitSend
  <2> QED
    BY <2>5, <2>6, <2>7 DEF TablesFit
<1>6. ASSUME NEW t \in tasks, RollBackSend(t) PROVE TablesFit'
  BY <1>1, <1>6 DEF RollBackSend
<1>7. ASSUME NEW t \in tasks, ExecuteConversation(t) PROVE TablesFit'
  <2>1. t \in Send /\ t.conv \in Convs
    BY <1>7, TaskTypes DEF ExecuteConversation, Send
  <2>2. /\ conversations'[t.conv] # None
        /\ \A c \in Convs : conversations[c] # None => conversations'[c] # None
        /\ participants' = participants /\ messages' = messages
    BY <1>7, <2>1, ConversationUpserted DEF ExecuteConversation
  <2>3. /\ \A m \in messages' : participants'[m.conv][m.recipient] # None
        /\ \A c \in Convs, u \in Users :
             participants'[c][u] # None => conversations'[c] # None
    BY <2>2, RowsStay DEF TypeOK
  <2>4. ASSUME NEW u \in tasks', u.op = "send"
        PROVE  /\ u.next >= 1 => conversations'[u.conv] # None
               /\ \A i \in DOMAIN u.to :
                    u.next = 2 * i => participants'[u.conv][u.to[i]] # None
    <3>1. CASE u \in tasks
      BY <1>7, <2>2, <2>4, <3>1, TasksStay DEF ExecuteConversation
    <3>2. CASE u = [t EXCEPT !.next = t.next + 1]
      <4>1. u.conv = t.conv /\ u.next = 1 /\ u.to = t.to /\ t.to \in Seq(Users)
        BY <1>7, <2>1, <3>2 DEF ExecuteConversation, Send
      <4> QED
        BY <2>2, <4>1
    <3> QED
      BY <1>7, <2>1, <2>4, <3>1, <3>2, ExecutedTypes DEF ExecuteConversation
  <2> QED
    BY <2>3, <2>4 DEF TablesFit
<1>8. ASSUME NEW t \in tasks, ExecuteParticipant(t) PROVE TablesFit'
  <2>1. t \in Send /\ t.conv \in Convs /\ t.next \in Nat
    BY <1>8, TaskTypes DEF ExecuteParticipant, Send
  <2>2. PICK i \in DOMAIN t.to :
          /\ t.next = 2 * i - 1
          /\ participants' = [participants EXCEPT ![t.conv][t.to[i]] =
                                UpsertedParticipant(t, t.to[i])]
    BY <1>8 DEF ExecuteParticipant
  <2>3. t.to[i] \in Users /\ i \in Nat /\ i >= 1
    BY <2>1 DEF Send
  <2>4. /\ conversations' = conversations /\ messages' = messages
        /\ conversations[t.conv] # None
    BY <1>8, <2>1, <2>2, <2>3 DEF ExecuteParticipant, TablesFit
  <2>5. UpsertedParticipant(t, t.to[i]) # None
    BY <2>1, <2>3, ParticipantUpserted
  <2>6. \A c \in Convs, u \in Users :
          participants'[c][u] = IF c = t.conv /\ u = t.to[i]
                                  THEN UpsertedParticipant(t, t.to[i])
                                  ELSE participants[c][u]
    BY <2>2 DEF TypeOK
  <2>7. \A c \in Convs, u \in Users :
          participants[c][u] # None => participants'[c][u] # None
    BY <2>5, <2>6
  <2>8. /\ \A m \in messages' : participants'[m.conv][m.recipient] # None
        /\ \A c \in Convs, u \in Users :
             participants'[c][u] # None => conversations'[c] # None
    BY <2>4, <2>6, <2>7, RowsStay DEF TypeOK
  <2>9. ASSUME NEW u \in tasks', u.op = "send"
        PROVE  /\ u.next >= 1 => conversations'[u.conv] # None
               /\ \A j \in DOMAIN u.to :
                    u.next = 2 * j => participants'[u.conv][u.to[j]] # None
    <3>1. CASE u \in tasks
      BY <1>8, <2>4, <2>7, <2>9, <3>1, TasksStay DEF ExecuteParticipant
    <3>2. CASE u = [t EXCEPT !.next = t.next + 1]
      <4>1. u.conv = t.conv /\ u.next = 2 * i /\ u.to = t.to /\ t.to \in Seq(Users)
        BY <2>1, <2>2, <2>3, <3>2 DEF Send
      <4>2. \A j \in DOMAIN t.to : 2 * i = 2 * j => j = i
        BY <2>3, <4>1
      <4>3. participants'[t.conv][t.to[i]] # None
        BY <2>1, <2>3, <2>5, <2>6
      <4> QED
        BY <2>4, <4>1, <4>2, <4>3
    <3> QED
      BY <1>8, <2>1, <2>9, <3>1, <3>2, ExecutedTypes DEF ExecuteParticipant
  <2> QED
    BY <2>8, <2>9 DEF TablesFit
<1>9. ASSUME NEW t \in tasks, ExecuteMessage(t) PROVE TablesFit'
  <2>1. t \in Send /\ t.conv \in Convs /\ t.next \in Nat
    BY <1>9, TaskTypes DEF ExecuteMessage, Send
  <2>2. PICK i \in DOMAIN t.to :
          /\ t.next = 2 * i
          /\ messages' = messages \cup {MessageRow(t, t.to[i])}
    BY <1>9 DEF ExecuteMessage
  <2>3. t.to[i] \in Users /\ i \in Nat /\ i >= 1
    BY <2>1 DEF Send
  <2>4. /\ conversations' = conversations /\ participants' = participants
        /\ ~transactional
    BY <1>9 DEF ExecuteMessage
  <2>5. participants[t.conv][t.to[i]] # None /\ conversations[t.conv] # None
    BY <1>9, <2>1, <2>2, <2>3, <2>4 DEF ExecuteMessage, TablesFit
  <2>6. \A m \in messages' : participants'[m.conv][m.recipient] # None
    BY <2>1, <2>2, <2>3, <2>4, <2>5, MessageTypes DEF TablesFit
  <2>7. \A c \in Convs, u \in Users :
          participants'[c][u] # None => conversations'[c] # None
    BY <2>4 DEF TablesFit
  <2>8. ASSUME NEW u \in tasks', u.op = "send"
        PROVE  /\ u.next >= 1 => conversations'[u.conv] # None
               /\ \A j \in DOMAIN u.to :
                    u.next = 2 * j => participants'[u.conv][u.to[j]] # None
    <3>1. CASE u \in tasks
      BY <2>4, <2>8, <3>1, TasksStay
    <3>2. CASE u = [t EXCEPT !.next = t.next + 1]
      <4>1. /\ u.conv = t.conv /\ u.next = 2 * i + 1 /\ u.to = t.to
            /\ t.to \in Seq(Users)
        BY <2>1, <2>2, <2>3, <3>2 DEF Send
      <4>2. \A j \in DOMAIN t.to : 2 * i + 1 # 2 * j
        BY <2>3, <4>1
      <4> QED
        BY <2>4, <2>5, <4>1, <4>2
    <3> QED
      BY <1>9, <2>1, <2>8, <3>1, <3>2, ExecutedTypes DEF ExecuteMessage
  <2> QED
    BY <2>6, <2>7, <2>8 DEF TablesFit
<1>10. ASSUME NEW t \in tasks, AbortSend(t) PROVE TablesFit'
  BY <1>1, <1>10 DEF AbortSend
<1>11. ASSUME NEW t \in tasks, AnswerSend(t) PROVE TablesFit'
  BY <1>1, <1>11 DEF AnswerSend
<1>12. ASSUME NEW t \in tasks,
              AcceptConversation(t) \/ RejectConversation(t) \/ MarkAsRead(t)
       PROVE  TablesFit'
  <2>1. /\ t.conv \in Convs /\ t.user \in Users
        /\ \/ participants' = participants
           \/ \E row \in Participant :
                /\ participants[t.conv][t.user] # None
                /\ participants' = [participants EXCEPT ![t.conv][t.user] = row]
        /\ tasks' = tasks \ {t}
        /\ conversations' = conversations /\ messages' = messages
        /\ transactional' = transactional
    BY <1>12, RowUpdated
  <2>2. \A c \in Convs, u \in Users :
          (participants[c][u] # None) <=> (participants'[c][u] # None)
    <3>1. participants \in [Convs -> [Users -> Participant \cup {None}]]
      BY DEF TypeOK
    <3>2. ASSUME NEW row \in Participant,
                 participants[t.conv][t.user] # None,
                 participants' = [participants EXCEPT ![t.conv][t.user] = row]
          PROVE  \A c \in Convs, u \in Users :
                   (participants[c][u] # None) <=> (participants'[c][u] # None)
      <4>1. row # None
        BY NoneAssumption
      <4> QED
        BY <2>1, <3>1, <3>2, <4>1
    <3> QED
      BY <2>1, <3>2
  <2>3. /\ \A m \in messages' : participants'[m.conv][m.recipient] # None
        /\ \A c \in Convs, u \in Users :
             participants'[c][u] # None => conversations'[c] # None
    BY <2>1, <2>2, RowsStay DEF TypeOK
  <2>4. ASSUME ~transactional', NEW u \in tasks', u.op = "send"
        PROVE  /\ u.next >= 1 => conversations'[u.conv] # None
               /\ \A i \in DOMAIN u.to :
                    u.next = 2 * i => participants'[u.conv][u.to[i]] # None
    BY <2>1, <2>2, <2>4, TasksStay
  <2> QED
    BY <2>3, <2>4 DEF TablesFit
<1>13. ASSUME Crash PROVE TablesFit'
  BY <1>1, <1>13 DEF Crash
<1>14. CASE UNCHANGED vars
  BY <1>1, <1>14 DEF vars
<1> QED
  BY <1>2, <1>3, <1>4, <1>5, <1>6, <1>7, <1>8, <1>9, <1>10, <1>11, <1>12, <1>13,
     <1>14 DEF Next

\* Every message stored for a user is in a conversation that the user is given,
\* on Bun too, where a send may stop between any two of its statements.
THEOREM MessagesListed == Spec => []EveryMessageListed
<1>1. Init => TablesFit
  BY DEF Init, TablesFit
<1>2. TypeOK /\ TablesFit => EveryMessageListed
  BY DEF TypeOK, TablesFit, EveryMessageListed, ListedConversations, GetMessages,
         Message
<1> QED
  BY <1>1, <1>2, TypeCorrect, TablesStep, PTL DEF Spec

-----------------------------------------------------------------------------
(* Who may lower what. *)

\* A step leaves the row of user u in conversation c, raises it, or serves a
\* request of u for c.
RaisedOrOwn(c, u) ==
    participants[c][u] # None =>
      /\ participants'[c][u] # None
      /\ \/ /\ participants'[c][u].status >= participants[c][u].status
            /\ participants'[c][u].lastRead >= participants[c][u].lastRead
         \/ \E t \in tasks \ tasks' :
              t.op # "send" /\ t.user = u /\ t.conv = c

\* Every step raises a row, or serves a request of its user.
LEMMA RowStep ==
    ASSUME TypeOK, Next, NEW c \in Convs, NEW u \in Users
    PROVE  RaisedOrOwn(c, u)
<1> USE DEF tables
<1>1. /\ participants[c][u] \in Participant \cup {None}
      /\ participants[c][u] # None =>
           /\ participants[c][u].status \in Nat
           /\ participants[c][u].lastRead \in Nat
  BY DEF TypeOK, Participant, Unaccepted, Rejected, Accepted
<1>2. ASSUME participants'[c][u] = participants[c][u] PROVE RaisedOrOwn(c, u)
  BY <1>1, <1>2 DEF RaisedOrOwn
<1>3. ASSUME NEW t \in Send, t.conv = c,
             participants'[c][u] = UpsertedParticipant(t, u)
      PROVE  RaisedOrOwn(c, u)
  BY <1>3, ParticipantUpserted DEF RaisedOrOwn
<1>4. ASSUME NEW t \in tasks, CommitSend(t) PROVE RaisedOrOwn(c, u)
  <2>1. t \in Send
    BY <1>4, TaskTypes DEF CommitSend
  <2>2. participants'[c][u] = IF c = t.conv /\ u \in Range(t.to)
                                THEN UpsertedParticipant(t, u)
                                ELSE participants[c][u]
    BY <1>4 DEF CommitSend, TypeOK
  <2> QED
    BY <1>2, <1>3, <2>1, <2>2
<1>5. ASSUME NEW t \in tasks, ExecuteParticipant(t) PROVE RaisedOrOwn(c, u)
  <2>1. t \in Send
    BY <1>5, TaskTypes DEF ExecuteParticipant
  <2>2. PICK i \in DOMAIN t.to :
          participants' = [participants EXCEPT ![t.conv][t.to[i]] =
                             UpsertedParticipant(t, t.to[i])]
    BY <1>5 DEF ExecuteParticipant
  <2>3. participants'[c][u] = IF c = t.conv /\ u = t.to[i]
                                THEN UpsertedParticipant(t, u)
                                ELSE participants[c][u]
    BY <2>2 DEF TypeOK
  <2> QED
    BY <1>2, <1>3, <2>1, <2>3
<1>6. ASSUME NEW t \in tasks,
             AcceptConversation(t) \/ RejectConversation(t) \/ MarkAsRead(t)
      PROVE  RaisedOrOwn(c, u)
  <2>1. /\ t.op # "send" /\ tasks' = tasks \ {t}
        /\ \/ participants' = participants
           \/ \E row \in Participant :
                participants' = [participants EXCEPT ![t.conv][t.user] = row]
    BY <1>6, RowUpdated
  <2>2. CASE participants' = participants
    BY <1>2, <2>2
  <2>3. ASSUME NEW row \in Participant,
               participants' = [participants EXCEPT ![t.conv][t.user] = row]
        PROVE  RaisedOrOwn(c, u)
    <3>1. CASE c = t.conv /\ u = t.user
      <4>1. participants'[c][u] = row
        BY <2>3, <3>1 DEF TypeOK
      <4>2. row # None
        BY NoneAssumption
      <4>3. t \in tasks \ tasks'
        BY <2>1
      <4> QED
        BY <2>1, <3>1, <4>1, <4>2, <4>3 DEF RaisedOrOwn
    <3>2. CASE ~(c = t.conv /\ u = t.user)
      <4>1. participants'[c][u] = participants[c][u]
        BY <2>3, <3>2 DEF TypeOK
      <4> QED
        BY <1>2, <4>1
    <3> QED
      BY <3>1, <3>2
  <2> QED
    BY <2>1, <2>2, <2>3
<1>7. ASSUME UNCHANGED participants PROVE RaisedOrOwn(c, u)
  BY <1>2, <1>7
<1>8. CASE Tick
  BY <1>7, <1>8 DEF Tick
<1>9. CASE \E a \in Addressing, random \in Randoms, lastRead \in 0..now :
             RequestSend(a, random, lastRead)
  BY <1>7, <1>9 DEF RequestSend
<1>10. CASE \E op \in {"accept", "reject", "read"}, v \in Users, d \in Convs,
               lastRead \in 0..now : RequestUpdate(op, v, d, lastRead)
  BY <1>7, <1>10 DEF RequestUpdate
<1>11. ASSUME NEW t \in tasks,
              \/ RollBackSend(t) \/ ExecuteConversation(t) \/ ExecuteMessage(t)
              \/ AbortSend(t) \/ AnswerSend(t)
       PROVE  RaisedOrOwn(c, u)
  BY <1>7, <1>11
  DEF RollBackSend, ExecuteConversation, ExecuteMessage, AbortSend, AnswerSend
<1>12. CASE Crash
  BY <1>7, <1>12 DEF Crash
<1> QED
  BY <1>4, <1>5, <1>6, <1>8, <1>9, <1>10, <1>11, <1>12 DEF Next

\* Nobody but the user takes back what the user has accepted or read.
THEOREM OthersCannotLower == Spec => OnlyOwnRequestsLower
<1>1. TypeOK /\ [Next]_vars =>
        [\A c \in Convs, u \in Users :
           participants[c][u] # None =>
             /\ participants'[c][u] # None
             /\ \/ /\ participants'[c][u].status >= participants[c][u].status
                   /\ participants'[c][u].lastRead >= participants[c][u].lastRead
                \/ \E t \in tasks \ tasks' :
                     t.op # "send" /\ t.user = u /\ t.conv = c]_participants
  <2>1. CASE UNCHANGED vars
    BY <2>1 DEF vars
  <2>2. ASSUME TypeOK, Next
        PROVE  \A c \in Convs, u \in Users : RaisedOrOwn(c, u)
    BY <2>2, RowStep
  <2> QED
    BY <2>1, <2>2 DEF RaisedOrOwn
<1> QED
  BY <1>1, TypeCorrect, PTL DEF Spec, OnlyOwnRequestsLower

-----------------------------------------------------------------------------
(* All or nothing. *)

Stored(t, r) == MessageRow(t, r) \in messages

\* The sends have numbers of their own; each message is a row of one of them;
\* on Bun a send has stored what its counter says; an answered send is stored;
\* and a transaction stores a send as a whole.
SendsFit ==
    /\ \A t \in received : t.request < requests
    /\ \A t, u \in received : t.request = u.request => t = u
    /\ \A n \in answered : n < requests
    /\ \A t \in tasks : t.op = "send" => [t EXCEPT !.next = 0] \in received
    /\ \A m \in messages : \E t \in received :
         m.recipient \in Range(t.to) /\ m = MessageRow(t, m.recipient)
    /\ ~transactional =>
         \A t \in tasks : t.op = "send" =>
           \A i \in DOMAIN t.to : 2 * i < t.next => Stored(t, t.to[i])
    /\ \A t \in received :
         t.request \in answered => \A r \in Range(t.to) : Stored(t, r)
    /\ transactional =>
         \A t \in received : \/ \A r \in Range(t.to) : Stored(t, r)
                             \/ \A r \in Range(t.to) : ~Stored(t, r)

\* The recipients that can read a send are those it was stored for.
LEMMA HoldersAreStored ==
    ASSUME TypeOK, SendsFit, NEW t \in received
    PROVE  Holders(t) = {r \in Range(t.to) : Stored(t, r)}
<1>1. t \in Send /\ Range(t.to) \subseteq Users
  BY RecipientTypes DEF TypeOK
<1>2. ASSUME NEW u \in Holders(t) PROVE u \in Range(t.to) /\ Stored(t, u)
  <2>1. PICK m \in messages : m.conv = t.conv /\ m.recipient = u /\ m.content = t.request
    BY <1>2 DEF Holders, GetMessages
  <2>2. PICK s \in received : u \in Range(s.to) /\ m = MessageRow(s, u)
    BY <2>1 DEF SendsFit
  <2>3. m.content = s.request
    BY <2>2 DEF MessageRow
  <2>4. s = t
    BY <2>1, <2>3 DEF SendsFit
  <2> QED
    BY <2>1, <2>2, <2>4 DEF Stored
<1>3. ASSUME NEW r \in Range(t.to), Stored(t, r) PROVE r \in Holders(t)
  <2>1. MessageRow(t, r) \in messages
    BY <1>3 DEF Stored
  <2>2. /\ MessageRow(t, r).conv = t.conv /\ MessageRow(t, r).recipient = r
        /\ MessageRow(t, r).content = t.request
    BY DEF MessageRow
  <2> QED
    BY <1>1, <2>1, <2>2 DEF Holders, GetMessages
<1> QED
  BY <1>2, <1>3

\* The invariant says what the property says.
LEMMA SendsFitSuffices ==
    ASSUME TypeOK, SendsFit
    PROVE  SendIsAllOrNothing
<1> SUFFICES ASSUME NEW t \in received
             PROVE  /\ transactional => Holders(t) \in {{}, Range(t.to)}
                    /\ t.request \in answered => Holders(t) = Range(t.to)
                    /\ \A m, n \in messages :
                         /\ m.content = t.request /\ n.content = t.request
                         /\ m.recipient = n.recipient
                         => m = n
  BY DEF SendIsAllOrNothing
<1>1. Holders(t) = {r \in Range(t.to) : Stored(t, r)}
  BY HoldersAreStored
<1>2. ASSUME transactional PROVE Holders(t) \in {{}, Range(t.to)}
  BY <1>1, <1>2 DEF SendsFit
<1>3. ASSUME t.request \in answered PROVE Holders(t) = Range(t.to)
  BY <1>1, <1>3 DEF SendsFit
<1>4. ASSUME NEW m \in messages, m.content = t.request
      PROVE  m = MessageRow(t, m.recipient)
  <2>1. PICK s \in received : m = MessageRow(s, m.recipient)
    BY DEF SendsFit
  <2>2. m.content = s.request
    BY <2>1 DEF MessageRow
  <2> QED
    BY <1>4, <2>1, <2>2 DEF SendsFit
<1> QED
  BY <1>2, <1>3, <1>4

\* A row does not depend on how far its send has got.
LEMMA RowIgnoresCounter ==
    ASSUME NEW t \in Send, NEW n \in Nat, NEW r
    PROVE  /\ MessageRow([t EXCEPT !.next = n], r) = MessageRow(t, r)
           /\ [t EXCEPT !.next = n] \in Send
           /\ [[t EXCEPT !.next = n] EXCEPT !.next = 0] = [t EXCEPT !.next = 0]
           /\ [t EXCEPT !.next = n].to = t.to
           /\ [t EXCEPT !.next = n].op = "send"
           /\ [t EXCEPT !.next = n].next = n
           /\ [t EXCEPT !.next = n].request = t.request
BY DEF MessageRow, Send

\* Steps that store nothing and answer nothing: it is enough that the tasks
\* which are sends were there, or have moved on without skipping a message.
LEMMA NothingStored ==
    ASSUME TypeOK, SendsFit,
           UNCHANGED <<transactional, messages, received, answered>>,
           requests' = requests \/ requests' = requests + 1,
           \A t \in tasks' : t.op = "send" =>
             \/ t \in tasks
             \/ \E u \in tasks :
                  /\ u.op = "send"
                  /\ t = [u EXCEPT !.next = u.next + 1]
                  /\ \A i \in DOMAIN u.to : 2 * i < u.next + 1 => 2 * i < u.next
    PROVE  SendsFit'
<1>1. /\ \A t \in received' : t.request < requests'
      /\ \A n \in answered' : n < requests'
  BY DEF SendsFit, TypeOK, Send
<1>2. ASSUME NEW t \in tasks', t.op = "send"
      PROVE  /\ [t EXCEPT !.next = 0] \in received'
             /\ ~transactional' =>
                  \A i \in DOMAIN t.to : 2 * i < t.next => Stored(t, t.to[i])'
  <2>1. CASE t \in tasks
    BY <1>2, <2>1 DEF SendsFit, Stored, MessageRow
  <2>2. ASSUME NEW u \in tasks, u.op = "send", t = [u EXCEPT !.next = u.next + 1],
               \A i \in DOMAIN u.to : 2 * i < u.next + 1 => 2 * i < u.next
        PROVE  /\ [t EXCEPT !.next = 0] \in received'
               /\ ~transactional' =>
                    \A i \in DOMAIN t.to : 2 * i < t.next => Stored(t, t.to[i])'
    <3>1. u \in Send /\ u.next + 1 \in Nat
      BY <2>2, TaskTypes DEF Send
    <3>2. /\ [t EXCEPT !.next = 0] = [u EXCEPT !.next = 0]
          /\ t.to = u.to /\ t.next = u.next + 1
          /\ \A r : MessageRow(t, r) = MessageRow(u, r)
      <4>1. PICK n \in Nat : n = u.next + 1
        BY <3>1
      <4>2. t = [u EXCEPT !.next = n]
        BY <2>2, <4>1
      <4>3. /\ [[u EXCEPT !.next = n] EXCEPT !.next = 0] = [u EXCEPT !.next = 0]
            /\ [u EXCEPT !.next = n].to = u.to /\ [u EXCEPT !.next = n].next = n
        BY <3>1, RowIgnoresCounter
      <4>4. \A r : MessageRow(t, r) = MessageRow(u, r)
        BY <3>1, <4>2 DEF MessageRow, Send
      <4> QED
        BY <4>1, <4>2, <4>3, <4>4
    <3>3. [u EXCEPT !.next = 0] \in received'
      BY <2>2 DEF SendsFit
    <3>4. ASSUME ~transactional, NEW i \in DOMAIN u.to, 2 * i < u.next + 1
          PROVE  MessageRow(u, u.to[i]) \in messages
      BY <2>2, <3>4 DEF SendsFit, Stored
    <3> QED
      BY <3>2, <3>3, <3>4 DEF Stored
  <2> QED
    BY <1>2, <2>1, <2>2
<1>3. \A t, r : Stored(t, r)' <=> Stored(t, r)
  BY DEF Stored, MessageRow
<1> QED
  BY <1>1, <1>2, <1>3 DEF SendsFit, MessageRow

\* A send that is stamped has a number above all others, and nothing stored.
LEMMA SendStamped ==
    ASSUME TypeOK, SendsFit, NEW a \in Addressing, NEW random \in Randoms,
           NEW lastRead \in 0..now, RequestSend(a, random, lastRead)
    PROVE  SendsFit'
<1> DEFINE t == [op |-> "send", request |-> requests, user |-> a.from,
                 conv |-> a.conv, to |-> a.to, timestamp |-> now,
                 messageID |-> now * 1000 + random, lastRead |-> lastRead,
                 next |-> 0]
<1>1. /\ t.op = "send" /\ t.request = requests /\ t.next = 0
      /\ [t EXCEPT !.next = 0] = t
      /\ \A i \in DOMAIN t.to : i \in Nat /\ i >= 1
  BY AddressingAssumption
<1>2. /\ tasks' = tasks \cup {t} /\ received' = received \cup {t}
      /\ requests' = requests + 1 /\ requests \in Nat
      /\ UNCHANGED <<transactional, messages, answered>>
  BY NumbersAssumption DEF RequestSend, Request, tables, TypeOK
<1> HIDE DEF t
<1>3. \A u \in received : u.request < requests /\ u.request \in Nat
  BY DEF SendsFit, TypeOK, Send
<1>4. \A n \in answered : n < requests /\ n \in Nat
  BY DEF SendsFit, TypeOK
<1>5. \A u, r : Stored(u, r)' <=> Stored(u, r)
  BY <1>2 DEF Stored, MessageRow
<1>6. \A r : ~Stored(t, r)
  <2> SUFFICES ASSUME NEW r, Stored(t, r) PROVE FALSE
    OBVIOUS
  <2>1. MessageRow(t, r) \in messages /\ MessageRow(t, r).content = requests
    BY <1>1 DEF Stored, MessageRow
  <2>2. PICK s \in received :
          MessageRow(t, r) = MessageRow(s, MessageRow(t, r).recipient)
    BY <2>1 DEF SendsFit
  <2>3. MessageRow(s, MessageRow(t, r).recipient).content = s.request
    BY DEF MessageRow
  <2> QED
    BY <1>2, <1>3, <2>1, <2>2, <2>3
<1>7. /\ \A u \in received' : u.request < requests'
      /\ \A u, v \in received' : u.request = v.request => u = v
      /\ \A n \in answered' : n < requests'
  BY <1>1, <1>2, <1>3, <1>4 DEF SendsFit
<1>8. \A u \in tasks' : u.op = "send" => [u EXCEPT !.next = 0] \in received'
  BY <1>1, <1>2 DEF SendsFit
<1>9. \A m \in messages' : \E u \in received' :
        m.recipient \in Range(u.to) /\ m = MessageRow(u, m.recipient)
  BY <1>2 DEF SendsFit
<1>10. ~transactional' =>
         \A u \in tasks' : u.op = "send" =>
           \A i \in DOMAIN u.to : 2 * i < u.next => Stored(u, u.to[i])'
  BY <1>1, <1>2, <1>5 DEF SendsFit
<1>11. \A u \in received' :
         u.request \in answered' => \A r \in Range(u.to) : Stored(u, r)'
  BY <1>1, <1>2, <1>4, <1>5 DEF SendsFit
<1>12. transactional' =>
         \A u \in received' : \/ \A r \in Range(u.to) : Stored(u, r)'
                              \/ \A r \in Range(u.to) : ~Stored(u, r)'
  BY <1>2, <1>5, <1>6 DEF SendsFit
<1> QED
  BY <1>5, <1>7, <1>8, <1>9, <1>10, <1>11, <1>12 DEF SendsFit, MessageRow

\* A step that stores rows of one send changes what is stored of that one alone.
LEMMA OneSendStored ==
    ASSUME TypeOK, SendsFit, NEW t \in tasks, t.op = "send",
           NEW R \in SUBSET Range(t.to),
           messages' = messages \cup {MessageRow(t, r) : r \in R}
    PROVE  /\ \A u \in received : \A r :
                u.request # t.request => (Stored(u, r)' <=> Stored(u, r))
           /\ \A u \in received :
                u.request = t.request =>
                  /\ u = [t EXCEPT !.next = 0] /\ u.to = t.to
                  /\ \A r : MessageRow(u, r) = MessageRow(t, r)
           /\ \A m \in messages' : \E u \in received :
                m.recipient \in Range(u.to) /\ m = MessageRow(u, m.recipient)
<1> DEFINE first == [t EXCEPT !.next = 0]
<1>1. t \in Send
  BY TaskTypes
<1>2. /\ first \in received /\ first.request = t.request /\ first.to = t.to
      /\ \A r : MessageRow(first, r) = MessageRow(t, r)
  BY <1>1 DEF SendsFit, Send, MessageRow
<1> HIDE DEF first
<1>3. ASSUME NEW u \in received, NEW r, u.request # t.request
      PROVE  Stored(u, r)' <=> Stored(u, r)
  <2>1. MessageRow(u, r).content = u.request
    BY DEF MessageRow
  <2>2. \A q : MessageRow(t, q).content = t.request
    BY DEF MessageRow
  <2>3. MessageRow(u, r) \notin {MessageRow(t, q) : q \in R}
    BY <1>3, <2>1, <2>2
  <2> QED
    BY <2>3 DEF Stored, MessageRow
<1>4. ASSUME NEW u \in received, u.request = t.request PROVE u = first
  BY <1>2, <1>4 DEF SendsFit
<1>5. ASSUME NEW m \in messages'
      PROVE  \E u \in received :
               m.recipient \in Range(u.to) /\ m = MessageRow(u, m.recipient)
  <2>1. CASE m \in messages
    BY <2>1 DEF SendsFit
  <2>2. ASSUME NEW r \in R, m = MessageRow(t, r)
        PROVE  m.recipient \in Range(first.to) /\ m = MessageRow(first, m.recipient)
    <3>1. m.recipient = r
      BY <2>2 DEF MessageRow
    <3> QED
      BY <1>2, <2>2, <3>1
  <2> QED
    BY <1>2, <1>5, <2>1, <2>2
<1> QED
  BY <1>2, <1>3, <1>4, <1>5 DEF first

\* A transaction stores its send for all recipients, and nothing else.
LEMMA SendCommitted ==
    ASSUME TypeOK, SendsFit, NEW t \in tasks, CommitSend(t)
    PROVE  SendsFit'
<1>1. /\ t.op = "send" /\ transactional /\ transactional'
      /\ messages' = messages \cup {MessageRow(t, r) : r \in Range(t.to)}
      /\ tasks' = tasks \ {t} /\ answered' = answered \cup {t.request}
      /\ received' = received /\ requests' = requests
  BY DEF CommitSend
<1>2. /\ \A u \in received : \A r :
           u.request # t.request => (Stored(u, r)' <=> Stored(u, r))
      /\ \A u \in received :
           u.request = t.request =>
             /\ u = [t EXCEPT !.next = 0] /\ u.to = t.to
             /\ \A r : MessageRow(u, r) = MessageRow(t, r)
      /\ \A m \in messages' : \E u \in received :
           m.recipient \in Range(u.to) /\ m = MessageRow(u, m.recipient)
  BY <1>1, OneSendStored
<1>3. \A u \in received :
        u.request = t.request => \A r \in Range(u.to) : Stored(u, r)'
  BY <1>1, <1>2 DEF Stored, MessageRow
<1>4. /\ \A u \in received' : u.request < requests'
      /\ \A u, v \in received' : u.request = v.request => u = v
      /\ \A u \in tasks' : u.op = "send" => [u EXCEPT !.next = 0] \in received'
  BY <1>1 DEF SendsFit
<1>5. \A n \in answered' : n < requests'
  <2>1. [t EXCEPT !.next = 0] \in received
    BY <1>1 DEF SendsFit
  <2>2. [t EXCEPT !.next = 0].request = t.request
    BY <1>1, TaskTypes DEF Send
  <2>3. t.request < requests
    BY <2>1, <2>2 DEF SendsFit
  <2>4. \A n \in answered : n < requests
    BY DEF SendsFit
  <2> QED
    BY <1>1, <2>3, <2>4
<1>6. \A u \in received' :
        u.request \in answered' => \A r \in Range(u.to) : Stored(u, r)'
  BY <1>1, <1>2, <1>3 DEF SendsFit
<1>7. \A u \in received' : \/ \A r \in Range(u.to) : Stored(u, r)'
                           \/ \A r \in Range(u.to) : ~Stored(u, r)'
  BY <1>1, <1>2, <1>3 DEF SendsFit
<1> QED
  BY <1>1, <1>2, <1>4, <1>5, <1>6, <1>7 DEF SendsFit, MessageRow

\* On Bun a message is stored for the recipient whose turn it is.
LEMMA SendExecuted ==
    ASSUME TypeOK, SendsFit, NEW t \in tasks, ExecuteMessage(t)
    PROVE  SendsFit'
<1>1. PICK i \in DOMAIN t.to :
        t.next = 2 * i /\ messages' = messages \cup {MessageRow(t, t.to[i])}
  BY DEF ExecuteMessage
<1>2. /\ t.op = "send" /\ ~transactional /\ ~transactional'
      /\ tasks' = Executed(t) /\ answered' = answered
      /\ received' = received /\ requests' = requests
  BY DEF ExecuteMessage
<1>3. /\ t \in Send /\ i \in Nat /\ t.next \in Nat /\ t.to[i] \in Range(t.to)
      /\ DOMAIN t.to \subseteq Nat
  BY <1>2, TaskTypes DEF Send, Range
<1>4. messages' = messages \cup {MessageRow(t, r) : r \in {t.to[i]}}
  BY <1>1
<1>5. /\ \A u \in received : \A r :
           u.request # t.request => (Stored(u, r)' <=> Stored(u, r))
      /\ \A u \in received :
           u.request = t.request =>
             /\ u = [t EXCEPT !.next = 0] /\ u.to = t.to
             /\ \A r : MessageRow(u, r) = MessageRow(t, r)
      /\ \A m \in messages' : \E u \in received :
           m.recipient \in Range(u.to) /\ m = MessageRow(u, m.recipient)
  <2>1. {t.to[i]} \in SUBSET Range(t.to)
    BY <1>3
  <2> QED
    BY <1>2, <1>4, <2>1, OneSendStored
<1>6. \A u, r : Stored(u, r) => Stored(u, r)'
  BY <1>4 DEF Stored, MessageRow
<1>7. /\ \A u \in received' : u.request < requests'
      /\ \A u, v \in received' : u.request = v.request => u = v
      /\ \A n \in answered' : n < requests'
      /\ \A u \in received' :
           u.request \in answered' => \A r \in Range(u.to) : Stored(u, r)'
  BY <1>2, <1>6 DEF SendsFit
<1>8. ASSUME NEW u \in tasks', u.op = "send"
      PROVE  /\ [u EXCEPT !.next = 0] \in received'
             /\ \A j \in DOMAIN u.to : 2 * j < u.next => Stored(u, u.to[j])'
  <2>1. CASE u \in tasks
    BY <1>2, <1>6, <1>8, <2>1 DEF SendsFit
  <2>2. CASE u = [t EXCEPT !.next = t.next + 1]
    <3>1. /\ [u EXCEPT !.next = 0] = [t EXCEPT !.next = 0]
          /\ u.to = t.to /\ u.next = t.next + 1
      BY <1>3, <2>2 DEF Send
    <3>2. \A r : MessageRow(u, r) = MessageRow(t, r)
      BY <1>3, <2>2 DEF MessageRow, Send
    <3>3. [t EXCEPT !.next = 0] \in received'
      BY <1>2 DEF SendsFit
    <3>4. ASSUME NEW j \in DOMAIN t.to, 2 * j < t.next + 1
          PROVE  MessageRow(t, t.to[j]) \in messages'
      <4>1. CASE j = i
        BY <1>1, <4>1
      <4>2. CASE j # i
        <5>1. 2 * j < t.next
          BY <1>1, <1>3, <3>4, <4>2
        <5> QED
          BY <1>1, <1>2, <5>1 DEF SendsFit, Stored
      <4> QED
        BY <4>1, <4>2
    <3>5. \A j \in DOMAIN u.to : 2 * j < u.next => MessageRow(u, u.to[j]) \in messages'
      BY <3>1, <3>2, <3>4
    <3> QED
      BY <3>1, <3>3, <3>5 DEF Stored, MessageRow
  <2> QED
    BY <1>2, <1>3, <1>8, <2>1, <2>2, ExecutedTypes
<1> QED
  BY <1>2, <1>5, <1>7, <1>8 DEF SendsFit, MessageRow

\* On Bun a send is answered when all its messages are stored.
LEMMA SendAnswered ==
    ASSUME TypeOK, SendsFit, NEW t \in tasks, AnswerSend(t)
    PROVE  SendsFit'
<1>1. /\ t.op = "send" /\ ~transactional /\ ~transactional'
      /\ t.next = 2 * Len(t.to) + 1
      /\ tasks' = tasks \ {t} /\ answered' = answered \cup {t.request}
      /\ received' = received /\ requests' = requests /\ messages' = messages
  BY DEF AnswerSend, tables
<1>2. t \in Send /\ t.to \in Seq(Users) /\ Len(t.to) \in Nat
  BY <1>1, TaskTypes DEF Send
<1>3. \A u, r : Stored(u, r)' <=> Stored(u, r)
  BY <1>1 DEF Stored, MessageRow
<1>4. \A r \in Range(t.to) : Stored(t, r)
  <2>1. \A i \in DOMAIN t.to : 2 * i < t.next
    BY <1>1, <1>2
  <2> QED
    BY <1>1, <2>1 DEF SendsFit, Range
<1>5. /\ [t EXCEPT !.next = 0] \in received
      /\ [t EXCEPT !.next = 0].request = t.request
      /\ [t EXCEPT !.next = 0].to = t.to
      /\ \A r : MessageRow([t EXCEPT !.next = 0], r) = MessageRow(t, r)
  BY <1>1, <1>2 DEF SendsFit, Send, MessageRow
<1>6. \A u \in received :
        u.request \in answered' => \A r \in Range(u.to) : Stored(u, r)
  BY <1>1, <1>4, <1>5 DEF SendsFit, Stored
<1>7. \A n \in answered' : n < requests'
  <2>1. t.request < requests
    BY <1>5 DEF SendsFit
  <2>2. \A n \in answered : n < requests
    BY DEF SendsFit
  <2> QED
    BY <1>1, <2>1, <2>2
<1> QED
  BY <1>1, <1>3, <1>6, <1>7 DEF SendsFit, MessageRow

\* Every step keeps the sends whole.
LEMMA SendsStep == TypeOK /\ SendsFit /\ [Next]_vars => SendsFit'
<1> SUFFICES ASSUME TypeOK, SendsFit, [Next]_vars PROVE SendsFit'
  OBVIOUS
<1> USE DEF tables
<1>1. ASSUME UNCHANGED <<transactional, messages, received, answered>>,
             requests' = requests \/ requests' = requests + 1,
             \A t \in tasks' : t \in tasks \/ t.op # "send"
      PROVE  SendsFit'
  BY <1>1, NothingStored
<1>2. ASSUME Tick PROVE SendsFit'
  BY <1>1, <1>2 DEF Tick
<1>3. ASSUME NEW a \in Addressing, NEW random \in Randoms, NEW lastRead \in 0..now,
             RequestSend(a, random, lastRead)
      PROVE  SendsFit'
  BY <1>3, SendStamped
<1>4. ASSUME NEW op \in {"accept", "reject", "read"}, NEW u \in Users,
             NEW c \in Convs, NEW lastRead \in 0..now,
             RequestUpdate(op, u, c, lastRead)
      PROVE  SendsFit'
  BY <1>1, <1>4 DEF RequestUpdate, Request
<1>5. ASSUME NEW t \in tasks, CommitSend(t) PROVE SendsFit'
  BY <1>5, SendCommitted
<1>6. ASSUME NEW t \in tasks, RollBackSend(t) PROVE SendsFit'
  BY <1>1, <1>6 DEF RollBackSend
<1>7. ASSUME NEW t \in tasks, t.op = "send", tasks' = Executed(t),
             \A i \in DOMAIN t.to : t.next # 2 * i,
             UNCHANGED <<transactional, messages, received, answered, requests>>
      PROVE  SendsFit'
  <2>1. /\ t \in Send /\ t.next \in Nat
        /\ \A i \in DOMAIN t.to : i \in Nat
    BY <1>7, TaskTypes DEF Send
  <2>2. \A i \in DOMAIN t.to : 2 * i < t.next + 1 => 2 * i < t.next
    BY <1>7, <2>1
  <2>3. \A u \in tasks' : u \in tasks \/ u = [t EXCEPT !.next = t.next + 1]
    BY <1>7, <2>1, ExecutedTypes
  <2> QED
    BY <1>7, <2>2, <2>3, NothingStored
<1>8. ASSUME NEW t \in tasks, ExecuteConversation(t) PROVE SendsFit'
  <2>1. \A i \in DOMAIN t.to : t.next # 2 * i
    BY <1>8, TaskTypes DEF ExecuteConversation, Send
  <2> QED
    BY <1>7, <1>8, <2>1 DEF ExecuteConversation
<1>9. ASSUME NEW t \in tasks, ExecuteParticipant(t) PROVE SendsFit'
  <2>1. PICK j \in DOMAIN t.to : t.next = 2 * j - 1
    BY <1>9 DEF ExecuteParticipant
  <2>2. \A i \in DOMAIN t.to : i \in Nat
    BY <1>9, TaskTypes DEF ExecuteParticipant, Send
  <2>3. \A i \in DOMAIN t.to : t.next # 2 * i
    BY <2>1, <2>2
  <2> QED
    BY <1>7, <1>9, <2>3 DEF ExecuteParticipant
<1>10. ASSUME NEW t \in tasks, ExecuteMessage(t) PROVE SendsFit'
  BY <1>10, SendExecuted
<1>11. ASSUME NEW t \in tasks, AbortSend(t) PROVE SendsFit'
  BY <1>1, <1>11 DEF AbortSend
<1>12. ASSUME NEW t \in tasks, AnswerSend(t) PROVE SendsFit'
  BY <1>12, SendAnswered
<1>13. ASSUME NEW t \in tasks,
              AcceptConversation(t) \/ RejectConversation(t) \/ MarkAsRead(t)
       PROVE  SendsFit'
  BY <1>1, <1>13 DEF AcceptConversation, RejectConversation, MarkAsRead, UpdateRow
<1>14. ASSUME Crash PROVE SendsFit'
  BY <1>1, <1>14 DEF Crash
<1>15. CASE UNCHANGED vars
  BY <1>1, <1>15 DEF vars
<1> QED
  BY <1>2, <1>3, <1>4, <1>5, <1>6, <1>8, <1>9, <1>10, <1>11, <1>12, <1>13, <1>14,
     <1>15 DEF Next

\* A send is stored for all its recipients or, where a batch is a transaction,
\* for none; one that was answered is stored for all, on Bun too.
THEOREM SendsAreWhole == Spec => []SendIsAllOrNothing
<1>1. Init => SendsFit
  BY DEF Init, SendsFit
<1>2. TypeOK /\ SendsFit => SendIsAllOrNothing
  BY SendsFitSuffices
<1> QED
  BY <1>1, <1>2, TypeCorrect, SendsStep, PTL DEF Spec

-----------------------------------------------------------------------------
(* The dates of a conversation. *)

\* A message stored in conversation c at time d.
DatedBy(c, d) == \E m \in messages : m.conv = c /\ m.timestamp = d

\* DatesAreOfMessages, date by date.
RowsDated ==
    \A c \in Convs : conversations[c] # None =>
      /\ DatedBy(c, conversations[c].creationDate)
      /\ DatedBy(c, conversations[c].lastMessage)

\* The sends that the property is about: on a database whose batches are
\* transactions, where no send so far named nobody.
AllAddressed == transactional /\ \A t \in received : t.to # <<>>

\* Date by date is what the property says.
LEMMA RowsDatedSuffices == (AllAddressed => RowsDated) <=> DatesAreOfMessages
<1>1. \A c, d : DatedBy(c, d) <=> d \in {m.timestamp : m \in {n \in messages : n.conv = c}}
  BY DEF DatedBy
<1> QED
  BY <1>1 DEF RowsDated, AllAddressed, DatesAreOfMessages

\* Where the conversations stay and no message is removed, the dates stay right.
LEMMA DatesStay ==
    ASSUME RowsDated, conversations' = conversations, messages \subseteq messages'
    PROVE  RowsDated'
BY DEF RowsDated, DatedBy

\* A transaction dates its conversation by a message that it stores itself: it
\* names somebody.
LEMMA DatesCommitted ==
    ASSUME TypeOK, SendsFit, AllAddressed, RowsDated,
           NEW t \in tasks, CommitSend(t)
    PROVE  RowsDated'
<1>1. /\ t.op = "send" /\ conversations' = UpsertConversation(t)
      /\ messages' = messages \cup {MessageRow(t, r) : r \in Range(t.to)}
  BY DEF CommitSend
<1>2. /\ t \in Send /\ t.conv \in Convs /\ t.timestamp \in Nat /\ t.to \in Seq(Users)
  BY <1>1, TaskTypes DEF Send
<1>3. t.to # <<>>
  <2>1. [t EXCEPT !.next = 0] \in received /\ [t EXCEPT !.next = 0].to = t.to
    BY <1>1, <1>2 DEF SendsFit, Send
  <2> QED
    BY <2>1 DEF AllAddressed
<1>4. PICK r : r \in Range(t.to)
  <2>1. 1 \in DOMAIN t.to
    BY <1>2, <1>3
  <2> QED
    BY <2>1 DEF Range
<1>5. /\ MessageRow(t, r) \in messages'
      /\ MessageRow(t, r).conv = t.conv
      /\ MessageRow(t, r).timestamp = t.timestamp
  BY <1>1, <1>4 DEF MessageRow
<1>6. \E m \in messages' : m.conv = t.conv /\ m.timestamp = t.timestamp
  BY <1>5
<1>7. \A c, d : DatedBy(c, d) => \E m \in messages' : m.conv = c /\ m.timestamp = d
  BY <1>1 DEF DatedBy
<1>8. ASSUME NEW c \in Convs, conversations'[c] # None
      PROVE  /\ \E m \in messages' :
                  m.conv = c /\ m.timestamp = conversations'[c].creationDate
             /\ \E m \in messages' :
                  m.conv = c /\ m.timestamp = conversations'[c].lastMessage
  <2> DEFINE new   == [creationDate |-> t.timestamp, members |-> t.to,
                       lastMessage |-> t.timestamp]
             older == [conversations[c] EXCEPT !.lastMessage = t.timestamp]
  <2>1. conversations \in [Convs -> Conversation \cup {None}]
    BY DEF TypeOK
  <2>2. CASE c # t.conv
    <3>1. conversations'[c] = conversations[c]
      BY <1>1, <1>2, <2>1, <2>2 DEF UpsertConversation
    <3> QED
      BY <1>7, <1>8, <3>1 DEF RowsDated
  <2>3. CASE c = t.conv /\ conversations[c] = None
    <3>1. conversations'[c] = new
      BY <1>1, <1>2, <2>1, <2>3 DEF UpsertConversation
    <3>2. new.creationDate = t.timestamp /\ new.lastMessage = t.timestamp
      OBVIOUS
    <3> HIDE DEF new
    <3> QED
      BY <1>6, <2>3, <3>1, <3>2
  <2>4. CASE c = t.conv /\ conversations[c] # None
    <3>1. conversations'[c] = older
      BY <1>1, <1>2, <2>1, <2>4 DEF UpsertConversation
    <3>2. /\ older.creationDate = conversations[c].creationDate
          /\ older.lastMessage = t.timestamp
      BY <2>1, <2>4 DEF Conversation
    <3> HIDE DEF older
    <3>3. DatedBy(c, conversations[c].creationDate)
      BY <2>4 DEF RowsDated
    <3> QED
      BY <1>6, <1>7, <2>4, <3>1, <3>2, <3>3
  <2> QED
    BY <2>2, <2>3, <2>4
<1> QED
  BY <1>8 DEF RowsDated, DatedBy

\* Every step keeps the dates right, as long as every send names somebody.
LEMMA DatesStep ==
    TypeOK /\ SendsFit /\ (AllAddressed => RowsDated) /\ [Next]_vars
      => (AllAddressed' => RowsDated')
<1> SUFFICES ASSUME TypeOK, SendsFit, AllAddressed => RowsDated, [Next]_vars,
                    AllAddressed'
             PROVE  RowsDated'
  OBVIOUS
<1> USE DEF tables
<1>1. transactional' = transactional /\ received \subseteq received'
  <2> DEFINE Grown == transactional' = transactional /\ received \subseteq received'
  <2>1. ASSUME UNCHANGED <<transactional, received>> PROVE Grown
    BY <2>1
  <2>2. ASSUME Tick \/ Crash \/ UNCHANGED vars PROVE Grown
    BY <2>2 DEF Tick, Crash, vars
  <2>3. ASSUME NEW a \in Addressing, NEW random \in Randoms,
               NEW lastRead \in 0..now, RequestSend(a, random, lastRead)
        PROVE  Grown
    BY <2>3 DEF RequestSend
  <2>4. ASSUME NEW op \in {"accept", "reject", "read"}, NEW u \in Users,
               NEW c \in Convs, NEW lastRead \in 0..now,
               RequestUpdate(op, u, c, lastRead)
        PROVE  Grown
    BY <2>4 DEF RequestUpdate
  <2> HIDE DEF Grown
  <2>5. ASSUME NEW t \in tasks,
               CommitSend(t) \/ RollBackSend(t) \/ ExecuteConversation(t)
                 \/ ExecuteParticipant(t) \/ ExecuteMessage(t)
        PROVE  Grown
    BY <2>1, <2>5
    DEF CommitSend, RollBackSend, ExecuteConversation, ExecuteParticipant,
        ExecuteMessage
  <2>6. ASSUME NEW t \in tasks, AbortSend(t) \/ AnswerSend(t) \/ AcceptConversation(t)
                                  \/ RejectConversation(t) \/ MarkAsRead(t)
        PROVE  Grown
    BY <2>1, <2>6
    DEF AbortSend, AnswerSend, AcceptConversation, RejectConversation, MarkAsRead,
        UpdateRow
  <2>7. Grown
    BY <2>2, <2>3, <2>4, <2>5, <2>6 DEF Next
  <2> QED
    BY <2>7 DEF Grown
<1>2. AllAddressed /\ RowsDated
  BY <1>1 DEF AllAddressed
<1>3. ASSUME NEW t \in tasks, CommitSend(t) PROVE RowsDated'
  BY <1>2, <1>3, DatesCommitted
<1>4. CASE UNCHANGED <<conversations, messages>>
  BY <1>2, <1>4, DatesStay
<1>5. CASE ~\E t \in tasks : CommitSend(t)
  <2>1. UNCHANGED <<conversations, messages>>
    <3> DEFINE Same == UNCHANGED <<conversations, messages>>
    <3>1. ASSUME Tick \/ Crash \/ UNCHANGED vars PROVE Same
      BY <3>1 DEF Tick, Crash, vars
    <3>2. ASSUME NEW a \in Addressing, NEW random \in Randoms,
                 NEW lastRead \in 0..now, RequestSend(a, random, lastRead)
          PROVE  Same
      BY <3>2 DEF RequestSend
    <3>3. ASSUME NEW op \in {"accept", "reject", "read"}, NEW u \in Users,
                 NEW c \in Convs, NEW lastRead \in 0..now,
                 RequestUpdate(op, u, c, lastRead)
          PROVE  Same
      BY <3>3 DEF RequestUpdate
    <3>4. ASSUME NEW t \in tasks,
                 ExecuteConversation(t) \/ ExecuteParticipant(t) \/ ExecuteMessage(t)
          PROVE  Same
      BY <1>2, <3>4
      DEF AllAddressed, ExecuteConversation, ExecuteParticipant, ExecuteMessage
    <3>5. ASSUME NEW t \in tasks, RollBackSend(t) \/ AbortSend(t) \/ AnswerSend(t)
          PROVE  Same
      BY <1>2, <3>5 DEF AllAddressed, RollBackSend, AbortSend, AnswerSend
    <3>6. ASSUME NEW t \in tasks,
                 AcceptConversation(t) \/ RejectConversation(t) \/ MarkAsRead(t)
          PROVE  Same
      BY <1>2, <3>6
      DEF AllAddressed, AcceptConversation, RejectConversation, MarkAsRead, UpdateRow
    <3> HIDE DEF Same
    <3>7. Same
      BY <1>5, <3>1, <3>2, <3>3, <3>4, <3>5, <3>6 DEF Next
    <3> QED
      BY <3>7 DEF Same
  <2> QED
    BY <1>4, <2>1
<1> QED
  BY <1>3, <1>5

\* The dates by which conversations are sorted are those of messages in them.
THEOREM DatesCorrect == Spec => []DatesAreOfMessages
<1> DEFINE Inv == AllAddressed => RowsDated
<1>1. Init => Inv
  BY DEF Init, RowsDated
<1>2. Init => SendsFit
  BY DEF Init, SendsFit
<1>3. TypeOK /\ SendsFit /\ Inv /\ [Next]_vars => Inv'
  BY DatesStep
<1>4. Inv <=> DatesAreOfMessages
  BY RowsDatedSuffices
<1> HIDE DEF Inv
<1> QED
  BY <1>1, <1>2, <1>3, <1>4, TypeCorrect, SendsStep, PTL DEF Spec
=============================================================================
