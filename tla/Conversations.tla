---------------------------- MODULE Conversations ---------------------------
(***************************************************************************)
(* The stored conversations of the server: the handlers of the private API *)
(* (packages/server/src/api/private/index.ts) over the three tables that   *)
(* RemoteSQLStorage keeps, for one domain and namespace, which every       *)
(* statement has in its key.                                               *)
(*                                                                         *)
(* A request is stamped with Date.now() when its handler runs and reaches  *)
(* the database later, in any order with the others.  Where the database   *)
(* runs a batch in one transaction (D1, libsql) all of a send is one step. *)
(* On Bun the transaction ends at the first await, after the first         *)
(* statement, and the others follow one by one                             *)
(* (platforms/bun/src/remote-sql-bun/index.ts); its database answers in a  *)
(* microtask, so that a handler runs to its end before another starts.     *)
(*                                                                         *)
(* The user of a request is the account that the middleware found for its  *)
(* signature.                                                              *)
(*                                                                         *)
(* The operators Mut... are variants with a plausible bug each: with one   *)
(* in the place of the definition after it, a property below is violated.  *)
(***************************************************************************)
EXTENDS Integers, Sequences, FiniteSets, Functions

CONSTANTS
    Users,       \* authenticated accounts
    Convs,       \* conversation ids
    Addressing,  \* what clients send: [conv, from, to], to listing recipients
    Randoms,     \* Math.floor(Math.random() * 1000)
    None,        \* no such row
    MaxTime,     \* bound on the clock
    MaxRequests  \* bound on the requests

ASSUME AddressingAssumption ==
    Addressing \subseteq [conv : Convs, from : Users, to : Seq(Users)]
ASSUME NumbersAssumption ==
    /\ Randoms # {} /\ Randoms \subseteq 0..999
    /\ MaxTime \in Nat
    /\ MaxRequests \in Nat

VARIABLES
    transactional,  \* a batch is one transaction
    now,            \* Date.now()
    tasks,          \* requests stamped and on their way to the database
    conversations,  \* table Conversations
    participants,   \* table ConversationParticipants
    messages,       \* table Messages
    received,       \* every send stamped so far
    answered,       \* sends whose client was told that they succeeded
    requests        \* requests made so far, at most MaxRequests

vars == <<transactional, now, tasks, conversations, participants, messages,
          received, answered, requests>>

-----------------------------------------------------------------------------
(* Rows and requests. *)

Unaccepted == 0
Rejected   == 1
Accepted   == 2

Conversation == [creationDate : Nat, members : Seq(Users), lastMessage : Nat]
Participant  == [status : {Unaccepted, Rejected, Accepted}, lastRead : Nat]

\* content stands for the text; it tells the requests apart.
Message == [conv : Convs, messageID : Nat, recipient : Users, sender : Users,
            timestamp : Nat, content : Nat]

\* next counts the statements of a send that have been executed (Bun).
Send   == [op : {"send"}, request : Nat, user : Users, conv : Convs,
           to : Seq(Users), timestamp : Nat, messageID : Nat, lastRead : Nat,
           next : Nat]
Update == [op : {"accept", "reject", "read"}, request : Nat, user : Users,
           conv : Convs, lastRead : Nat]
Task   == Send \cup Update

ASSUME NoneAssumption == None \notin Conversation \cup Participant

Larger(a, b) == IF a >= b THEN a ELSE b

-----------------------------------------------------------------------------
(* Statements of a send. *)

\* Dated when it is written, not when the message was stamped.
MutUpsertConversation(t) ==
    [conversations EXCEPT ![t.conv] =
       IF @ = None THEN [creationDate |-> now, members |-> t.to, lastMessage |-> now]
         ELSE [@ EXCEPT !.lastMessage = now]]

\* upsertConversation: a row there already keeps its date and its members.
UpsertConversation(t) ==
    LET row == conversations[t.conv]
    IN  [conversations EXCEPT ![t.conv] =
           IF row = None
             THEN [creationDate |-> t.timestamp, members |-> t.to,
                   lastMessage |-> t.timestamp]
             ELSE [row EXCEPT !.lastMessage = t.timestamp]]

\* The new values replace the old ones.
MutUpsertedParticipant(t, r) ==
    [status   |-> IF r = t.user THEN Accepted ELSE Unaccepted,
     lastRead |-> IF r = t.user THEN t.lastRead ELSE 0]

\* upsertConversationParticipant, for recipient r.
UpsertedParticipant(t, r) ==
    LET row      == participants[t.conv][r]
        status   == IF r = t.user THEN Accepted ELSE Unaccepted
        lastRead == IF r = t.user THEN t.lastRead ELSE 0
    IN  IF row = None
          THEN [status |-> status, lastRead |-> lastRead]
          ELSE [status   |-> Larger(row.status, status),
                lastRead |-> Larger(row.lastRead, lastRead)]

\* Two of the values are bound in the wrong order.
MutMessageRow(t, r) ==
    [conv |-> t.conv, messageID |-> r, recipient |-> t.messageID,
     sender |-> t.user, timestamp |-> t.timestamp, content |-> t.request]

\* insertMessage, for recipient r, and its primary key.
MessageRow(t, r) ==
    [conv |-> t.conv, messageID |-> t.messageID, recipient |-> r,
     sender |-> t.user, timestamp |-> t.timestamp, content |-> t.request]

KeyTaken(t, r) ==
    \E m \in messages :
      m.conv = t.conv /\ m.messageID = t.messageID /\ m.recipient = r

-----------------------------------------------------------------------------
Init ==
    /\ transactional \in BOOLEAN
    /\ now = 0
    /\ tasks = {}
    /\ conversations = [c \in Convs |-> None]
    /\ participants = [c \in Convs |-> [u \in Users |-> None]]
    /\ messages = {}
    /\ received = {}
    /\ answered = {}
    /\ requests = 0

tables == <<conversations, participants, messages>>

Tick ==
    /\ now < MaxTime
    /\ now' = now + 1
    /\ UNCHANGED <<transactional, tasks, tables, received, answered, requests>>

\* A request reaches its handler.
Request ==
    /\ transactional \/ tasks = {}
    /\ requests < MaxRequests
    /\ requests' = requests + 1

\* Handler of sendMessage: stamp, and draw the id that the rows of all the
\* recipients share.  The client says until when its user has read.
RequestSend(a, random, lastRead) ==
    LET t == [op |-> "send", request |-> requests, user |-> a.from,
              conv |-> a.conv, to |-> a.to, timestamp |-> now,
              messageID |-> now * 1000 + random, lastRead |-> lastRead, next |-> 0]
    IN  /\ Request
        /\ tasks' = tasks \cup {t}
        /\ received' = received \cup {t}
        /\ UNCHANGED <<transactional, now, tables, answered>>

\* Handlers of acceptConversation, rejectConversation and markAsRead.
RequestUpdate(op, u, c, lastRead) ==
    /\ Request
    /\ tasks' = tasks \cup {[op |-> op, request |-> requests, user |-> u,
                             conv |-> c, lastRead |-> lastRead]}
    /\ UNCHANGED <<transactional, now, tables, received, answered>>

\* The sender gets no row.
MutCommitSend(t) ==
    /\ t.op = "send"
    /\ transactional
    /\ IsInjective(t.to)
    /\ \A r \in Range(t.to) : ~KeyTaken(t, r)
    /\ conversations' = UpsertConversation(t)
    /\ participants' = [participants EXCEPT ![t.conv] =
                          [u \in Users |-> IF u \in Range(t.to) \ {t.user}
                                             THEN UpsertedParticipant(t, u) ELSE @[u]]]
    /\ messages' = messages \cup {MessageRow(t, r) : r \in Range(t.to)}
    /\ tasks' = tasks \ {t}
    /\ answered' = answered \cup {t.request}
    /\ UNCHANGED <<transactional, now, received, requests>>

\* The batch as one transaction.
CommitSend(t) ==
    /\ t.op = "send"
    /\ transactional
    /\ IsInjective(t.to)
    /\ \A r \in Range(t.to) : ~KeyTaken(t, r)
    /\ conversations' = UpsertConversation(t)
    /\ participants' = [participants EXCEPT ![t.conv] =
                          [u \in Users |-> IF u \in Range(t.to)
                                             THEN UpsertedParticipant(t, u) ELSE @[u]]]
    /\ messages' = messages \cup {MessageRow(t, r) : r \in Range(t.to)}
    /\ tasks' = tasks \ {t}
    /\ answered' = answered \cup {t.request}
    /\ UNCHANGED <<transactional, now, received, requests>>

\* A primary key is there already, or a recipient is named twice: rolled back.
RollBackSend(t) ==
    /\ t.op = "send"
    /\ transactional
    /\ ~IsInjective(t.to) \/ \E r \in Range(t.to) : KeyTaken(t, r)
    /\ tasks' = tasks \ {t}
    /\ UNCHANGED <<transactional, now, tables, received, answered, requests>>

\* Bun: one statement at a time.  Statement 0 is the conversation, 2i - 1 the
\* i-th participant and 2i the message to it.
Executed(t) == (tasks \ {t}) \cup {[t EXCEPT !.next = @ + 1]}

ExecuteConversation(t) ==
    /\ t.op = "send"
    /\ ~transactional /\ t.next = 0
    /\ conversations' = UpsertConversation(t)
    /\ tasks' = Executed(t)
    /\ UNCHANGED <<transactional, now, participants, messages, received, answered,
                   requests>>

ExecuteParticipant(t) ==
    /\ t.op = "send"
    /\ ~transactional
    /\ \E i \in DOMAIN t.to :
         /\ t.next = 2 * i - 1
         /\ participants' = [participants EXCEPT ![t.conv][t.to[i]] =
                               UpsertedParticipant(t, t.to[i])]
    /\ tasks' = Executed(t)
    /\ UNCHANGED <<transactional, now, conversations, messages, received, answered,
                   requests>>

ExecuteMessage(t) ==
    /\ t.op = "send"
    /\ ~transactional
    /\ \E i \in DOMAIN t.to :
         /\ t.next = 2 * i
         /\ ~KeyTaken(t, t.to[i])
         /\ messages' = messages \cup {MessageRow(t, t.to[i])}
    /\ tasks' = Executed(t)
    /\ UNCHANGED <<transactional, now, conversations, participants, received,
                   answered, requests>>

\* The error is caught, and the client told that the send succeeded.
MutAbortSend(t) ==
    /\ t.op = "send"
    /\ ~transactional
    /\ \E i \in DOMAIN t.to : t.next = 2 * i /\ KeyTaken(t, t.to[i])
    /\ tasks' = tasks \ {t}
    /\ answered' = answered \cup {t.request}
    /\ UNCHANGED <<transactional, now, tables, received, requests>>

\* The statement throws: the rest is not executed, and nothing is undone.
AbortSend(t) ==
    /\ t.op = "send"
    /\ ~transactional
    /\ \E i \in DOMAIN t.to : t.next = 2 * i /\ KeyTaken(t, t.to[i])
    /\ tasks' = tasks \ {t}
    /\ UNCHANGED <<transactional, now, tables, received, answered, requests>>

AnswerSend(t) ==
    /\ t.op = "send"
    /\ ~transactional
    /\ t.next = 2 * Len(t.to) + 1
    /\ tasks' = tasks \ {t}
    /\ answered' = answered \cup {t.request}
    /\ UNCHANGED <<transactional, now, tables, received, requests>>

-----------------------------------------------------------------------------
(* The other writes are one UPDATE each, of a row that may not exist. *)

UpdateRow(t, row) ==
    /\ participants' = IF participants[t.conv][t.user] = None THEN participants
                         ELSE [participants EXCEPT ![t.conv][t.user] = row]
    /\ tasks' = tasks \ {t}
    /\ UNCHANGED <<transactional, now, conversations, messages, received, answered,
                   requests>>

AcceptConversation(t) ==
    /\ t.op = "accept"
    /\ UpdateRow(t, [status |-> Accepted, lastRead |-> t.lastRead])

RejectConversation(t) ==
    /\ t.op = "reject"
    /\ UpdateRow(t, [participants[t.conv][t.user] EXCEPT !.status = Rejected])

\* markAsRead writes the status too.
MarkAsRead(t) ==
    /\ t.op = "read"
    /\ UpdateRow(t, [status |-> Rejected, lastRead |-> t.lastRead])

\* The server stops; what was under way stays as far as it got.
Crash ==
    /\ tasks # {}
    /\ tasks' = {}
    /\ UNCHANGED <<transactional, now, tables, received, answered, requests>>

-----------------------------------------------------------------------------
Next ==
    \/ Tick
    \/ \E a \in Addressing, random \in Randoms, lastRead \in 0..now :
         RequestSend(a, random, lastRead)
    \/ \E op \in {"accept", "reject", "read"}, u \in Users, c \in Convs,
          lastRead \in 0..now : RequestUpdate(op, u, c, lastRead)
    \/ \E t \in tasks :
         \/ CommitSend(t) \/ RollBackSend(t)
         \/ ExecuteConversation(t) \/ ExecuteParticipant(t) \/ ExecuteMessage(t)
         \/ AbortSend(t) \/ AnswerSend(t)
         \/ AcceptConversation(t) \/ RejectConversation(t) \/ MarkAsRead(t)
    \/ Crash

Spec == Init /\ [][Next]_vars

-----------------------------------------------------------------------------
(* What the queries answer. *)

\* getConversations: the join of the conversations with the user's rows.
ListedConversations(u) ==
    {c \in Convs : conversations[c] # None /\ participants[c][u] # None}

\* getAcceptedConversations and getUnacceptedConversations: one status each.
ListedWithStatus(u, status) ==
    {c \in ListedConversations(u) : participants[c][u].status = status}

\* getMessages: what was stored for the user, the content included.
GetMessages(u, c) == {m \in messages : m.conv = c /\ m.recipient = u}

-----------------------------------------------------------------------------
(* Properties. *)

\* Every variable keeps its type.
TypeOK ==
    /\ transactional \in BOOLEAN
    /\ now \in 0..MaxTime
    /\ tasks \subseteq Task
    /\ conversations \in [Convs -> Conversation \cup {None}]
    /\ participants \in [Convs -> [Users -> Participant \cup {None}]]
    /\ messages \subseteq Message
    /\ received \subseteq Send
    /\ answered \subseteq Nat
    /\ requests \in 0..MaxRequests

\* The tables agree, even when a send stops half way: a conversation with a
\* message for a user is in the list that the user is given, and a user takes
\* part only in conversations that have a row.
EveryMessageListed ==
    \A c \in Convs, u \in Users :
      /\ GetMessages(u, c) # {} => c \in ListedConversations(u)
      /\ participants[c][u] # None => conversations[c] # None

\* Holders(t): the recipients that can read the send t.
Holders(t) == {u \in Users : \E m \in GetMessages(u, t.conv) : m.content = t.request}

\* A send reaches all its recipients, each once, or, where the batch is a
\* transaction, none at all, whatever collides; one whose client was told that
\* it succeeded has reached them all, on Bun too.
SendIsAllOrNothing ==
    \A t \in received :
      /\ transactional => Holders(t) \in {{}, Range(t.to)}
      /\ t.request \in answered => Holders(t) = Range(t.to)
      /\ \A m, n \in messages :
           m.content = t.request /\ n.content = t.request /\ m.recipient = n.recipient
             => m = n

\* Where a batch is a transaction and no send names nobody, the dates by which
\* the conversations are sorted and shown are those of messages stored in them.
DatesAreOfMessages ==
    transactional /\ (\A t \in received : t.to # <<>>) =>
      \A c \in {d \in Convs : conversations[d] # None} :
        {conversations[c].creationDate, conversations[c].lastMessage}
          \subseteq {m.timestamp : m \in {n \in messages : n.conv = c}}

\* What a user has accepted, rejected or read is taken back only by a request
\* of that user for that conversation that the step serves: the sends of others,
\* and one's own, can only raise it.
OnlyOwnRequestsLower ==
    [][\A c \in Convs, u \in Users :
         participants[c][u] # None =>
           /\ participants'[c][u] # None
           /\ \/ /\ participants'[c][u].status >= participants[c][u].status
                 /\ participants'[c][u].lastRead >= participants[c][u].lastRead
              \/ \E t \in tasks \ tasks' :
                   t.op # "send" /\ t.user = u /\ t.conv = c]_participants

\* "Update the conversation with the latest message timestamp": a conversation
\* is dated no earlier than any message in it.
LastMessageIsLatest ==
    \A m \in messages : m.timestamp <= conversations[m.conv].lastMessage

\* "0 : unaccepted , 1: accepted , 2: rejected" in the schema, with the 1 that
\* markAsRead writes: a conversation leaves the list of those accepted only when
\* its user rejects it.
OnlyRejectionUnaccepts ==
    [][\A u \in Users :
         \A c \in ListedWithStatus(u, Accepted) \ ListedWithStatus(u, Accepted)' :
           \E t \in tasks \ tasks' : t.op = "reject" /\ t.user = u /\ t.conv = c
      ]_participants
=============================================================================
