-------------------------------- MODULE Room --------------------------------
(***************************************************************************)
(* The chat room of the server (packages/server/src/Room.ts): the map of   *)
(* websocket sessions, the login that runs over two awaits, logout, chat   *)
(* messages with their timestamps and the stored history, the broadcast    *)
(* that drops a connection whose send throws, the close handler and, on    *)
(* Cloudflare, the hibernation of the object.                              *)
(*                                                                         *)
(* One action is one turn of the event loop: the code between two awaits   *)
(* that let other events in.  The awaits on the object's own storage do    *)
(* not (Cloudflare closes the input gate, Bun answers in a microtask), so  *)
(* webSocketOpen and the chat branch of webSocketMessage are one action.   *)
(*                                                                         *)
(* The operators Mut... are variants with a plausible bug each: with one   *)
(* in the place of the definition after it, a property below is violated.  *)
(***************************************************************************)
EXTENDS Integers, Sequences, FiniteSets

CONSTANTS
    Sockets,     \* the connections; a session's random id is its connection
    Users,       \* addresses that may log in
    NoUser,      \* session.address is undefined
    Platform,    \* "bun" or "cf", which differ in sends, awaits, hibernation
    Clock,       \* what Date.now() may answer, in any order
    Backlog,     \* how many stored messages a new connection is sent (100)
    MaxRequests  \* bound on the requests that the clients make

ASSUME PlatformAssumption == Platform \in {"bun", "cf"}
ASSUME NoUserAssumption   == NoUser \notin Users
ASSUME BoundsAssumption   == /\ Clock \subseteq Nat
                             /\ Backlog \in Nat
                             /\ MaxRequests \in Nat

VARIABLES
    gated,          \* identifier.authorization is set: "@domain!authorization"
    conn,           \* the transport under each connection
    sessions,       \* keys of the map from WebSocket to Session
    session,        \* the Session objects, alive in closures after removal
    attachment,     \* the data that survives hibernation (Cloudflare)
    logins,         \* login handlers suspended at an await
    lastTimestamp,
    history,        \* stored messages in the order of their keys, the timestamps
    sent,           \* the frames given to each connection, in order
    requests        \* requests made so far, at most MaxRequests

vars == <<gated, conn, sessions, session, attachment, logins, lastTimestamp,
          history, sent, requests>>

-----------------------------------------------------------------------------
(* Frames of the room's protocol.  Frames that one turn sends back to back *)
(* for several sessions (the roster, the quits of a broadcast) are one     *)
(* frame that carries the set.  Error replies are left out.                *)

Presence == [id : Sockets, user : Users \cup {NoUser}]

Message == [type : {"chat"}, ts : Nat, from : Users]

Frame == [type : {"challenge"}]
           \cup [type : {"joined", "quit"}, who : SUBSET Presence]
           \cup Message

Challenge     == [type |-> "challenge"]
Joined(who)   == [type |-> "joined", who |-> who]
Quit(who)     == [type |-> "quit", who |-> who]
Chat(ts, u)   == [type |-> "chat", ts |-> ts, from |-> u]
Who(s, u)     == [id |-> s, user |-> u]

Session    == [address : Users \cup {NoUser}, authorized : BOOLEAN,
               blocked : Seq(Frame)]
Attachment == [address : Users \cup {NoUser}, authorized : BOOLEAN]
Login      == [request : Nat, socket : Sockets, user : Users,
               step : {"db", "chain"}]

MutNewSession == [address |-> NoUser, authorized |-> FALSE]

NewSession == [address |-> NoUser, authorized |-> FALSE, blocked |-> <<>>]

-----------------------------------------------------------------------------
(* Sending. *)

Maximum(a, b) == IF a >= b THEN a ELSE b

\* An identified session counts as authorized.
MutBlocked(ses) == gated /\ ses.address = NoUser

\* pendingSessionSend queues for a session that has yet to be authorized.
Blocked(ses) == gated /\ ~ses.authorized

\* A send to a connection whose peer has gone is lost; on Cloudflare it may
\* throw instead.  The choices for the set of connections that throw.
Throwing(S, ses) ==
    IF Platform = "cf"
      THEN SUBSET {r \in S : conn[r] # "open" /\ ~Blocked(ses[r])}
      ELSE {{}}

\* broadcast() announces the connections it drops once all the others are served.
QuitsOf(F, ses) ==
    LET who == {Who(r, ses[r].address) : r \in {q \in F : ses[q].address # NoUser}}
    IN  IF who = {} THEN <<>> ELSE <<Quit(who)>>

\* broadcast(frame) when the sends to F throw: what the others receive.
Burst(frame, F, ses) == <<frame>> \o QuitsOf(F, ses)

\* Only sessions that are logged in are served.
MutDeliver(frames, F, ses, out) ==
    LET S == {r \in sessions \ F : ses[r].address # NoUser}
    IN  /\ sessions' = sessions \ F
        /\ sent' = [r \in Sockets |->
                      IF r \in S /\ conn[r] = "open" THEN out[r] \o frames ELSE out[r]]
        /\ session' = ses

\* The sessions F leave the map and the others are sent, or have queued,
\* frames.  ses holds the session objects at the end of the turn, out the
\* streams before the frames.
Deliver(frames, F, ses, out) ==
    LET S == sessions \ F
    IN  /\ sessions' = S
        /\ sent' = [r \in Sockets |->
                      IF r \in S /\ conn[r] = "open" /\ ~Blocked(ses[r])
                        THEN out[r] \o frames ELSE out[r]]
        /\ session' = [r \in Sockets |->
                         IF r \in S /\ Blocked(ses[r])
                           THEN [ses[r] EXCEPT !.blocked = @ \o frames]
                           ELSE ses[r]]

\* The authorization alone is saved.
MutSave(s, user, authorized) ==
    attachment' = [attachment EXCEPT ![s].authorized = authorized]

\* saveSocketData: Bun keeps nothing, as its rooms do not hibernate.
Save(s, user, authorized) ==
    attachment' = IF Platform = "cf"
                    THEN [attachment EXCEPT ![s] =
                            [address |-> user, authorized |-> authorized]]
                    ELSE attachment

\* Bun's database answers without returning to the event loop.
EventLoopFree == Platform = "cf" \/ \A t \in logins : t.step # "db"

\* A request that reaches the handler of a connection the room knows.
Request(s) ==
    /\ EventLoopFree
    /\ s \in sessions
    /\ requests < MaxRequests
    /\ requests' = requests + 1

-----------------------------------------------------------------------------
Init ==
    /\ gated \in BOOLEAN
    /\ conn = [s \in Sockets |-> "new"]
    /\ sessions = {}
    /\ session = [s \in Sockets |-> NewSession]
    /\ attachment = [s \in Sockets |-> [address |-> NoUser, authorized |-> FALSE]]
    /\ logins = {}
    /\ lastTimestamp = 0
    /\ history = <<>>
    /\ sent = [s \in Sockets |-> <<>>]
    /\ requests = 0

\* The list without reverse: the oldest messages.
MutLatest == SubSeq(history, 1, Len(history) - Maximum(0, Len(history) - Backlog))

\* storage.list({reverse: true, limit: 100}), put back in order.
Latest == SubSeq(history, Maximum(1, Len(history) - Backlog + 1), Len(history))

\* webSocketOpen: the roster and the backlog, queued if the room is gated,
\* then the challenge, which is never queued.
Open(s) ==
    LET online == {Who(r, session[r].address) :
                     r \in {q \in sessions : session[q].address # NoUser}}
        roster == IF online = {} THEN <<>> ELSE <<Joined(online)>>
        frames == roster \o Latest
    IN  /\ EventLoopFree
        /\ conn[s] = "new"
        /\ conn' = [conn EXCEPT ![s] = "open"]
        /\ sessions' = sessions \cup {s}
        /\ session' = [session EXCEPT ![s] =
                         [NewSession EXCEPT !.blocked = IF gated THEN frames ELSE <<>>]]
        /\ sent' = [sent EXCEPT ![s] =
                      IF gated THEN <<Challenge>> ELSE frames \o <<Challenge>>]
        /\ Save(s, NoUser, FALSE)
        /\ UNCHANGED <<gated, logins, lastTimestamp, history, requests>>

-----------------------------------------------------------------------------
(* Login: the handler suspends at the database and, in a gated room, again *)
(* at the call to the chain.  Several can be suspended for one connection. *)

RequestLogin(s, u) ==
    /\ Request(s)
    /\ logins' = logins \cup
         {[request |-> requests, socket |-> s, user |-> u, step |-> "db"]}
    /\ UNCHANGED <<gated, conn, sessions, session, attachment, lastTimestamp,
                   history, sent>>

\* No such user on the domain, or the signature is not by the user's key.
LoginFails(t) ==
    /\ t.step = "db"
    /\ logins' = logins \ {t}
    /\ UNCHANGED <<gated, conn, sessions, session, attachment, lastTimestamp,
                   history, sent, requests>>

\* The connection is logged in as that user: "we ignore this request".
LoginRepeats(t) ==
    /\ t.step = "db"
    /\ session[t.socket].address = t.user
    /\ logins' = logins \ {t}
    /\ UNCHANGED <<gated, conn, sessions, session, attachment, lastTimestamp,
                   history, sent, requests>>

\* In a room open to all, identification completes the login: quit for the
\* user that the connection had, if any, then joined for the new one.
LoginOpenRoom(t) ==
    LET s    == t.socket
        old  == session[s].address
        ses  == [session EXCEPT ![s].address = t.user]
        join == Joined({Who(s, t.user)})
    IN  /\ t.step = "db"
        /\ ~gated
        /\ old # t.user
        /\ \E F \in Throwing(sessions, session) :
             Deliver(IF old = NoUser
                       THEN Burst(join, F, ses)
                       ELSE Burst(Quit({Who(s, old)}), F, session) \o <<join>>,
                     F, ses, sent)
        /\ Save(s, t.user, session[s].authorized)
        /\ logins' = logins \ {t}
        /\ UNCHANGED <<gated, conn, lastTimestamp, history, requests>>

\* In a gated room the connection takes the new user before the chain is asked.
LoginGatedRoom(t) ==
    LET s   == t.socket
        old == session[s].address
        ses == [session EXCEPT ![s].address = t.user]
    IN  /\ t.step = "db"
        /\ gated
        /\ old # t.user
        /\ \/ /\ old = NoUser
              /\ Deliver(<<>>, {}, ses, sent)
           \/ /\ old # NoUser
              /\ \E F \in Throwing(sessions, session) :
                   Deliver(Burst(Quit({Who(s, old)}), F, session), F, ses, sent)
        /\ logins' = (logins \ {t}) \cup {[t EXCEPT !.step = "chain"]}
        /\ UNCHANGED <<gated, conn, attachment, lastTimestamp, history, requests>>

\* Chain not supported, call failed or answer not the expected one: the
\* handler returns and the session keeps the address.
ChainRefuses(t) ==
    /\ EventLoopFree
    /\ t.step = "chain"
    /\ logins' = logins \ {t}
    /\ UNCHANGED <<gated, conn, sessions, session, attachment, lastTimestamp,
                   history, sent, requests>>

\* Authorized: save the attachment, send what was queued, announce.  The
\* address is read again, after the await.  When the peer has gone, a queued
\* frame may throw, and then nothing is announced.
ChainPasses(t) ==
    LET s       == t.socket
        address == session[s].address
        queued  == session[s].blocked
        ses     == [session EXCEPT ![s].authorized = TRUE, ![s].blocked = <<>>]
        opened  == [session EXCEPT ![s].authorized = TRUE]
        flushed == IF conn[s] = "open" THEN [sent EXCEPT ![s] = @ \o queued] ELSE sent
    IN  /\ EventLoopFree
        /\ t.step = "chain"
        /\ Save(s, address, TRUE)
        /\ \/ \E F \in Throwing(sessions, ses) :
                /\ s \in F => queued = <<>>
                /\ Deliver(Burst(Joined({Who(s, address)}), F, ses), F, ses, flushed)
           \/ /\ Platform = "cf" /\ conn[s] # "open" /\ queued # <<>>
              /\ Deliver(<<>>, {}, opened, sent)
        /\ logins' = logins \ {t}
        /\ UNCHANGED <<gated, conn, lastTimestamp, history, requests>>

\* The session keeps its address.
MutLogout(s) ==
    LET old == session[s].address
    IN  /\ Request(s)
        /\ old # NoUser
        /\ \E F \in Throwing(sessions, session) :
             Deliver(Burst(Quit({Who(s, old)}), F, session), F, session, sent)
        /\ Save(s, NoUser, session[s].authorized)
        /\ UNCHANGED <<gated, conn, logins, lastTimestamp, history>>

\* The quit goes out first, while the session still has its address.
Logout(s) ==
    LET old == session[s].address
    IN  /\ Request(s)
        /\ old # NoUser
        /\ \E F \in Throwing(sessions, session) :
             Deliver(Burst(Quit({Who(s, old)}), F, session), F,
                     [session EXCEPT ![s].address = NoUser], sent)
        /\ Save(s, NoUser, session[s].authorized)
        /\ UNCHANGED <<gated, conn, logins, lastTimestamp, history>>

-----------------------------------------------------------------------------
\* storage.put of a Durable Object, which keeps its keys in order: under a key
\* already there, the message replaces the other.  BunRoom has the storage of Bun.
Put(messages, m) ==
    LET older    == Cardinality({i \in DOMAIN messages : messages[i].ts < m.ts})
        replaces == older < Len(messages) /\ messages[older + 1].ts = m.ts
    IN  SubSeq(messages, 1, older) \o <<m>>
          \o SubSeq(messages, older + (IF replaces THEN 2 ELSE 1), Len(messages))

MutStamp(now) == Maximum(now, lastTimestamp)

\* The timestamp of a message, and its key in the storage.
Stamp(now) == Maximum(now, lastTimestamp + 1)

\* A chat message: stamp it, broadcast it, store it under its timestamp.  A
\* session without an address is told so, and nothing else happens.
SendChat(s, now) ==
    LET from == session[s].address
        ts   == Stamp(now)
    IN  /\ Request(s)
        /\ from # NoUser
        /\ lastTimestamp' = ts
        /\ \E F \in Throwing(sessions, session) :
             Deliver(Burst(Chat(ts, from), F, session), F, session, sent)
        /\ history' = Put(history, Chat(ts, from))
        /\ UNCHANGED <<gated, conn, attachment, logins>>

-----------------------------------------------------------------------------
(* The transport, and what the runtime does to the object. *)

\* The peer goes away; the close event has yet to be delivered.
Disconnect(s) ==
    /\ conn[s] = "open"
    /\ conn' = [conn EXCEPT ![s] = "leaving"]
    /\ UNCHANGED <<gated, sessions, session, attachment, logins, lastTimestamp,
                   history, sent, requests>>

\* closeOrErrorHandler; nothing for a connection that broadcast has dropped.
CloseEvent(s) ==
    LET left == session[s].address
    IN  /\ EventLoopFree
        /\ conn[s] = "leaving"
        /\ conn' = [conn EXCEPT ![s] = "closed"]
        /\ \/ /\ s \in sessions
              /\ left # NoUser
              /\ \E F \in Throwing(sessions \ {s}, session) :
                   Deliver(Burst(Quit({Who(s, left)}), F, session), F \cup {s},
                           session, sent)
           \/ /\ s \notin sessions \/ left = NoUser
              /\ sessions' = sessions \ {s}
              /\ UNCHANGED <<session, sent>>
        /\ UNCHANGED <<gated, attachment, logins, lastTimestamp, history, requests>>

\* The object is evicted while idle and built again by the next event: the
\* sessions come back from the attachments of the sockets that the runtime
\* still holds (instantiate), with lastTimestamp 0 and empty queues.
Hibernate ==
    /\ Platform = "cf"
    /\ logins = {}
    /\ \E held \in SUBSET {s \in Sockets : conn[s] = "leaving"} :
         LET woken == held \cup {s \in Sockets : conn[s] = "open"}
         IN  /\ sessions' = woken
             /\ session' = [s \in Sockets |->
                              IF s \in woken
                                THEN [address    |-> attachment[s].address,
                                      authorized |-> attachment[s].authorized,
                                      blocked    |-> <<>>]
                                ELSE session[s]]
    /\ lastTimestamp' = 0
    /\ UNCHANGED <<gated, conn, attachment, logins, history, sent, requests>>

-----------------------------------------------------------------------------
Next ==
    \/ \E s \in Sockets :
         \/ Open(s) \/ Disconnect(s) \/ CloseEvent(s) \/ Logout(s)
         \/ \E u \in Users : RequestLogin(s, u)
         \/ \E now \in Clock : SendChat(s, now)
    \/ \E t \in logins :
         \/ LoginFails(t) \/ LoginRepeats(t) \/ LoginOpenRoom(t)
         \/ LoginGatedRoom(t) \/ ChainRefuses(t) \/ ChainPasses(t)
    \/ Hibernate

Spec == Init /\ [][Next]_vars

-----------------------------------------------------------------------------
(* Properties. *)

\* Every variable keeps its type.
TypeOK ==
    /\ gated \in BOOLEAN
    /\ conn \in [Sockets -> {"new", "open", "leaving", "closed"}]
    /\ sessions \in SUBSET Sockets
    /\ session \in [Sockets -> Session]
    /\ attachment \in [Sockets -> Attachment]
    /\ logins \in SUBSET Login
    /\ lastTimestamp \in Nat
    /\ history \in Seq(Message)
    /\ sent \in [Sockets -> Seq(Frame)]
    /\ requests \in 0..MaxRequests

\* frames announce p and do not announce later that it has left.
Announced(frames, p) ==
    \E i \in DOMAIN frames :
      /\ frames[i].type = "joined" /\ p \in frames[i].who
      /\ \A j \in DOMAIN frames :
           j > i /\ frames[j].type = "quit" => p \notin frames[j].who

\* In a room open to all, what a connected client has been told of another
\* connected client is exactly who that client is logged in as: every login,
\* switch of user, logout and late arrival has reached it, through failing
\* sends and hibernation.
RosterExact ==
    ~gated =>
      \A r, s \in {c \in Sockets : conn[c] = "open"} : \A u \in Users :
        Announced(sent[r], Who(s, u)) <=> session[s].address = u

\* In a room open to all, nobody is told that a user has quit unless told before
\* that it had joined and not told since that it had quit: clients remove
\* one entry of their list at each quit (holds where sends do not throw).
QuitFollowsJoin ==
    ~gated =>
      \A r \in Sockets : \A i \in DOMAIN sent[r] :
        sent[r][i].type = "quit" =>
          \A p \in sent[r][i].who : Announced(SubSeq(sent[r], 1, i - 1), p)

\* The k-th of a set of numbers, from the least on.
Nth(S, k) == CHOOSE i \in S : Cardinality({j \in S : j <= i}) = k

\* The messages among frames, in their order.
Chats(frames) == {i \in DOMAIN frames : frames[i].type = "chat"}

Messages(frames) ==
    [k \in 1..Cardinality(Chats(frames)) |-> frames[Nth(Chats(frames), k)]]

\* A connected client has been sent, or has queued for it, the end of the
\* stored history: each message once, in order, without a gap, from a message
\* of its backlog on.
ViewIsHistorySuffix ==
    \A r \in {c \in sessions : conn[c] = "open"} :
      LET seen == Messages(sent[r] \o session[r].blocked)
          n    == Len(history) - Len(seen)
      IN  /\ n >= 0 /\ seen = SubSeq(history, n + 1, Len(history))
          /\ n > 0 => Len(seen) >= Backlog

\* The stored history only grows, by a message newer than all it holds: "at
\* least the ordering is maintained" when the clock goes backwards.
HistoryGrowsAtItsEnd ==
    [][/\ Len(history') = Len(history) + 1
       /\ \A i \in DOMAIN history :
            /\ history'[i] = history[i]
            /\ history[i].ts < history'[Len(history')].ts]_history

\* Nothing of what a gated room says reaches a connection before a login of
\* that connection has passed the authorization.
GateHolds ==
    gated => \A r \in Sockets : \A i \in DOMAIN sent[r] :
               sent[r][i].type # "challenge" =>
                 session[r].authorized

\* In a room open to all, whenever the object may be evicted, the attachments
\* would restore the connected sessions as they are.
HibernationIsTransparent ==
    ~gated /\ logins = {} =>
      \A s \in Sockets : conn[s] = "open" =>
        /\ s \in sessions
        /\ attachment[s].address = session[s].address

\* "On "close" and "error" events, remove the WebSocket from the sessions
\* list and broadcast a quit message": once the close event of a connection
\* is handled and its logins have ended, no connected client still lists it.
NoGhost ==
    \A s \in Sockets :
      conn[s] = "closed" /\ (\A t \in logins : t.socket # s) =>
        \A r \in {c \in Sockets : conn[c] = "open"} : \A u \in Users :
          ~Announced(sent[r], Who(s, u))

\* No stored message is newer than the last timestamp given, so that the next
\* one gets a key of its own and the last place (while nothing is evicted).
HistoryBelowLast == \A i \in DOMAIN history : history[i].ts <= lastTimestamp
=============================================================================
