----------------------------- MODULE RoomSystem -----------------------------
(***************************************************************************)
(* A room of the server on Bun, open to all, with one client of it         *)
(* (RoomClient) and peers who come, log in and log out at any time.        *)
(*                                                                         *)
(* A connection delivers in order, both ways.  It may break at any moment: *)
(* what is under way is lost then, the server is told when it is told and  *)
(* the client is told when it is told.                                     *)
(***************************************************************************)
EXTENDS RoomClient

VARIABLES
    verifiable,  \* login requests signed for the challenge of their connection
    refused,     \* connections and types of the messages answered by an error frame
    steady       \* the registration has not changed but from none to an account

systemVars == <<vars, clientVars, verifiable, refused, steady>>

Peers  == Sockets \ Own
Unused == {s \in Own : ready[s] = "none"}

-----------------------------------------------------------------------------
SystemInit ==
    /\ Init
    /\ ~gated
    /\ ClientInit
    /\ verifiable = {}
    /\ refused = {}
    /\ steady = TRUE

\* The handshake ends, at the server and at the client: a browser calls onopen
\* before it delivers what the server sends on opening.  The peers come first:
\* the client hears of none before it logs in.
Opens(s) ==
    /\ s \in Own => \A p \in Peers : conn[p] = "open"
    /\ Open(s)
    /\ IF s \in Own THEN OnOpened(s) ELSE UNCHANGED clientVars
    /\ UNCHANGED <<verifiable, refused, steady>>

\* The connection breaks, or its client has closed it.  The last connection of
\* the instance stays.
Breaks(s) ==
    /\ ready[s] = "closing" \/ Unused # {}
    /\ Disconnect(s)
    /\ UNCHANGED <<clientVars, verifiable, refused, steady>>

ServerCloses(s) ==
    /\ CloseEvent(s)
    /\ outbox' = [outbox EXCEPT ![s] = <<>>]
    /\ UNCHANGED <<registration, known, acts, websocket, ready, room, savedSession,
                   loginOnChallengeReceived, signing, read, reported, verifiable,
                   refused, steady>>

ClientCloses(s) ==
    /\ ready[s] \in {"closing", "open"} /\ conn[s] # "open"
    /\ OnClosed(s)
    /\ UNCHANGED <<vars, verifiable, refused, steady>>

\* A message of the client is answered by an error frame and goes no further:
\* any message over the rate limit, a chat message that is empty or too long.
\* The client does nothing with an error frame.
Refuse(s, m) ==
    /\ EventLoopFree
    /\ refused' = refused \cup {<<s, m.type>>}
    /\ UNCHANGED <<vars, verifiable>>

\* What webSocketMessage does with the message m.  A logout or a message of a
\* session without an address is answered with an error.
Handle(s, m) ==
    /\ \/ /\ m.type = "login"
          /\ RequestLogin(s, m.user)
          /\ verifiable' = IF m.challenge = s THEN verifiable \cup {requests} ELSE verifiable
       \/ /\ m.type = "logout" /\ Logout(s)
          /\ UNCHANGED verifiable
       \/ /\ m.type = "chat" /\ \E now \in Clock : SendChat(s, now)
          /\ UNCHANGED verifiable
       \/ /\ m.type # "login" /\ session[s].address = NoUser
          /\ EventLoopFree
          /\ UNCHANGED <<vars, verifiable>>
    /\ UNCHANGED refused

\* A message of the client reaches the server.
ServerReceives(s) ==
    /\ outbox[s] # <<>>
    /\ outbox' = [outbox EXCEPT ![s] = Tail(@)]
    /\ Handle(s, Head(outbox[s])) \/ Refuse(s, Head(outbox[s]))
    /\ UNCHANGED <<registration, known, acts, websocket, ready, room, savedSession,
                   loginOnChallengeReceived, signing, read, reported, steady>>

\* The login handler goes on.  A signature of another challenge gives another
\* key than the one registered.
LoginEnds(t) ==
    /\ IF t.socket \in Own /\ t.request \notin verifiable
         THEN LoginFails(t)
         ELSE LoginRepeats(t) \/ LoginOpenRoom(t)
    /\ verifiable' = verifiable \ {t.request}
    /\ UNCHANGED <<clientVars, refused, steady>>

PeerActs(s) ==
    /\ (\E u \in Users : RequestLogin(s, u)) \/ Logout(s)
    /\ UNCHANGED <<clientVars, verifiable, refused, steady>>

\* What the client does that no message of the network causes.
ClientActs ==
    /\ \/ Stop /\ Unused # {}
       \/ \E s \in Own : Start(s)
       \/ \E u \in Users \cup {NoUser} : ChangeRegistration(u)
       \/ \E m \in signing : Signed(m)
       \/ LogIn
       \/ SendMessage
    /\ steady' = (steady /\ (registration = NoUser \/ registration' = registration))
    /\ UNCHANGED <<vars, verifiable, refused>>

\* The database of Bun answers in a microtask: a login that has reached the
\* server runs to its end first.
SystemNext ==
    \/ /\ logins = {}
       /\ \/ ClientActs
          \/ \E s \in Sockets : Opens(s)
          \/ \E s \in Own :
               \/ Breaks(s) \/ ServerCloses(s) \/ ServerReceives(s)
               \/ ClientCloses(s)
               \/ OnMessage(s) /\ UNCHANGED <<vars, verifiable, refused, steady>>
          \/ \E s \in Peers : PeerActs(s)
    \/ \E t \in logins : LoginEnds(t)

SystemSpec == SystemInit /\ [][SystemNext]_systemVars

-----------------------------------------------------------------------------
(* Properties. *)

\* Every variable of the client keeps its type.
ClientTypeOK ==
    /\ registration \in Users \cup {NoUser}
    /\ known \in Users \cup {NoUser}
    /\ websocket \in Own \cup {NoSocket}
    /\ ready \in [Own -> {"none", "connecting", "open", "closing", "closed"}]
    /\ room.step \in {"Connecting", "Connected"}
    /\ room.status \in {"none", "NoAccount", "LoggedOut", "LoggedIn"}
    /\ room.address \in Users \cup {NoUser}
    /\ room.session \in Own \cup {NoSocket, Undefined}
    /\ room.users \in [Users -> Nat] /\ room.pending \in Nat
    /\ room.status = "NoAccount" => room.address = NoUser /\ room.session = NoSocket
    /\ room.status = "LoggedOut" => room.address # NoUser
    /\ room.status = "LoggedIn" => room.address # NoUser /\ room.session \in Own
    /\ savedSession \in Own \cup {NoSocket}
    /\ \A s \in Own : read[s] \in 0..Len(sent[s])

\* The client is connected by s and has handled all that the server has sent.
UpToDate(s) ==
    /\ websocket = s /\ ready[s] = "open" /\ conn[s] = "open"
    /\ room.step = "Connected"
    /\ read[s] = Len(sent[s])

\* And the server has handled all that the client has sent or is to send.
Quiet(s) ==
    /\ UpToDate(s)
    /\ outbox[s] = <<>> /\ signing = {}
    /\ logins = {}

\* The list of users has one entry for each session of the room that is logged
\* in, by the address that it is logged in as, unless the client has reported
\* an error since it connected.
UsersAreTheRoster ==
    \A s \in Own : UpToDate(s) /\ ~reported =>
      \A u \in Users :
        room.users[u] = Cardinality({r \in sessions : session[r].address = u})

\* While none of its messages is refused, a client that shows itself logged in
\* is, as the account that is registered.
LoggedInIsTrue ==
    \A s \in Own : Quiet(s) /\ refused = {} /\ room.status = "LoggedIn" =>
      session[s].address = room.address /\ room.address = known

\* So it is when the session it shows is that of its connection, and not one
\* that it saved before it connected again.
LoggedInOnItsSession ==
    \A s \in Own : Quiet(s) /\ room.status = "LoggedIn" /\ room.session = s =>
      session[s].address = room.address /\ room.address = known

First(s) == \A r \in Own \ {s} : ready[r] = "none"

\* With autoLogin the first connection is logged in once all is handled, when
\* its account is there before the connection, comes while it opens, between its
\* opening and its challenge, or after both, and does not change any more; unless
\* the server has refused a login of it.
FirstConnectionLogsIn ==
    \A s \in Own :
      /\ Quiet(s) /\ First(s)
      /\ known # NoUser /\ steady /\ <<s, "login">> \notin refused
      => room.status = "LoggedIn"

\* The accounts as which the room has told the client that s has logged in.
Accounts(s) ==
    {u \in Users : \E i \in DOMAIN sent[s] :
                     sent[s][i].type = "joined" /\ Who(s, u) \in sent[s][i].who}

\* On the first connection no message stays pending but one that the server has
\* refused: each is echoed, also when the client logs out and in again after it.
\* That is so with one account only: a joined frame does not say which login it
\* answers, and one for an account of before lets the client show itself logged
\* in too early.
NothingLeftPending ==
    \A s \in Own :
      /\ Quiet(s) /\ First(s)
      /\ (\A u, v \in Accounts(s) : u = v) /\ <<s, "chat">> \notin refused
      => room.pending = 0
=============================================================================
