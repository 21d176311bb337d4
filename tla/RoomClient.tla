----------------------------- MODULE RoomClient -----------------------------
(***************************************************************************)
(* One client of a chat room (packages/client/src/lib/room/index.ts, with  *)
(* autoLogin): its websockets, one after the other, the login with the     *)
(* challenge of the session, the list of users and the messages.           *)
(*                                                                         *)
(* The handlers of a websocket stay attached to it: onStop means to remove *)
(* them but adds those for close and message again, which changes nothing. *)
(* After close() a browser delivers no message, but it does the close      *)
(* event.  All messages have one text, the case in which the client, that  *)
(* matches pending messages by their text, can take one for another.       *)
(*                                                                         *)
(* This module gives the effect of each event of the client; RoomSystem    *)
(* composes them with the room of the server.                              *)
(***************************************************************************)
EXTENDS Room

CONSTANTS
    Own,        \* the connections of this client
    NoSocket,   \* no websocket, no saved session
    Undefined,  \* a session field that is there without a value
    MaxActs     \* bound on the acts of the user

ASSUME OwnAssumption   == Own \subseteq Sockets /\ IsFiniteSet(Sockets)
ASSUME FieldAssumption == /\ NoSocket \notin Sockets /\ Undefined \notin Sockets
                          /\ NoSocket # Undefined

VARIABLES
    registration,  \* address that is registered, as its store has it
    known,         \* _registration
    acts,          \* acts of the user so far: changes of registration, messages, logins
    websocket,
    ready,         \* readyState of each connection
    room,          \* $room
    savedSession,  \* session whose id and challenge were last received
    loginOnChallengeReceived,
    signing,       \* logins that wait for their signature (equal ones are one)
    outbox,        \* what each connection has yet to deliver to the server
    read,          \* frames of each connection received, 0 when it has closed
    reported       \* an exception or console.error since the connection opened

clientVars == <<registration, known, acts, websocket, ready, room, savedSession,
                loginOnChallengeReceived, signing, outbox, read, reported>>

-----------------------------------------------------------------------------
(* $room.  status is loginStatus; session is a connection, NoSocket when   *)
(* the field is absent, or Undefined; users counts the entries per address *)
(* and pending the messages shown before the server has echoed them.       *)

NoUsers == [u \in Users |-> 0]

Connecting(u) ==
    [step |-> "Connecting", address |-> u, status |-> "none", session |-> NoSocket,
     users |-> NoUsers, pending |-> 0]

\* The address stays what it was.
MutLoggedOut(r, u, field) ==
    [r EXCEPT !.step = "Connected", !.status = "LoggedOut", !.session = field]

LoggedOut(r, u, field) ==
    [r EXCEPT !.step = "Connected", !.address = u, !.status = "LoggedOut",
              !.session = field]

\* savedSession as the value of the field.
SavedField == IF savedSession = NoSocket THEN Undefined ELSE savedSession

LoginMessage(u, s) == [type |-> "login", user |-> u, challenge |-> s]
LogoutMessage      == [type |-> "logout", user |-> NoUser, challenge |-> NoSocket]
ChatMessage        == [type |-> "chat", user |-> NoUser, challenge |-> NoSocket]

\* websocket.send: discarded once the connection is closing.
Sent(s, m) == IF ready[s] = "open" THEN [outbox EXCEPT ![s] = Append(@, m)] ELSE outbox

-----------------------------------------------------------------------------
\* login(), up to its await: what it needs, and what it sets.
CanLogin(r) == savedSession # NoSocket /\ r.step = "Connected" /\ r.status # "LoggedIn"

LoginStarts(r, u) ==
    IF CanLogin(r) /\ u # NoUser
      THEN /\ room' = LoggedOut(r, u, savedSession)
           /\ signing' = signing \cup {LoginMessage(u, savedSession)}
      ELSE /\ room' = r
           /\ UNCHANGED signing

\* login() goes on: the websocket of this moment takes the message.  Without
\* one, or with one that is still connecting, it throws.
Signed(m) ==
    /\ m \in signing
    /\ signing' = signing \ {m}
    /\ outbox' = IF websocket = NoSocket THEN outbox ELSE Sent(websocket, m)
    /\ UNCHANGED <<registration, known, acts, websocket, ready, room, savedSession,
                   loginOnChallengeReceived, read, reported>>

\* login(), as the page may call it.
LogIn ==
    /\ acts < MaxActs
    /\ acts' = acts + 1
    /\ CanLogin(room) /\ known # NoUser /\ websocket # NoSocket
    /\ LoginStarts(room, known)
    /\ UNCHANGED <<registration, known, websocket, ready, savedSession,
                   loginOnChallengeReceived, outbox, read, reported>>

\* No login later than at once.
MutAutoLogin(r, u, waiting) ==
    /\ LoginStarts(r, u)
    /\ loginOnChallengeReceived' = waiting

\* autoLogin, when there is an address: at once, or when the challenge comes.
AutoLogin(r, u, waiting) ==
    IF savedSession = NoSocket
      THEN /\ loginOnChallengeReceived' = TRUE
           /\ room' = r
           /\ UNCHANGED signing
      ELSE /\ LoginStarts(r, u)
           /\ loginOnChallengeReceived' = waiting

\* onRegistrationChanged, with the websocket s.  logout() throws unless the
\* client is logged in, and then nothing after it happens; else it sends its
\* message if it can, and sets the status at once.
RegistrationChanges(old, new, s) ==
    LET loggedIn == room.step = "Connected" /\ room.status = "LoggedIn"
        waiting  == loginOnChallengeReceived
    IN  \/ /\ old = new
           /\ UNCHANGED <<room, signing, outbox, loginOnChallengeReceived>>
        \/ /\ old # new /\ room.step = "Connecting"
           /\ room' = Connecting(new)
           /\ UNCHANGED <<signing, outbox, loginOnChallengeReceived>>
        \/ /\ room.step = "Connected" /\ old = NoUser /\ new # NoUser
           /\ AutoLogin(LoggedOut(room, new, SavedField), new, waiting)
           /\ UNCHANGED outbox
        \/ /\ loggedIn /\ old # new /\ old # NoUser
           /\ outbox' = Sent(s, LogoutMessage)
           /\ IF new # NoUser
                THEN AutoLogin(LoggedOut(room, new, SavedField), new, FALSE)
                ELSE /\ room' = LoggedOut(room, room.address, room.session)
                     /\ loginOnChallengeReceived' = FALSE
                     /\ UNCHANGED signing
        \/ /\ room.step = "Connected" /\ ~loggedIn /\ old # new /\ old # NoUser
           /\ loginOnChallengeReceived' = (waiting /\ new = NoUser)
           /\ UNCHANGED <<room, signing, outbox>>

\* The registration store shows another address, or none.
ChangeRegistration(u) ==
    /\ acts < MaxActs
    /\ registration # u
    /\ acts' = acts + 1
    /\ registration' = u
    /\ IF websocket = NoSocket  \* stopped: it is not subscribed
         THEN UNCHANGED <<known, room, signing, outbox, loginOnChallengeReceived>>
         ELSE /\ known' = u
              /\ RegistrationChanges(known, u, websocket)
    /\ UNCHANGED <<websocket, ready, savedSession, read, reported>>

-----------------------------------------------------------------------------
(* The websocket. *)

\* onStart, and what has changed in the registration since the stop.
Start(s) ==
    /\ websocket = NoSocket
    /\ s \in Own /\ ready[s] = "none"
    /\ websocket' = s
    /\ ready' = [ready EXCEPT ![s] = "connecting"]
    /\ known' = registration
    /\ RegistrationChanges(known, registration, s)
    /\ UNCHANGED <<registration, acts, savedSession, read, reported>>

\* onStop.
Stop ==
    /\ websocket # NoSocket
    /\ websocket' = NoSocket
    /\ ready' = [ready EXCEPT ![websocket] =
                   IF @ \in {"connecting", "open"} THEN "closing" ELSE @]
    /\ read' = [read EXCEPT ![websocket] = 0]
    /\ UNCHANGED <<registration, known, acts, room, savedSession,
                   loginOnChallengeReceived, signing, outbox, reported>>

\* onWebsocketOpened
OnOpened(s) ==
    LET r == [Connecting(room.address) EXCEPT
                !.step = "Connected",
                !.status = IF room.address = NoUser THEN "NoAccount" ELSE "LoggedOut"]
    IN  /\ ready[s] = "connecting"
        /\ ready' = [ready EXCEPT ![s] = "open"]
        /\ reported' = FALSE
        /\ IF room.address = NoUser
             THEN /\ room' = r
                  /\ UNCHANGED <<signing, loginOnChallengeReceived>>
             ELSE AutoLogin(r, known, loginOnChallengeReceived)
        /\ UNCHANGED <<registration, known, acts, websocket, savedSession, outbox, read>>

\* onWebsocketClosed, whichever websocket it is.
OnClosed(s) ==
    /\ ready[s] # "closed"
    /\ ready' = [ready EXCEPT ![s] = "closed"]
    /\ read' = [read EXCEPT ![s] = 0]
    /\ room' = Connecting(room.address)
    /\ UNCHANGED <<registration, known, acts, websocket, savedSession,
                   loginOnChallengeReceived, signing, outbox, reported>>

-----------------------------------------------------------------------------
(* onWebsocketMessage. *)

Entries(who, u) == Cardinality({p \in who : p.user = u})

\* The users list with the entries of who added.
Added(who) == [u \in Users |-> room.users[u] + Entries(who, u)]

\* Every match is removed.
MutRemoved(who) ==
    [u \in Users |-> IF Entries(who, u) > 0 THEN 0 ELSE room.users[u]]

\* The first match is removed, if there is one.
Removed(who) == [u \in Users |-> Maximum(0, room.users[u] - Entries(who, u))]

\* Someone with the address of this client.  With a session field that has no
\* value, the comparison of the ids that follows throws.
SameAddress(who) == known # NoUser /\ \E p \in who : p.user = known
SessionField == room.session # NoSocket

\* Whatever the session, another one of this address included.
MutIsOwn(who) == SessionField /\ SameAddress(who)

\* The address and the session are those of this client.
IsOwn(who) ==
    /\ SessionField
    /\ \E p \in who : p.user = known /\ p.id = room.session

OnChallenge(s) ==
    /\ savedSession' = s
    /\ IF room.status = "LoggedOut"
         THEN /\ loginOnChallengeReceived' = FALSE
              /\ IF loginOnChallengeReceived /\ known # NoUser /\ websocket # NoSocket
                   THEN /\ room' = LoggedOut(room, known, s)
                        /\ signing' = signing \cup {LoginMessage(known, s)}
                   ELSE /\ room' = [room EXCEPT !.session = s]
                        /\ UNCHANGED signing
         ELSE UNCHANGED <<room, signing, loginOnChallengeReceived>>
    /\ UNCHANGED reported

OnChat ==
    /\ room' = [room EXCEPT !.pending = 0]
    /\ UNCHANGED <<savedSession, loginOnChallengeReceived, signing, reported>>

OnJoined(who) ==
    /\ room' = IF IsOwn(who)
                 THEN [room EXCEPT !.status = "LoggedIn", !.address = known,
                                   !.users = Added(who)]
                 ELSE [room EXCEPT !.users = Added(who)]
    /\ UNCHANGED <<savedSession, loginOnChallengeReceived, signing, reported>>

\* "quit but not LoggedIn" leaves the list as it is.
OnQuit(who) ==
    LET ignored == IsOwn(who) /\ room.status # "LoggedIn"
    IN  /\ room' = IF ignored THEN room
                   ELSE IF IsOwn(who)
                     THEN [room EXCEPT !.status = "LoggedOut", !.users = Removed(who),
                                       !.session = savedSession]
                     ELSE [room EXCEPT !.users = Removed(who)]
        /\ reported' = (reported \/ ignored)
        /\ UNCHANGED <<savedSession, loginOnChallengeReceived, signing>>

\* The next frame of a connection.
OnMessage(s) ==
    LET f == sent[s][read[s] + 1]
    IN  /\ ready[s] = "open"
        /\ read[s] < Len(sent[s])
        /\ read' = [read EXCEPT ![s] = @ + 1]
        /\ IF \/ room.step # "Connected"
              \/ f.type \in {"joined", "quit"} /\ room.session = Undefined /\ SameAddress(f.who)
             THEN /\ reported' = TRUE
                  /\ UNCHANGED <<room, savedSession, loginOnChallengeReceived, signing>>
             ELSE \/ f.type = "challenge" /\ OnChallenge(s)
                  \/ f.type = "chat" /\ OnChat
                  \/ f.type = "joined" /\ OnJoined(f.who)
                  \/ f.type = "quit" /\ OnQuit(f.who)
        /\ UNCHANGED <<registration, known, acts, websocket, ready, outbox>>

\* sendMessage
SendMessage ==
    /\ acts < MaxActs
    /\ acts' = acts + 1
    /\ room.step = "Connected" /\ room.status = "LoggedIn"
    /\ websocket # NoSocket /\ known # NoUser
    /\ room' = [room EXCEPT !.pending = @ + 1]
    /\ outbox' = Sent(websocket, ChatMessage)
    /\ UNCHANGED <<registration, known, websocket, ready, savedSession,
                   loginOnChallengeReceived, signing, read, reported>>

-----------------------------------------------------------------------------
ClientInit ==
    /\ registration \in Users \cup {NoUser}
    /\ known = registration
    /\ acts = 0
    /\ websocket = NoSocket
    /\ ready = [s \in Own |-> "none"]
    \* An account that is not registered yet has an address too.
    /\ \E u \in Users \cup {NoUser} :
         /\ registration # NoUser => u = registration
         /\ room = Connecting(u)
    /\ savedSession = NoSocket
    /\ loginOnChallengeReceived = FALSE
    /\ signing = {}
    /\ outbox = [s \in Own |-> <<>>]
    /\ read = [s \in Own |-> 0]
    /\ reported = FALSE
=============================================================================
