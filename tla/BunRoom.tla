------------------------------- MODULE BunRoom -------------------------------
(***************************************************************************)
(* The room on Bun (platforms/bun/src/cli.ts): Room with the object that   *)
(* stores its messages, SimpleObjectStorage over a BidirectionalMap, and   *)
(* with the list of websockets that the adapter keeps next to the          *)
(* sessions of the room.                                                   *)
(*                                                                         *)
(* The storage of Cloudflare lists by key.  This one is a linked list that *)
(* set() only ever appends to, even for a key that it has, and lists in    *)
(* the order of insertion.  history, in Room, is what a room expects of    *)
(* either.  The room calls put and list only.                              *)
(***************************************************************************)
EXTENDS Room, SequencesExt

VARIABLES
    storage,    \* the BidirectionalMap
    websockets  \* BunRoom.websockets

bunVars == <<vars, storage, websockets>>

-----------------------------------------------------------------------------
(* BidirectionalMap: entries are numbered as they are made; 0 is null.     *)

EmptyMap == [entries |-> <<>>, first |-> 0, last |-> 0]

\* The entry is linked at one end only.
MutSet(d, key, value) ==
    LET n == Len(d.entries) + 1
    IN  [entries |-> Append(d.entries,
                            [key |-> key, value |-> value, prev |-> d.last, next |-> 0]),
         first   |-> IF d.last = 0 THEN n ELSE d.first,
         last    |-> n]

\* set(): a new entry, after the last one.
Set(d, key, value) ==
    LET n      == Len(d.entries) + 1
        linked == IF d.last = 0 THEN d.entries
                  ELSE [d.entries EXCEPT ![d.last].next = n]
    IN  [entries |-> Append(linked,
                            [key |-> key, value |-> value, prev |-> d.last, next |-> 0]),
         first   |-> IF d.last = 0 THEN n ELSE d.first,
         last    |-> n]

\* The iterators: what current is in the first n turns, from one end on.
Current(d, reverse, n) ==
    LET at[i \in 1..n] ==
          IF i = 1 THEN IF reverse THEN d.last ELSE d.first
          ELSE IF at[i - 1] = 0 THEN 0
          ELSE IF reverse THEN d.entries[at[i - 1]].prev ELSE d.entries[at[i - 1]].next
    IN  at

\* They stop at null, after which there is only null.
Walk(d, reverse, n) ==
    LET at == Current(d, reverse, n)
    IN  SubSeq(at, 1, Cardinality({i \in 1..n : at[i] # 0}))

\* The Map made of the entries met: a key met again keeps its place and takes
\* the new value.
AsMap(d, met) ==
    LET key(i)  == d.entries[met[i]].key
        fresh   == {i \in DOMAIN met : \A j \in 1..(i - 1) : key(j) # key(i)}
        last(i) == CHOOSE j \in DOMAIN met :
                     /\ key(j) = key(i)
                     /\ \A k \in DOMAIN met : key(k) = key(i) => k <= j
    IN  [i \in 1..Cardinality(fresh) |-> d.entries[met[last(Nth(fresh, i))]].value]

\* list({reverse, limit}); without a limit it is the number of entries.
List(d, reverse, limit) == AsMap(d, Walk(d, reverse, limit))

-----------------------------------------------------------------------------
BunInit ==
    /\ Init
    /\ storage = EmptyMap
    /\ websockets = <<>>

\* open(): _addWebSocket, then webSocketOpen.
BunOpen(s) ==
    /\ Open(s)
    /\ websockets' = Append(websockets, s)
    /\ UNCHANGED storage

\* _removeWebSocket takes out the last one.
MutBunClose(s) ==
    /\ CloseEvent(s)
    /\ websockets' = SubSeq(websockets, 1, Len(websockets) - 1)
    /\ UNCHANGED storage

\* close(): _removeWebSocket splices the list where it first finds the websocket,
\* then webSocketClose.
BunClose(s) ==
    /\ CloseEvent(s)
    /\ websockets' = RemoveFirst(websockets, s)
    /\ UNCHANGED storage

\* message() with a chat message, which ends in storage.put(key, message).
BunChat(s, now) ==
    /\ SendChat(s, now)
    /\ storage' = Set(storage, Stamp(now), Chat(Stamp(now), session[s].address))
    /\ UNCHANGED websockets

BunNext ==
    \/ \E s \in Sockets :
         \/ BunOpen(s) \/ BunClose(s)
         \/ \E now \in Clock : BunChat(s, now)
    \/ /\ \/ \E s \in Sockets :
               \/ Disconnect(s) \/ Logout(s)
               \/ \E u \in Users : RequestLogin(s, u)
          \/ \E t \in logins :
               \/ LoginFails(t) \/ LoginRepeats(t) \/ LoginOpenRoom(t)
               \/ LoginGatedRoom(t) \/ ChainRefuses(t) \/ ChainPasses(t)
       /\ UNCHANGED <<storage, websockets>>

BunSpec == BunInit /\ [][BunNext]_bunVars

-----------------------------------------------------------------------------
(* Properties. *)

\* The storage answers as the one of Cloudflare does, though it sorts nothing
\* and would keep two entries of one key: both of its lists hold the messages
\* of the history, the backlog that a new connection is sent included.
StorageIsHistory ==
    LET all == Len(storage.entries)
    IN  /\ List(storage, FALSE, all) = history
        /\ List(storage, TRUE, all) = Reverse(history)
        /\ Backlog > 0 => List(storage, TRUE, Backlog) = Reverse(Latest)

\* The adapter and the room agree on who is connected: the websockets that the
\* runtime has opened and not closed, once each, are those with a session.
SameSockets ==
    /\ {websockets[i] : i \in DOMAIN websockets} = sessions
    /\ Len(websockets) = Cardinality(sessions)

\* A room shows its clients one log: ChatLog, read from the sessions.  What a
\* connection has been sent and what waits for its authorization are one view.
Readers == {r \in sessions : conn[r] = "open"}

Log == INSTANCE ChatLog WITH
         Readers <- Sockets,
         log     <- history,
         reading <- Readers,
         view    <- [r \in Sockets |->
                       IF r \in Readers
                         THEN Messages(sent[r] \o session[r].blocked) ELSE <<>>]

\* The room on Bun implements the log.
ShowsOneLog == Log!Spec
=============================================================================
