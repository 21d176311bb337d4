# Missiv in TLA+

Missiv is a messaging service: end-to-end encrypted conversations kept in an SQL
database behind an HTTP API, and chat rooms over websockets that live in one
object per room. The same server runs on Cloudflare Workers (D1 and Durable
Objects that hibernate), on Bun (SQLite in the process, rooms in memory) and on
Node (libsql, no rooms). A browser library keeps stores over both.

This directory holds TLA+ modules that model the code, TLC configurations that
check them on small instances, and proofs checked by TLAPS.

    tlc -config MCBunRoom.cfg MCBunRoom     # and the other configurations
    tlapm Room_proofs.tla                   # and the other modules *_proofs

## Inventory

**Chat room** (`packages/server/src/Room.ts`). State: the map `sessions` from
websockets to sessions (address, authorized, queue of blocked messages), the last
timestamp given, the stored history, and on Cloudflare the data attached to each
websocket. Operations: `webSocketOpen`, `webSocketMessage` (login, logout, chat),
`closeOrErrorHandler`, `broadcast`, `instantiate` after hibernation. Interacts with
the accounts table (login), a chain (`eth_call` of gated rooms), the rate limiter,
the object storage and the sockets. Hard: a login suspends twice and the session
it goes on with may have changed, left or logged in as another user; sends throw
in the middle of a broadcast and the quits that follow may throw too; the object is
evicted while idle and only attachments and storage remain; the clock is not
monotonic. Correct when: every connected client knows exactly who is online; quits
match joins; each client has a gapless end of the history; the history keeps its
order; gated rooms say nothing before authorization; hibernation cannot be noticed.

**Private conversations** (`packages/server/src/api/private/index.ts`,
`storage/RemoteSQLStorage.ts`, `schema/sql/02_conversations.sql`). State: the tables
Conversations, ConversationParticipants (status, lastRead) and Messages (one row
per recipient). Operations: sendMessage (a batch of upserts and inserts),
acceptConversation, rejectConversation, markAsRead and the queries. Hard:
concurrent requests stamped in one order and written in another; message ids drawn
at random; on Bun the batch is not a transaction. Correct when: the tables agree,
a send reaches all its recipients or none, dates are those of messages, and only a
user's own requests take back what that user accepted or read.

**Accounts and authentication** (`setup.ts`, `api/user`, `api/public`,
`utils/signature.ts`, `schema/sql/01_users.sql`). State: the tables Users and
DomainUsers. Operations: register (which keeps the first public key), editUser, the
lookups, and the middleware that turns a signature into an account before the
handler runs; **Administration** (`api/admin`) resets both tables. Hard: the handler
acts on what the middleware has read; on Bun a batch can stop half way; setups and resets
run one statement at a time, between requests and between each other's statements. Correct when: an
account keeps the key and the signature it was registered with, a key belongs to one account, and no
account is without the row that every reader joins.

**Rate limiter** (`RateLimiter.ts`). State: `nextAllowedTime` per address of the
network, `inCooldown` and the stub per session. Hard: sessions share a limiter,
answers come after a timer, and errors leave the flag set. Correct when: the
bursts are bounded, and a session that waits is let through again.

**Object storage on Bun** (`platforms/bun/src/cli.ts`): a map with a linked list.
**Bun SQL adapter** (`platforms/bun/src/remote-sql-bun`): statements answer in a
microtask; `batch` awaits inside a synchronous transaction. **Cloudflare worker**
(`platforms/cf-worker/src/worker.ts`): the room as a Durable Object. **Node**: the
HTTP API only.

**Client** (`packages/client/src/lib`): a room store (websocket, challenge, login
status, users, messages), a registration store (account, profile, registering,
editing), a conversation store and a conversation list that poll, all on a store
that starts with its first subscriber and stops with its last. Hard: account
switches and lost signers during requests, stop and start during a fetch, answers out of order, the
events of an old websocket, messages that the server refuses. Correct when: what is shown belongs to the current
account, one polling loop runs while there are subscribers, and the user list is the
room's. The demo application adds a registration flow over a wallet, which registers when the wallet
has signed, whatever the store shows by then.

No state worth a model: HTTP routing and schemas, `API.ts`, string helpers in
`packages/common`, the Svelte pages. `PROJECT.json` lists every component with its
status, and every hazard with its line and the properties that cover it.

## Modules

| Module | Models | Uses |
| --- | --- | --- |
| `Room` | `Room.ts` with what the Bun and Cloudflare adapters give it | |
| `ChatLog` | abstract: a log that grows and the readers it is shown to | |
| `BunRoom` | `Room` with the storage and the websockets of `platforms/bun/src/cli.ts`; implements `ChatLog` | `Room`, `ChatLog` |
| `Conversations` | the private API over the conversation tables | |
| `LeakyBucket` | abstract: what may be let through from one address | |
| `RateLimiter` | `RateLimiter.ts`; implements `LeakyBucket` | `LeakyBucket` |
| `Accounts` | the accounts of the server: `setup.ts`, `api/user`, `api/admin` and the SQL under them | |
| `Registration` | the client's registration store over `Accounts` | `Accounts` |
| `RoomClient` | the client's room store (`lib/room/index.ts`) | `Room` |
| `RoomSystem` | one client and its peers composed with the room of the server | `RoomClient` |
| `ClientPolling` | the client's conversation and conversation list | |
| `MCRoom`, `MCBunRoom`, ... | instances for TLC | |
| `Room_proofs`, `Roster_proofs` | theorems about the room | `Room` |
| `BunRoom_proofs` | theorems about the room on Bun, its storage and its websockets | `BunRoom`, `Roster_proofs` |
| `Conversations_proofs`, `RateLimiter_proofs`, `Registration_proofs`, `ClientPolling_proofs` | theorems about each | the module of that name |
| `RoomSystem_proofs` | theorems about the client in its room | `RoomSystem`, `Roster_proofs` |

### Room

One action is one turn of the event loop. Cloudflare closes the input gate while
the object waits for its own storage and Bun's storage answers in a microtask, so
`Open` and `SendChat` are one action each. A login waits for the SQL database and, in
a gated room, for the chain: `RequestLogin`, then `LoginFails`, `LoginRepeats`,
`LoginOpenRoom` or `LoginGatedRoom`, and after the chain `ChainRefuses` or
`ChainPasses`. A suspended handler is a member of `logins` and holds its connection, not
a copy of the session: as in the code, whose closure holds the object, it reads
`session` again when it goes on, also after the session has left `sessions`. On Bun the
database answers before any other event (`EventLoopFree`).

`Deliver` is `broadcast()`: one order of the sends, as the recipients do not depend on
each other, with the set `F` of connections whose send throws. Only a connection whose
peer has gone throws, and only on Cloudflare; a queued frame does not throw. The quits
of `F` go out after the frame. Frames that one turn sends back to back are one frame that carries
a set. `Hibernate` is `instantiate` after an eviction: it may happen whenever no
handler is suspended, and takes the sessions from the attachments of the websockets that
the runtime still holds, which may include one whose close event has yet to come.

`gated` says whether the room's name carries an authorization; both kinds are initial
states of every run. A request refused by the rate limiter does not reach its handler
and is not a step of the room; `RoomSystem` has what it does to the client. Error replies, signatures and public keys are left out: a login
may fail or succeed. `sent` and `history` record what the clients were given and what
is stored; `requests` bounds the clients' requests.

### Conversations

A request takes two steps or more: the handler stamps it (`RequestSend`,
`RequestUpdate`), and later its statements are executed. With `transactional` (D1, libsql)
a send is `CommitSend` or, if a primary key is taken or a recipient is named twice,
`RollBackSend`, and requests of several users are under way at once. Without it (Bun) a
send is `ExecuteConversation`, then `ExecuteParticipant` and `ExecuteMessage` for each
recipient, then `AnswerSend`, or `AbortSend` at the message whose key is taken, which
leaves what was done; one handler runs at a time. `Crash` stops the server between any
two of these steps. Both kinds of database are initial states of every run. The two
calls of `Date.now()` in a send, for the timestamp and for the message id, are one.

`content` is the number of the request, which tells messages apart; `received` and
`answered` record what the clients asked and were told. Domain and namespace are part of
every key and fixed. Names, public keys, signatures and message types do not decide
anything here.

### BunRoom and ChatLog

`BunRoom` adds two variables to `Room`. `storage` is the `BidirectionalMap`: numbered entries
with their links, which `Set` appends to even for a key that is there. `Current` is the
cursor of its iterators, turn by turn; `Walk` is what the loop of `list()` meets within its
limit, `AsMap` the `Map` it makes of that, and `List` the two together. `websockets` is the adapter's own list. `history`
of `Room` is what a room expects of any storage, so `StorageIsHistory` compares the two.

`ChatLog` is what a room promises: readers come, are given the last messages and then every
message, and leave. `BunRoom` implements it with `log` as the history, the readers as
the open connections that have a session, and the view of a reader as what it was sent and what waits
in its queue; every other step is a stutter.

### RateLimiter and LeakyBucket

One address of the network: the limiter object and the clients of its connections, whose
calls pass through `first` (the POST is on its way), `served` (the answer is), and after a
first failure `second` and `reserved`; `Retry` and `ReportError` may happen before or after the
limiter has charged the call. Time is relative: `debt` is how far `nextAllowedTime` lies
ahead of now, `wait` what a timer has left, and `Tick` lets a second pass. `Evict` loses
the limiter's memory, `Hibernate` the flags of the room's sessions. The history variable
`level` is the level of a leaky bucket that every accepted message fills; `LeakyBucket` says how
high it may get, and the refinement that what is let through always fits: one grace period
for each life of the limiter, and one interval more for each connection.

### Accounts and Registration

`Accounts` is the server: a request is a task that is authenticated, handled and, on Bun,
executed in two statements. `transactional` is D1 or libsql. Setups and resets are members of `scripts`, with
the statements they have left; nothing serialises them, so that the statements of several interleave
with each other and with the requests, and a missing table makes a request fail. `recreated` records
that a setup, or another reset, has made DomainUsers again between the two drops of a reset: an
account registered then loses its row of Users when the second drop comes, and `AccountsAreComplete`
says that nothing else does that. Signatures are pairs of an address and a key.

`Registration` adds one client, its current account, its store, and what each answer, lost connection or
error does to it; `then` in a task is the continuation that waits for the answer. An account may be
without a signer (`Unsigned`): the store is idle then, but the address is still that of the account, so that
an answer under way for it is applied, as the code compares addresses only (`ChangedSince`).
`Register` is `register()` in any state of the store, as the registration flow calls it after a wallet has
signed, possibly for an account of before; `early` records that the store did not ask for it, which
`OnlyOldAnswersUnregister` needs to say when an old answer may undo what is shown. Other devices
register and edit with keys of their own.

### RoomClient and RoomSystem

`RoomClient` is the store of one client: `room` is `$room`, with the number of entries per
user in place of the list, and connections in place of the ids and challenges they were
given. A session field that is set to `undefined`, on which comparing ids throws, is not the
same as an absent one. `signing` holds the logins that wait for `signAsync`, which use the websocket of the
moment they go on. `RoomSystem` joins it with `Room` on Bun: connections deliver in order, may
break at any moment and lose what is under way, and each side is told of the end
on its own time. A client has two connections in the instance, the second one the reconnection. `Opens` is the
handshake at both ends: a browser calls `onopen` before it delivers a frame, so that the opening is always
handled before the challenge; the account may be there before, come while the websocket opens,
between opening and challenge, or after both. A message that reaches the server is handled (`Handle`)
or answered by an error frame (`Refuse`: over the rate limit, which Bun has too, or a chat message
that is empty or too long). The client does nothing with an error frame, so it is not a frame
of `sent`; `refused` records which connections had what refused, and `steady` that the registration has
not changed but from none to an account.

### ClientPolling

Both polling stores, which differ in `kind`. A loop is one chain of fetch and timer; `timeout`
is the loop that set a timer last, the only one that `stopFetching` clears. What
the server has is a version number, read when the server answers. `StartAnew` is a first
reader after the registration has changed: `derivedWithStartStopNotifier` calls `onStart`
with the registration of before, then hands on the new one. A registration changes from one
account to another through none, which `Registration` shows of the store.

## Runs

| Run | Instance | Shows |
| --- | --- | --- |
| `room_bun` | Bun, 2 connections, 2 users, clock 0 or 3 in any order, backlog 1, 4 requests | roster, quits, history views, gate and history order hold; storage and websockets of the adapter agree with the room; `ChatLog` is implemented |
| `room_cf` | Cloudflare, 3 connections, 2 users, 2 requests | the roster holds through throwing sends, interleaved logins and hibernation; attachments are always up to date |
| `room_ghost` | Cloudflare, 2 connections, 1 request | *violated*: a login that ends after the close announces a user for good |
| `room_clock` | Cloudflare, 2 connections, clock 1 or 3, 3 requests | *violated*: history order is lost across a hibernation |
| `conversations` | 2 users, 1 conversation, 5 kinds of recipient lists, 2 instants, 3 requests, one random number | tables agree, sends are atomic where batches are, dates and statuses are kept |
| `conversations_latest` | the client's sends only, 2 requests | *violated*: lastMessage goes back |
| `conversations_read` | 2 requests | *violated*: reading a conversation rejects it |
| `rate_limiter` | 2 connections, intervals of 2 s, grace of 4 s, 1 eviction | `LeakyBucket` is implemented, waits are bounded, refusals end |
| `registration` | 2 addresses, 2 keys (Alice has used both, Bob one of them), 3 requests, setups and resets among them, 3 changes of account, with and without a signer, both databases | accounts stay whole but for one order of setup and reset, handlers act for the owner of the key, the client shows the current account, requests end |
| `room_client` | 2 connections of the client, 1 peer, 2 users, 3 requests, 2 acts | the user list is the roster; logins shown on a session of its own connection are true; the first connection logs in wherever its account comes, unless a login is refused; as one account, no message of it stays pending but a refused one |
| `room_client_reconnect` | the same, 2 requests, no act | *violated*: after a reconnection the client shows a login that is not one |
| `client_polling` | 2 users, 5 loops, 2 versions, 7 acts | data of the right account, one loop unless a stop raced a fetch, eventual refresh |

Why the bounds are enough. A roster defect needs one observer and one connection that
changes; the third connection of `room_cf` is the one that throws meanwhile. Two users
give switches and simultaneous identities; four requests allow login, switch, logout and
login again, or login and three messages, more than the backlog of one holds, with
clock readings equal, rising and falling. In `conversations` two requests race and the
third finds what they left; a single random number makes any two sends of one instant
collide, two instants make the others differ. Two
connections, or users, are interchangeable in `Room`, so its runs use symmetry; they
check no liveness. Deadlock is not checked: the requests are
bounded and the system may stop when they are used up.

The bound of messages in `rate_limiter` is none: time is relative, so that the clients send
for ever in finitely many states. Two connections give the shared limiter; the times
are shorter than the code's 5 and 20 seconds, and still let a burst of several messages through. In `registration` the three requests are, for instance, a
profile, a registration and another device's, or a reset, a setup and the registration between them; a
lost connection leaves one of them running without its client. Three changes of account
are an account, the loss of its signer and its return, or two accounts and back. `MaxActs` bounds what the user does (changes of account, messages,
logins; in `client_polling` starts, stops and changes), and not what the network and the
timers do. `room_client` tells states apart by a VIEW: of frames already received only the accounts count
that they tell the first connection of, of the messages refused only logins and chats of the first
connection, and sessions that have left the room do not, as no action and no property of that run reads more of them. The last
connection of that instance does not break, as there is none to reconnect with. Seven acts
give two stops and starts with an account change between them, and five loops are
more than these leave running.

Fairness, where liveness is checked: in `rate_limiter` time passes, timers fire, a fetch
settles one way or another, and a connection that the room closes is closed in the end; no
client has to send anything. In `registration` the server handles the requests it has, and
answers arrive; nobody has to act and no request has to succeed. In `client_polling`
timers fire and the server answers, and the properties ask for no failing call
(`reliable`). These are what the runtime gives (timers, the event loop) and what HTTP gives at
best; the other modules state safety only.

`NothingLeftPending` and `FirstConnectionLogsIn` leave out what the server has refused: a chat message that was
stays pending, as the client ignores the error (`lib/room/index.ts:261-277`, whose comment leaves this
open), and a login that was is not tried again. They show that nothing else does so.
`NothingLeftPending` is also about sessions that the room has announced as one account only. Without that
it fails, with three acts of the user: a `joined` frame does not say which login it answers
(`lib/room/index.ts:176`), so that after a change of account and back, one for the earlier login
shows the client logged in before its last login has reached the server; the message it then
sends is refused, and stays pending. No document speaks of this case.

The five violated properties are findings, with the quoted comments in `PROJECT.json`.
The room ones concern the behaviour after `Room.ts:277` and the field at `Room.ts:34`;
the conversation ones `RemoteSQLStorage.ts:260` and `:235`; the client's one
`lib/room/index.ts:180`. One more disagreement has no run of its own: the conversation list, said
to keep fetching (`lib/conversationList/index.ts:18`), sets a timer only if there was one
(`:66`), and so is fetched once; `GoesOn` in `ClientPolling` is that line.

Every definition `MutX` is `X` with a plausible bug. It is not used by the
specifications: replacing the body of `X` by it makes a property fail, which shows
that the property depends on that part of the code.

## Proofs

Every theorem holds for all values of the constants that the named assumptions of the
modules allow: any connections, users, clocks, intervals and bounds. Where one is about one
platform, `Platform` is its hypothesis. Lists of lemmas are left to the modules; what
follows is the argument of each theorem and the invariant it needed.

`Room_proofs`:

* `TypeCorrect`: `Spec => []TypeOK`, on both platforms. Lemmas give the types of what
  each helper returns (`DeliverType`, `BurstType`, `PutProperties`, ...), the step lemma
  `TypeStep` has one step per action.
* `HistoryOrdered`: on Bun, `Spec => HistoryGrowsAtItsEnd`. The invariant that makes it
  inductive is `HistoryBelowLast`: no stored message is newer than `lastTimestamp`. It is
  what hibernation breaks on Cloudflare, and the assumption `Platform = "bun"` is used
  there only.
* `GateCorrect`: `Spec => []GateHolds`, on both platforms. `GateHolds` alone is not
  inductive: a hibernation could forget an authorization after frames were sent. The
  invariant `GateInvariant` adds that attachment and session agree on `authorized`.

`Roster_proofs`:

* `RosterCorrect`: `Spec => []RosterExact`, on both platforms. What a client was announced
  depends on frames of many steps and on who threw in between. `RosterInvariant` says what
  every connection that receives broadcasts has been told of every connection that is
  listed (`Known`, `Listed`), that an open connection has a session and a new one none, that
  a login that goes on belongs to a connection that was opened, and that attachments have
  the addresses of the sessions. It is proved for rooms without gate, which the property is
  about, through `Deliver` and the quits that follow a throwing send.
* `EvictionsGoUnnoticed`: on Cloudflare, `Spec => []HibernationIsTransparent`, from the same
  invariant.
* `QuitsFollowJoins`: on Bun, `Spec => []QuitFollowsJoin`. `QuitsFit` says of a sequence of
  frames that each quit follows a join; every burst of frames keeps it, given the roster.

`BunRoom_proofs`, on Bun:

* `ViewsCorrect`: `Spec => []ViewIsHistorySuffix`. `HistoryInvariant` adds to the types and
  `HistoryBelowLast` that only a connection that waits in a gated room has a queue
  (`QueuesFit`). Each action is then one of four kinds of step of the views: one
  reader comes with the backlog, one leaves, all are given one message that is appended to
  the history, or nothing changes (`ViewsStep`). Flushing a queue is of the last kind.
* `LogShown`: `BunSpec => ShowsOneLog`, the refinement of `ChatLog`; those four kinds are its
  actions and its stutter.
* `SocketsAgree`: `BunSpec => []SameSockets`. `SocketsFit` adds that the list repeats no
  websocket, so that splicing at the first place takes out the only one, and that a new
  connection has no session.
* `StorageAgrees`: `BunSpec => []StorageIsHistory`. `StorageFits` says that the storage is
  `Chain(history)`, one entry per message linked both ways, and that timestamps rise, so that no
  key is given twice. `CurrentIs` and `WalkIs` say what an iterator meets, `AsMapIs` what the
  `Map` made of it holds; `ListForward` and `ListBackward` put them together for a chain, for
  any limit.

`Conversations_proofs`, for both kinds of database:

* `TypeCorrect`: `Spec => []TypeOK`.
* `MessagesListed`: `Spec => []EveryMessageListed`. The property is not inductive on Bun,
  where a message is inserted steps after its participant: `TablesFit` adds that a send
  whose counter has passed a statement has its row, and `TasksStay` that the steps of
  other tasks take no row away.
* `OthersCannotLower`: `Spec => OnlyOwnRequestsLower`, from the types alone, with one case
  for each statement that writes a participant (`RowStep`).
* `SendsAreWhole`: `Spec => []SendIsAllOrNothing`. The invariant `SendsFit` says that
  requests have numbers of their own, that each stored message is a row of one send, that
  a send under way on Bun has stored what its counter says, that an answered send is
  stored for everyone and, in a transaction, any send for everyone or nobody.
  `SendsFitSuffices` turns it into the property, `NothingStored` serves the steps that
  write no message, `OneSendStored` those that do.
* `DatesCorrect`: `Spec => []DatesAreOfMessages`. `RowsDated` is the property date by date;
  messages are never removed, and where it applies (`AllAddressed`: transactions, and no send to
  nobody) the statement that sets a date commits with the message it is the date of.

`RateLimiter_proofs`:

* `TypeCorrect`: `Spec => []TypeOK`, for any connections, intervals and grace period.
* `WaitsBounded`: `Spec => []WaitBounded`. What a connection is told is the debt when the
  limiter serves it, so `DebtFits` bounds the debt: by the grace period and the calls
  under way, each charged once, or twice if its first answer was lost, and, for each connection
  that is free to send, by what that one was told and the newer calls of the others. `FlagsFit`
  ties the cooldown flag, the call and the timer of a connection to each other.
* `BucketImplemented`: `Spec => FitsTheBucket`, the refinement of `LeakyBucket`. `LevelFits` is
  the invariant of what was let through: not above the debt but for the messages not yet charged
  (`Uncharged`), not above what a free connection was told but for newer messages of the others
  (`Ahead`), and not above the bucket; each life of the limiter adds what it has forgotten.

`Registration_proofs`, about `Accounts` under `Registration`, for both kinds of database:

* `TypeCorrect`: `Spec => []TypeOK`. `TypeInvariant` adds the forms a script and a task can
  have, and `KeysUnique`, that the tables keep their primary keys.
* `SignaturesAreForKeys`: `Spec => []SignatureIsForKey`; `Signed` carries the handler's check
  over to the second statement of a batch on Bun.
* `AccountsComplete`: `Spec => []AccountsAreComplete`, for any number of setups and resets at once.
  `Complete` adds that while a reset is between its drops (`Halfway`), and none has made DomainUsers again, that table is
  missing, so that no batch can start; and what a batch half way has written.
* `ActsForOwner`: `Spec => []ActsForOwnerOfKey`, and `RegistrationsStay`: `Spec =>
  RegistrationIsKept`; before the first reset no script has a statement that drops (`NoDrops`), and the first
  key an account was given stays.
* `CurrentAccountShown`: `Spec => []ShowsCurrentAccount`. Inductive with the stores that show
  a registered user and an error (`Current`), which the property leaves out and the
  next answer turns into stores that it does not. It needs of an account that it changes when its address does,
  and no more: an answer for an account that has lost its signer is one of the cases.
* `RegisteredUsersShown`: `Spec => []ShowsRegisteredUsers`; `UsersKnown` says it of the answers
  that are under way too, and rows stay until a reset.
* `OldAnswersUnregister`: `Spec => OnlyOldAnswersUnregister`. With at most one change of
  account, and no `register()` that the store did not ask for, no other call waits while a profile is being fetched
  (`FirstFetch`), so that no late answer can find a user to take back; after that the answer that does is
  shown to be an old one, by the rows that stay (`UsersKnown`).

`ClientPolling_proofs`:

* `TypeCorrect`: `Spec => []TypeOK`.
* `OwnDataShown`: `Spec => []ShowsOwnData`. The property says nothing of the loops, whose
  answers make it true or false later. `LoopsFit` adds which account signs each of them: in
  the list that of the address it is made for, in a conversation the one it was opened
  for; and that the list never has a timer. `StateFits` adds what the registration has to do with
  a state that is still fetching. One lemma gives what each helper does to the loops (`FetchEndsFits`,
  `StopFits`, ...), one the step of each action.
* `OneLoopOnly`: `Spec => []OneLoopUnlessRaced`, and `AnswersInOrder`: `Spec =>
  OlderOnlyIfRaced`. Until a stop has raced a fetch, `LoopsAlone` says of a store that is not
  idle that it has one loop at most and none without readers, that the loop is of the account the
  store knows, that it waits on the timer which `stopFetching` clears, and that what it was
  answered is not older than what is shown; an idle list has none. `VersionsFit` adds that no
  version is above the server's.

`RoomSystem_proofs`, about one client in the room of the server on Bun. The constants are as
`OwnAssumption` and `FieldAssumption` say: finitely many connections, as entries are counted, of
which any may be the client's own; `Platform = "bun"` is the hypothesis of every theorem, and
`RoomSystem` is about rooms open to all. All five rest on an invariant of two parts.
`ServerInv` is the room's: its types and roster (`RoomInv`, from `Roster_proofs`), and that the
frames sent to every connection, also to those that have gone, announce a presence only while it
is not announced and end it only while it is (`StreamsFit`), so that a client which counts is
never out by one. `ClientInv` is the client's: its types, that the websocket is the only one that is
connecting or open (`WiresFit`), and which status goes with which address and session
(`StatusFits`). `SystemTurns` says that each step is a turn of the room or a stutter of it, and
one of five kinds of step of the client.

* `ClientTypeCorrect`: `SystemSpec => []ClientTypeOK`, from these two.
* `LoggedInWhereItSays`: `SystemSpec => []LoggedInOnItsSession`. `LoginTold`: by the frames it has
  received so far (`Received`), a client that shows itself logged in on the session of its
  connection is. Once it has received all, `UpToDateFits` turns that into the session of the room.
* `UsersListed`: `SystemSpec => []UsersAreTheRoster`. `UsersTold`: the number of entries of a user is
  the number of presences of that user announced in `Received`, unless an error was reported.
* `MessagesAreEchoed`: `SystemSpec => []NothingLeftPending`. `FirstsFit` says that the first
  connection knows of no session but its own. Unless a chat message was refused, `Exchange` follows what is under way between the two, both
  ways: a pending message is, or its echo is; a client that is shown logged in, or will be by a frame
  under way, is logged in at the server until its logout arrives; nothing but logins follows a
  logout; and a frame that announces the session is the last that tells of it.
* `FirstLogsIn`: `SystemSpec => []FirstConnectionLogsIn`. While the account only comes and no login was refused,
  `Hears` says of what the client has received that it waits for the challenge, which is under way to it, or has
  it, that with an account it then waits to log in, and that it is shown logged in as soon as it has heard so. `Sends`
  says of what it has sent that nothing is under way without both account and challenge, and that with both a
  signature, a message or a login is, until the session is logged in, each of them for that challenge and account,
  so that none fails. `Steady` ties the account that the client knows to the registration, and
  `OneLogin` is the serial event loop of Bun: a login ends before another comes.

Only model-checked:

* liveness, which is out of the prover's reach: `FetchingEnds` and `ReachesLatest` of the
  polling stores, `RequestsEnd` of the registration, `CooldownEnds` of the limiter;
* the violations.

Every invariant and every action property of a passing run is a theorem.

## Plan

The modules and the theorems of the plan are written. What would come next:

1. A mailbox as the abstract specification of the transactional `Conversations`.
2. A second client in `RoomSystem` in place of the peers, to follow a message from one page to
   another.

## Not modelled

Cryptography, the text and the encryption of messages, HTTP and CORS, the input schemas,
the database engine (its statements are atomic, its keys unique), logging and the user
interface. Of the room adapters, the upgrade of a request and the operations of Bun's storage
that nothing calls (`get`, `delete`, `deleteAll`). Of the conversation store, the cache of
decrypted messages, and `acceptConversation`, which it sends without waiting. The steps that
the registration flow of the demo application shows are a dialogue of one page; its call of `register()` and the
automatic one are `Register` in `Registration`. Foreign keys are not enforced, as in SQLite unless it is asked
to; where a database does enforce them, the drop of Users that leaves an account incomplete fails instead. The Node server has neither rooms nor a limiter, and its database
is the transactional case of `Conversations` and `Accounts`.
