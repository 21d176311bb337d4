------------------------------- MODULE Accounts -------------------------------
(***************************************************************************)
(* The accounts of the server: the tables Users and DomainUsers, for one   *)
(* domain, with the handlers register, editUser and getCompleteUser of     *)
(* packages/server/src/api/user/index.ts, the middleware that finds the    *)
(* account of the key that signed a request (setup.ts), and the scripts    *)
(* that create the tables and, in development, drop them (admin, setup and *)
(* reset of RemoteSQLStorage).                                             *)
(*                                                                         *)
(* The middleware asks the database and the handler asks it again later,   *)
(* so that other requests run in between.  A batch of two statements is a  *)
(* transaction on D1 and libsql; on Bun it stays as far as it got when it  *)
(* fails or the server stops.  Setups and resets await each statement and  *)
(* hold no lock, so that several run at once, with requests in between.    *)
(*                                                                         *)
(* This module has no Next of its own: Registration composes it with the   *)
(* clients that make the requests.                                         *)
(***************************************************************************)
EXTENDS Integers, Sequences, FiniteSets

CONSTANTS
    Credentials,  \* [address, key]: the keys that each address has signed for
    Names,        \* user names
    NoName,       \* a name that is NULL, or not given
    Nobody,       \* no account found, no user returned
    MaxRequests   \* bound on the requests, setups and resets among them

ASSUME CredentialAssumption ==
    \A c \in Credentials : c = [address |-> c.address, key |-> c.key] /\ c.address # Nobody
ASSUME NoNameAssumption == NoName \notin Names
ASSUME RequestsAssumption == MaxRequests \in Nat

VARIABLES
    transactional,  \* a batch is one transaction
    tables,         \* tables that exist
    scripts,        \* setups and resets, with the statements yet to be run
    resets,         \* resets so far
    recreated,      \* DomainUsers was made again between the drops of a reset
    users,          \* table Users: [address, name]
    domainUsers,    \* table DomainUsers: [user, key, signature, username]
    tasks,          \* requests, until their client has the answer
    requests        \* requests made so far

schemaVars  == <<transactional, tables, scripts, resets, recreated>>
accountVars == <<schemaVars, users, domainUsers, tasks, requests>>

-----------------------------------------------------------------------------
(* Requests.  "then" is what the client does with the answer; "nobody"     *)
(* waits for it once the client has lost the connection or is another one. *)

Addresses == {c.address : c \in Credentials}
Keys      == {c.key : c \in Credentials}

Row(u) == {r \in users : r.address = u}
DomainRow(u) == {r \in domainUsers : r.user = u}

\* coalesce(new, old): NULL keeps what was there.
MutCoalesce(new, old) == new

Coalesce(new, old) == IF new = NoName THEN old ELSE new

Task(id, op, c, signed, name, then) ==
    [id |-> id, op |-> op, address |-> c.address, key |-> c.key,
     signature |-> signed, name |-> name, step |-> "sent", account |-> Nobody,
     result |-> Nobody, then |-> then]

Request(op, c, signed, name, then) ==
    /\ requests < MaxRequests
    /\ requests' = requests + 1
    /\ tasks' = tasks \cup {Task(requests, op, c, signed, name, then)}

\* The task goes on, or ends with an answer that its client waits for.
Advance(t, next) ==
    tasks' = (tasks \ {t}) \cup
      (IF next.step \in {"ok", "failed"} /\ t.then = "nobody" THEN {} ELSE {next})

Fail(t) == Advance(t, [t EXCEPT !.step = "failed"])

-----------------------------------------------------------------------------
(* The handlers. *)

\* getDomainUserByPublicKey: the row with that key, if there is exactly one.
AccountOf(key) ==
    LET rows == {r \in domainUsers : r.key = key}
    IN  IF Cardinality(rows) = 1 THEN (CHOOSE r \in rows : TRUE).user ELSE Nobody

\* The middleware: the account of the key that signed.  The handler of
\* editUser throws if there is none.
Authenticate(t) ==
    /\ t.step = "sent" /\ t.op \in {"register", "edit"}
    /\ IF "DomainUsers" \notin tables
         THEN Fail(t)
         ELSE LET account == AccountOf(t.key)
              IN  IF t.op = "edit" /\ account = Nobody THEN Fail(t)
                  ELSE Advance(t, [t EXCEPT !.step = "handled", !.account = account])
    /\ UNCHANGED <<schemaVars, users, domainUsers, requests>>

\* A plain insert, into a table without its key.
MutUpsertUser(u, name) == users \cup {[address |-> u, name |-> name]}

\* First statement of register: INSERT INTO Users ... ON CONFLICT DO UPDATE.
UpsertUser(u, name) ==
    LET old == Row(u)
    IN  (users \ old) \cup
          {[address |-> u,
            name |-> IF old = {} THEN name
                     ELSE Coalesce(name, (CHOOSE r \in old : TRUE).name)]}

\* UNIQUE(publicKey): another user has the key.  The conflict on (user, domain)
\* is looked at first, and turns the insert into an update.
KeyTaken(t) ==
    t.op = "register" /\ DomainRow(t.address) = {} /\ \E r \in domainUsers : r.key = t.key

\* The update takes the new key and keeps the old signature.
MutUpsertDomainUser(t) ==
    LET old == DomainRow(t.address)
        row == CHOOSE r \in old : TRUE
    IN  (domainUsers \ old) \cup
          {IF old = {}
             THEN [user |-> t.address, key |-> t.key, signature |-> t.signature,
                   username |-> t.name]
             ELSE [row EXCEPT !.username = Coalesce(t.name, @), !.key = t.key]}

\* Second statement of register; the update leaves key and signature alone.
UpsertDomainUser(t) ==
    LET old == DomainRow(t.address)
        row == CHOOSE r \in old : TRUE
    IN  (domainUsers \ old) \cup
          {IF old = {}
             THEN [user |-> t.address, key |-> t.key, signature |-> t.signature,
                   username |-> t.name]
             ELSE [row EXCEPT !.username = Coalesce(t.name, @)]}

\* Statements of editUser: UPDATE ... WHERE, of rows that may not exist.
EditedUsers(t) ==
    {IF r.address = t.account THEN [r EXCEPT !.name = Coalesce(t.name, @)] ELSE r :
       r \in users}
EditedDomainUsers(t) ==
    {IF r.user = t.account THEN [r EXCEPT !.username = Coalesce(t.name, @)] ELSE r :
       r \in domainUsers}

\* What the two statements of a batch write.
FirstStatement(t) ==
    IF t.op = "register" THEN UpsertUser(t.address, t.name) ELSE EditedUsers(t)
SecondStatement(t) ==
    IF t.op = "register" THEN UpsertDomainUser(t) ELSE EditedDomainUsers(t)

\* The handler of register recovers who signed for which key, and compares
\* that to the address in the request and to the key that signed it.
Refused(t) ==
    t.op = "register" /\ t.signature # [address |-> t.address, key |-> t.key]

Refuse(t) ==
    /\ t.step = "handled"
    /\ \/ Refused(t)
       \/ ~({"Users", "DomainUsers"} \subseteq tables)
       \/ transactional /\ KeyTaken(t)
    /\ Fail(t)
    /\ UNCHANGED <<schemaVars, users, domainUsers, requests>>

\* Both statements prepared, which needs both tables.
Executable(t) ==
    /\ t.step = "handled"
    /\ ~Refused(t)
    /\ {"Users", "DomainUsers"} \subseteq tables

\* register or editUser as one transaction.
Commit(t) ==
    /\ transactional
    /\ Executable(t) /\ ~KeyTaken(t)
    /\ users' = FirstStatement(t)
    /\ domainUsers' = SecondStatement(t)
    /\ Advance(t, [t EXCEPT !.step = "ok"])
    /\ UNCHANGED <<schemaVars, requests>>

\* Bun: the first statement, then the second, or an error.  Everything runs in
\* microtasks, so that no other request comes in between.
ExecuteFirst(t) ==
    /\ ~transactional
    /\ Executable(t)
    /\ users' = FirstStatement(t)
    /\ Advance(t, [t EXCEPT !.step = "second"])
    /\ UNCHANGED <<schemaVars, domainUsers, requests>>

ExecuteSecond(t) ==
    /\ t.step = "second"
    /\ ~KeyTaken(t)
    /\ domainUsers' = SecondStatement(t)
    /\ Advance(t, [t EXCEPT !.step = "ok"])
    /\ UNCHANGED <<schemaVars, users, requests>>

AbortSecond(t) ==
    /\ t.step = "second"
    /\ KeyTaken(t)
    /\ Fail(t)
    /\ UNCHANGED <<schemaVars, users, domainUsers, requests>>

\* getCompleteUser: the join of both rows.
CompleteUser(u) ==
    LET rows == DomainRow(u)
    IN  IF rows = {} \/ Row(u) = {} THEN Nobody
        ELSE [key  |-> (CHOOSE r \in rows : TRUE).key,
              name |-> (CHOOSE r \in Row(u) : TRUE).name]

GetCompleteUser(t) ==
    /\ t.step = "sent" /\ t.op = "get"
    /\ IF {"Users", "DomainUsers"} \subseteq tables
         THEN Advance(t, [t EXCEPT !.step = "ok", !.result = CompleteUser(t.address)])
         ELSE Fail(t)
    /\ UNCHANGED <<schemaVars, users, domainUsers, requests>>

-----------------------------------------------------------------------------
(* The schema. *)

Creation == <<"create Users", "create DomainUsers">>

\* DomainUsers is dropped after Users.
MutDropping == <<"drop Users", "drop DomainUsers">>

Dropping == <<"drop DomainUsers", "drop Users">>

Runs(statements) ==
    /\ requests < MaxRequests
    /\ requests' = requests + 1
    /\ scripts' = scripts \cup {[id |-> requests, left |-> statements]}
    /\ UNCHANGED <<transactional, tables, recreated, users, domainUsers, tasks>>

\* POST /db-reset, in development.
Reset == Runs(Dropping \o Creation) /\ resets' = resets + 1

\* A request with _initDB: CREATE TABLE IF NOT EXISTS.
Setup == Runs(Creation) /\ UNCHANGED resets

\* What a statement of a setup or a reset does to the tables.
Executed(statement) ==
    /\ tables' = CASE statement = "create Users"       -> tables \cup {"Users"}
                   [] statement = "create DomainUsers" -> tables \cup {"DomainUsers"}
                   [] statement = "drop Users"         -> tables \ {"Users"}
                   [] statement = "drop DomainUsers"   -> tables \ {"DomainUsers"}
    /\ users' = IF statement = "drop Users" THEN {} ELSE users
    /\ domainUsers' = IF statement = "drop DomainUsers" THEN {} ELSE domainUsers

\* A reset has dropped DomainUsers and is about to drop Users.
BetweenDrops(r) == Head(r.left) = "drop Users"

\* setup() and reset() run their statements one at a time.
RunStatement(r) ==
    /\ \A t \in tasks : t.step # "second"
    /\ Executed(Head(r.left))
    /\ scripts' = (scripts \ {r}) \cup
         (IF Tail(r.left) = <<>> THEN {} ELSE {[r EXCEPT !.left = Tail(@)]})
    /\ recreated' = (\/ recreated
                     \/ Head(r.left) = "create DomainUsers" /\ \E q \in scripts : BetweenDrops(q))
    /\ UNCHANGED <<transactional, resets, tasks, requests>>

\* The server stops: every request ends without an answer, and a batch of Bun
\* stays as it is.
Crash ==
    /\ scripts # {} \/ \E t \in tasks : t.step \notin {"ok", "failed"}
    /\ tasks' = {[t EXCEPT !.step = IF @ = "ok" THEN "ok" ELSE "failed"] :
                   t \in {q \in tasks : q.then # "nobody"}}
    /\ scripts' = {}
    /\ UNCHANGED <<transactional, tables, resets, recreated, users, domainUsers, requests>>

AccountsInit ==
    /\ transactional \in BOOLEAN
    /\ tables = {"Users", "DomainUsers"}
    /\ scripts = {}
    /\ resets = 0
    /\ recreated = FALSE
    /\ users = {}
    /\ domainUsers = {}
    /\ tasks = {}
    /\ requests = 0

\* What is under way on Bun runs to its end first.
Undisturbed(t) == \A q \in tasks : q.step = "second" => q = t

ServerStep(t) ==
    /\ Undisturbed(t)
    /\ \/ Authenticate(t) \/ Refuse(t) \/ Commit(t)
       \/ ExecuteFirst(t) \/ ExecuteSecond(t) \/ AbortSecond(t)
       \/ GetCompleteUser(t)
=============================================================================
