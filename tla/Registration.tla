----------------------------- MODULE Registration -----------------------------
(***************************************************************************)
(* The registration store of a client                                      *)
(* (packages/client/src/lib/registration/index.ts) over the accounts of    *)
(* the server, with other devices that register and edit too.              *)
(*                                                                         *)
(* The user switches accounts, and signs in and out of them, at any time.  *)
(* Every answer of the server finds the store as the switches since the    *)
(* request have left it. The client's call of the API fails when the       *)
(* server answers an error or the network does, whether or not the server  *)
(* has done what it was asked.                                             *)
(***************************************************************************)
EXTENDS Accounts

CONSTANTS
    OwnAccounts, \* credentials of the accounts of this client
    NoKey,       \* the key of an account without a signer
    NoAccount,   \* no account
    MaxSwitches  \* bound on the changes of account

ASSUME OwnAssumption ==
    /\ OwnAccounts \subseteq Credentials
    /\ NoKey \notin Keys
    /\ NoAccount \notin [address : Addresses, key : Keys \cup {NoKey}]
ASSUME SwitchesAssumption == MaxSwitches \in Nat

VARIABLES
    account,   \* _account
    store,     \* $missivRegistration
    switches,  \* changes of account so far
    early      \* register() has been called when the store did not ask for it

clientVars == <<account, store, switches, early>>
vars == <<accountVars, clientVars>>

Idle == [step |-> "Idle", of |-> NoAccount, busy |-> FALSE, user |-> Nobody,
         error |-> FALSE]

\* busy is "registering" or "editing".
Store(step, c, busy, user, error) ==
    [step |-> step, of |-> c, busy |-> busy, user |-> user, error |-> error]

Credential(t) == [address |-> t.address, key |-> t.key]

\* An account without a signer has an address, and nobody signs for it.
Unsigned     == [address : {c.address : c \in OwnAccounts}, key : {NoKey}]
HasSigner(a) == a \in OwnAccounts

\* What the client may be told of the account.
AnyAccount == OwnAccounts \cup Unsigned \cup {NoAccount}

Init ==
    /\ AccountsInit
    /\ account = NoAccount
    /\ store = Idle
    /\ switches = 0
    /\ early = FALSE

\* "address !== _account?.address": the account change in between, ignore.
MutChangedSince(t) == FALSE

\* A signer that is lost, or another one, is no change.
ChangedSince(t) == account = NoAccount \/ account.address # t.address

-----------------------------------------------------------------------------
(* The user, and the calls of the store's methods. *)

\* Only another signer counts as a change: an account that has none stays the
\* _account when it is replaced by another without one, or by no account.
Changes(c) ==
    \/ HasSigner(c) # HasSigner(account)
    \/ HasSigner(c) /\ HasSigner(account) /\ c.key # account.key

\* The store shows that nobody is registered until the profile is there.
MutSwitchAccount(c) ==
    /\ switches < MaxSwitches
    /\ switches' = switches + 1
    /\ Changes(c)
    /\ account' = c
    /\ IF HasSigner(c)
         THEN /\ store' = Store("Unregistered", c, FALSE, Nobody, FALSE)
              /\ Request("get", c, c, NoName, "fetch")
         ELSE /\ store' = Idle
              /\ UNCHANGED <<tasks, requests>>
    /\ UNCHANGED <<schemaVars, users, domainUsers, early>>

\* onAccountChanged: fetch the profile, or nothing to do.
SwitchAccount(c) ==
    /\ switches < MaxSwitches
    /\ switches' = switches + 1
    /\ Changes(c)
    /\ account' = c
    /\ IF HasSigner(c)
         THEN /\ store' = Store("Fetching", c, FALSE, Nobody, FALSE)
              /\ Request("get", c, c, NoName, "fetch")
         ELSE /\ store' = Idle
              /\ UNCHANGED <<tasks, requests>>
    /\ UNCHANGED <<schemaVars, users, domainUsers, early>>

\* register(): for the account of this moment, with a signature that the user
\* gave for one, whatever the store shows: the automatic registration calls it
\* when the store asks for it, the registration flow when a wallet has signed.
Register(signed, name) ==
    /\ HasSigner(account)
    /\ early' = (early \/ store.step # "Unregistered" \/ store.busy)
    /\ store' = Store("Unregistered", account, TRUE, Nobody, FALSE)
    /\ Request("register", account, signed, name, "register")
    /\ UNCHANGED <<schemaVars, users, domainUsers, account, switches>>

\* edit()
Edit(name) ==
    /\ HasSigner(account)
    /\ store.step = "Registered"
    /\ store' = [store EXCEPT !.busy = TRUE, !.error = FALSE]
    /\ Request("edit", account, account, name, "edit")
    /\ UNCHANGED <<schemaVars, users, domainUsers,
                   account, switches, early>>

-----------------------------------------------------------------------------
(* Answers, and the errors of the calls. *)

Done(t, then) == t.step = "ok" /\ t.then = then

Ends(t) == tasks' = tasks \ {t}

Shown(t, user) ==
    IF user = Nobody THEN Store("Unregistered", Credential(t), FALSE, Nobody, FALSE)
    ELSE Store("Registered", Credential(t), FALSE, user, FALSE)

\* The profile arrives.
FetchEnds(t) ==
    /\ Done(t, "fetch")
    /\ Ends(t)
    /\ store' = IF ChangedSince(t) THEN store ELSE Shown(t, t.result)
    /\ UNCHANGED <<schemaVars, users, domainUsers,
                   requests, account, switches, early>>

\* register() goes on to fetch the profile; so does edit(), for the account
\* that it was called with.
CallGoesOn(t) ==
    /\ Done(t, "register") \/ Done(t, "edit")
    /\ tasks' = (tasks \ {t}) \cup
         {Task(t.id, "get", Credential(t), Credential(t), NoName,
               IF t.then = "register" THEN "registered" ELSE "edited")}
    /\ UNCHANGED <<schemaVars, users, domainUsers,
                   requests, clientVars>>

\* The end of register(): an error if the profile is not there.
RegisterEnds(t) ==
    /\ Done(t, "registered")
    /\ Ends(t)
    /\ store' = IF ChangedSince(t) THEN store
                ELSE IF t.result = Nobody
                  THEN Store("Unregistered", Credential(t), FALSE, Nobody, TRUE)
                  ELSE Shown(t, t.result)
    /\ UNCHANGED <<schemaVars, users, domainUsers,
                   requests, account, switches, early>>

\* The end of edit(): an error, with the user shown before, if it is not there.
EditEnds(t) ==
    /\ Done(t, "edited")
    /\ Ends(t)
    /\ store' = IF ChangedSince(t) THEN store
                ELSE IF t.result = Nobody
                  THEN Store("Registered", Credential(t), FALSE, store.user, TRUE)
                  ELSE Shown(t, t.result)
    /\ UNCHANGED <<schemaVars, users, domainUsers,
                   requests, account, switches, early>>

\* A profile that cannot be fetched is not reported.
MutStoreAfterError(t) ==
    CASE t.then \in {"fetch", "edit", "edited"} -> store
      [] t.then \in {"register", "registered"} ->
           IF t.then = "registered" /\ ChangedSince(t) THEN store
           ELSE Store("Unregistered", Credential(t), FALSE, Nobody, TRUE)

\* What the store is set to when a call throws.  The account is compared only
\* after a registration that the server has answered, where the failure to
\* fetch the profile counts as no profile; edit() sets nothing.
StoreAfterError(t) ==
    CASE t.then = "fetch" -> Store("Fetching", Credential(t), FALSE, Nobody, TRUE)
      [] t.then = "register" ->
           Store("Unregistered", Credential(t), FALSE, Nobody, TRUE)
      [] t.then = "registered" ->
           IF ChangedSince(t) THEN store
           ELSE Store("Unregistered", Credential(t), FALSE, Nobody, TRUE)
      [] t.then \in {"edit", "edited"} -> store

\* The call throws: the server answers with an error, or the connection is
\* lost, and then the server goes on with the request.
CallThrows(t) ==
    /\ t.then # "nobody"
    /\ \/ t.step \in {"ok", "failed"} /\ tasks' = tasks \ {t}
       \/ /\ t.step \notin {"ok", "failed"}
          /\ tasks' = (tasks \ {t}) \cup {[t EXCEPT !.then = "nobody"]}
    /\ store' = StoreAfterError(t)
    /\ UNCHANGED <<schemaVars, users, domainUsers,
                   requests, account, switches, early>>

\* Another device of a user.
OtherDevice(op, c, name) ==
    /\ Request(op, c, c, name, "nobody")
    /\ UNCHANGED <<schemaVars, users, domainUsers,
                   clientVars>>

-----------------------------------------------------------------------------
Next ==
    \/ \E c \in AnyAccount : SwitchAccount(c)
    \/ \E c \in OwnAccounts, name \in Names : Register(c, name)
    \/ \E name \in Names : Edit(name)
    \/ \E c \in Credentials, name \in Names \cup {NoName} :
         OtherDevice("register", c, name)
    \/ \E c \in OwnAccounts, name \in Names : OtherDevice("edit", c, name)
    \/ \E t \in tasks :
         \/ ServerStep(t) /\ UNCHANGED clientVars
         \/ FetchEnds(t) \/ CallGoesOn(t) \/ RegisterEnds(t) \/ EditEnds(t)
         \/ CallThrows(t)
    \/ \E r \in scripts : RunStatement(r) /\ UNCHANGED clientVars
    \/ (Reset \/ Setup \/ Crash) /\ UNCHANGED clientVars

\* The server handles what it is sent, and answers arrive.
Fairness ==
    WF_vars(\E t \in tasks : \/ ServerStep(t) /\ UNCHANGED clientVars
                             \/ FetchEnds(t) \/ CallGoesOn(t) \/ RegisterEnds(t)
                             \/ EditEnds(t) \/ (t.step = "failed" /\ CallThrows(t)))

Spec == Init /\ [][Next]_vars /\ Fairness

-----------------------------------------------------------------------------
(* Properties. *)

UserShown == [key : Keys, name : Names \cup {NoName}]

TaskSet ==
    [id : 0..MaxRequests, op : {"register", "edit", "get"}, address : Addresses,
     key : Keys, signature : Credentials, name : Names \cup {NoName},
     step : {"sent", "handled", "second", "ok", "failed"},
     account : Addresses \cup {Nobody}, result : UserShown \cup {Nobody},
     then : {"fetch", "register", "registered", "edit", "edited", "nobody"}]

\* Every variable keeps its type; each address has one row at most in a table.
TypeOK ==
    /\ transactional \in BOOLEAN
    /\ tables \subseteq {"Users", "DomainUsers"}
    /\ resets \in 0..requests /\ recreated \in BOOLEAN /\ early \in BOOLEAN
    /\ users \subseteq [address : Addresses, name : Names \cup {NoName}]
    /\ domainUsers \subseteq [user : Addresses, key : Keys, signature : Credentials,
                              username : Names \cup {NoName}]
    /\ \A u \in Addresses : Cardinality(Row(u)) <= 1 /\ Cardinality(DomainRow(u)) <= 1
    /\ tasks \subseteq TaskSet
    /\ requests \in 0..MaxRequests /\ switches \in 0..MaxSwitches
    /\ account \in AnyAccount
    /\ store \in [step : {"Idle", "Fetching", "Unregistered", "Registered"},
                  of : Credentials \cup {NoAccount}, busy : BOOLEAN,
                  user : UserShown \cup {Nobody}, error : BOOLEAN]

\* The stored signature of an account is by its address and for its key: it
\* is what a peer would check before it trusts the key.
SignatureIsForKey ==
    \A r \in domainUsers : r.signature = [address |-> r.user, key |-> r.key]

\* As long as nothing is reset, a handler acts for the account that owns the
\* key of the request, although the middleware has looked it up earlier.
ActsForOwnerOfKey ==
    resets = 0 =>
      \A t \in tasks : t.account # Nobody =>
        \E r \in domainUsers : r.user = t.account /\ r.key = t.key

\* No account is without its Users row, which every reader joins, when a
\* registration stops half way on Bun, when a reset or a setup does, and when
\* several of them run with requests in between, unless one has made DomainUsers
\* again between the two drops of a reset.
AccountsAreComplete == ~recreated => \A r \in domainUsers : Row(r.user) # {}

\* What is registered stays: nothing but a reset takes away an account, its
\* key, or a name once given.
RegistrationIsKept ==
    [][resets = 0 =>
         /\ \A r \in domainUsers : \E q \in domainUsers' :
              /\ q.user = r.user /\ q.key = r.key
              /\ r.username # NoName => q.username # NoName
         /\ \A r \in users : \E q \in users' :
              q.address = r.address /\ (r.name # NoName => q.name # NoName)]_<<users, domainUsers>>

\* Without an error, the store is about the account of the moment, and never
\* about another one; while that account has no signer the store is idle, or it
\* shows an answer that was under way when the signer was lost.
ShowsCurrentAccount ==
    ~store.error =>
      \/ store.step = "Idle" /\ ~HasSigner(account)
      \/ /\ store.step # "Idle"
         /\ account # NoAccount /\ store.of.address = account.address

\* A user that the client shows as registered is (as long as nothing is
\* reset), with the key that the server has.
ShowsRegisteredUsers ==
    resets = 0 /\ store.step = "Registered" =>
      \E r \in domainUsers : /\ r.user = store.of.address
                             /\ store.user # Nobody => store.user.key = r.key

\* A registered user is shown as unregistered again, without an error, when
\* register() is called again, or by an old answer: a fetch for this account
\* that the server answered before the user registered.  For that two calls of
\* the client have to overlap: the account has been changed more than once, or
\* register() has been called when the store did not ask for it.
OnlyOldAnswersUnregister ==
    [][ /\ store.step = "Registered" /\ store'.step = "Unregistered"
        /\ resets = 0 /\ ~store'.error
       => \/ store'.busy
          \/ /\ switches > 1 \/ early
             /\ \E t \in tasks \ tasks' :
                  /\ t.then = "fetch" /\ t.result = Nobody
                  /\ t.address = store.of.address /\ DomainRow(t.address) # {} ]_store

\* The profile of an account is fetched in the end, or an error shown, and a
\* registration ends.
RequestsEnd ==
    (store.step = "Fetching" \/ (store.step = "Unregistered" /\ store.busy)) ~>
      \/ store.step \in {"Idle", "Registered"}
      \/ store.step = "Unregistered" /\ ~store.busy
      \/ store.error
=============================================================================
