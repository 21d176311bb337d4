------------------------- MODULE Registration_proofs -------------------------
(***************************************************************************)
(* Theorems about the accounts of the server and the registration store of *)
(* a client, for all credentials, names and bounds, and both databases.    *)
(***************************************************************************)
EXTENDS Registration, FiniteSetTheorems, SequenceTheorems, TLAPS

UserRow == [address : Addresses, name : Names \cup {NoName}]

DomainUserRow == [user : Addresses, key : Keys, signature : Credentials,
                  username : Names \cup {NoName}]

StoreType == [step : {"Idle", "Fetching", "Unregistered", "Registered"},
              of : Credentials \cup {NoAccount}, busy : BOOLEAN,
              user : UserShown \cup {Nobody}, error : BOOLEAN]

\* The primary keys of both tables, and UNIQUE(publicKey).
KeysUnique ==
    /\ \A r, q \in users : r.address = q.address => r = q
    /\ \A r, q \in domainUsers : r.user = q.user \/ r.key = q.key => r = q

\* What the server stores.
TablesFit ==
    /\ users \subseteq UserRow /\ domainUsers \subseteq DomainUserRow
    /\ KeysUnique

\* A reset that has dropped DomainUsers.
Halfway == <<"drop Users", "create Users", "create DomainUsers">>

\* What is left of a setup or of a reset, and what still drops a table.
Parts == {<<"create DomainUsers">>, Creation, Halfway, Dropping \o Creation}

ScriptSet == [id : Nat, left : Parts]

Drops(s) == s \in {Halfway, Dropping \o Creation}

\* The variables that stand for themselves.
Plain ==
    /\ scripts \subseteq ScriptSet
    /\ transactional \in BOOLEAN /\ recreated \in BOOLEAN /\ early \in BOOLEAN
    /\ tables \subseteq {"Users", "DomainUsers"}
    /\ resets \in 0..requests /\ requests \in 0..MaxRequests /\ switches \in 0..MaxSwitches

ClientFits == account \in AnyAccount /\ store \in StoreType

\* A request is made with a key that its address has signed for.
TasksFit == tasks \subseteq TaskSet /\ \A t \in tasks : Credential(t) \in Credentials

TypeInvariant == Plain /\ TablesFit /\ TasksFit /\ ClientFits

-----------------------------------------------------------------------------
(* Requests. *)

\* A credential is an address and a key.
LEMMA CredentialFields ==
    ASSUME NEW c \in Credentials
    PROVE  c.address \in Addresses /\ c.key \in Keys /\ c.address # Nobody
BY CredentialAssumption DEF Addresses, Keys

\* A request goes on with everything but its step as it was.
LEMMA SteppedTask ==
    ASSUME NEW t \in TaskSet, NEW x \in {"sent", "handled", "second", "ok", "failed"}
    PROVE  LET q == [t EXCEPT !.step = x]
           IN  /\ q \in TaskSet
               /\ q.step = x /\ q.op = t.op /\ q.address = t.address /\ q.key = t.key
               /\ q.signature = t.signature /\ q.account = t.account
               /\ q.result = t.result /\ q.then = t.then
BY DEF TaskSet

\* The middleware adds the account that it has found.
LEMMA AuthenticatedTask ==
    ASSUME NEW t \in TaskSet, NEW u \in Addresses \cup {Nobody}
    PROVE  LET q == [t EXCEPT !.step = "handled", !.account = u]
           IN  /\ q \in TaskSet
               /\ q.step = "handled" /\ q.op = t.op /\ q.address = t.address
               /\ q.key = t.key /\ q.signature = t.signature /\ q.account = u
               /\ q.result = t.result /\ q.then = t.then
BY DEF TaskSet

\* A request of a profile is answered.
LEMMA FetchedTask ==
    ASSUME NEW t \in TaskSet, NEW user \in UserShown \cup {Nobody}
    PROVE  LET q == [t EXCEPT !.step = "ok", !.result = user]
           IN  /\ q \in TaskSet
               /\ q.step = "ok" /\ q.op = t.op /\ q.address = t.address
               /\ q.key = t.key /\ q.signature = t.signature /\ q.account = t.account
               /\ q.result = user /\ q.then = t.then
BY DEF TaskSet

\* The client no longer waits for its answer.
LEMMA LostTask ==
    ASSUME NEW t \in TaskSet
    PROVE  LET q == [t EXCEPT !.then = "nobody"]
           IN  /\ q \in TaskSet
               /\ q.step = t.step /\ q.op = t.op /\ q.address = t.address
               /\ q.key = t.key /\ q.signature = t.signature /\ q.account = t.account
               /\ q.result = t.result /\ q.then = "nobody"
BY DEF TaskSet

\* A request that has been made.
LEMMA NewTask ==
    ASSUME NEW id \in 0..MaxRequests, NEW op \in {"register", "edit", "get"},
           NEW c \in Credentials, NEW signed \in Credentials,
           NEW name \in Names \cup {NoName},
           NEW then \in {"fetch", "register", "registered", "edit", "edited", "nobody"}
    PROVE  LET q == Task(id, op, c, signed, name, then)
           IN  /\ q \in TaskSet
               /\ q.step = "sent" /\ q.op = op /\ q.address = c.address /\ q.key = c.key
               /\ q.signature = signed /\ q.account = Nobody /\ q.result = Nobody
               /\ q.then = then
BY CredentialFields DEF TaskSet, Task

\* A request that goes on is replaced, or is gone.
LEMMA AdvanceTasks ==
    ASSUME NEW t \in tasks, NEW next, Advance(t, next)
    PROVE  tasks' \subseteq (tasks \ {t}) \cup {next}
BY DEF Advance

\* A crash ends the requests that somebody waits for.
LEMMA CrashedTask ==
    ASSUME tasks \subseteq TaskSet, Crash, NEW q \in tasks'
    PROVE  \E t \in tasks : /\ t.then # "nobody"
                            /\ \/ t.step = "ok" /\ q = [t EXCEPT !.step = "ok"]
                               \/ t.step # "ok" /\ q = [t EXCEPT !.step = "failed"]
BY DEF Crash

-----------------------------------------------------------------------------
(* The statements. *)

\* coalesce() gives a name, and keeps one that is not NULL.
LEMMA CoalesceFits ==
    ASSUME NEW new \in Names \cup {NoName}, NEW old \in Names \cup {NoName}
    PROVE  /\ Coalesce(new, old) \in Names \cup {NoName}
           /\ old # NoName => Coalesce(new, old) # NoName
BY DEF Coalesce

\* What a statement may do to the table Users: rows keep their address and any
\* name, and a registration leaves a row for its address.
LEMMA FirstStatementFits ==
    ASSUME TablesFit, NEW t \in TaskSet
    PROVE  /\ FirstStatement(t) \subseteq UserRow
           /\ \A r, q \in FirstStatement(t) : r.address = q.address => r = q
           /\ \A r \in users : \E q \in FirstStatement(t) :
                q.address = r.address /\ (r.name # NoName => q.name # NoName)
           /\ t.op = "register" => \E r \in FirstStatement(t) : r.address = t.address
<1>1. t.address \in Addresses /\ t.name \in Names \cup {NoName}
  BY DEF TaskSet
<1>2. \A r \in users : r \in UserRow /\ r.address \in Addresses /\ r.name \in Names \cup {NoName}
  BY DEF TablesFit, UserRow
<1>3. \A r, q \in users : r.address = q.address => r = q
  BY DEF TablesFit, KeysUnique
<1>4. CASE t.op = "register"
  <2> DEFINE old  == Row(t.address)
             name == IF old = {} THEN t.name
                     ELSE Coalesce(t.name, (CHOOSE r \in old : TRUE).name)
             row  == [address |-> t.address, name |-> name]
  <2>1. old # {} => (CHOOSE r \in old : TRUE) \in old
    OBVIOUS
  <2>2. \A r \in old : r \in users /\ r.address = t.address
    BY DEF Row
  <2>3. /\ name \in Names \cup {NoName}
        /\ \A r \in old : r.name # NoName => name # NoName
    BY <1>1, <1>2, <1>3, <2>1, <2>2, CoalesceFits
  <2>4. FirstStatement(t) = (users \ old) \cup {row}
    BY <1>4 DEF FirstStatement, UpsertUser
  <2>5. \A r \in users : r.address = t.address => r \in old
    BY DEF Row
  <2> HIDE DEF old, name
  <2>6. row \in UserRow /\ row.address = t.address /\ row.name = name
    BY <1>1, <2>3 DEF UserRow
  <2> HIDE DEF row
  <2> QED BY <1>2, <1>3, <2>2, <2>3, <2>4, <2>5, <2>6
<1>5. CASE t.op # "register"
  <2> DEFINE Edited(r) == IF r.address = t.account
                            THEN [r EXCEPT !.name = Coalesce(t.name, @)] ELSE r
  <2>1. FirstStatement(t) = {Edited(r) : r \in users}
    BY <1>5 DEF FirstStatement, EditedUsers
  <2>2. ASSUME NEW r \in users
        PROVE  /\ Edited(r) \in UserRow /\ Edited(r).address = r.address
               /\ r.name # NoName => Edited(r).name # NoName
    BY <1>1, <1>2, CoalesceFits DEF UserRow
  <2> HIDE DEF Edited
  <2> QED BY <1>3, <1>5, <2>1, <2>2
<1> QED BY <1>4, <1>5

\* What a statement may do to the table DomainUsers: rows keep their user, key
\* and signature, and any name; a row that is new is that of a registration.
LEMMA SecondStatementFits ==
    ASSUME TablesFit, NEW t \in TaskSet, ~KeyTaken(t)
    PROVE  /\ SecondStatement(t) \subseteq DomainUserRow
           /\ \A r, q \in SecondStatement(t) : r.user = q.user \/ r.key = q.key => r = q
           /\ \A r \in domainUsers : \E q \in SecondStatement(t) :
                /\ q.user = r.user /\ q.key = r.key
                /\ r.username # NoName => q.username # NoName
           /\ \A q \in SecondStatement(t) :
                \/ \E r \in domainUsers :
                     q.user = r.user /\ q.key = r.key /\ q.signature = r.signature
                \/ /\ t.op = "register"
                   /\ q.user = t.address /\ q.key = t.key /\ q.signature = t.signature
<1>1. /\ t.address \in Addresses /\ t.name \in Names \cup {NoName}
      /\ t.key \in Keys /\ t.signature \in Credentials
  BY DEF TaskSet
<1>2. \A r \in domainUsers :
        r \in DomainUserRow /\ r.username \in Names \cup {NoName}
  BY DEF TablesFit, DomainUserRow
<1>3. \A r, q \in domainUsers : r.user = q.user \/ r.key = q.key => r = q
  BY DEF TablesFit, KeysUnique
<1>4. CASE t.op = "register" /\ DomainRow(t.address) = {}
  <2> DEFINE row == [user |-> t.address, key |-> t.key, signature |-> t.signature,
                     username |-> t.name]
  <2>1. SecondStatement(t) = domainUsers \cup {row}
    BY <1>4 DEF SecondStatement, UpsertDomainUser
  <2>2. \A r \in domainUsers : r.user # t.address /\ r.key # t.key
    BY <1>4 DEF KeyTaken, DomainRow
  <2>3. /\ row \in DomainUserRow /\ row.user = t.address /\ row.key = t.key
        /\ row.signature = t.signature
    BY <1>1 DEF DomainUserRow
  <2> HIDE DEF row
  <2> QED BY <1>2, <1>3, <1>4, <2>1, <2>2, <2>3
<1>5. CASE t.op = "register" /\ DomainRow(t.address) # {}
  <2> DEFINE row == CHOOSE r \in DomainRow(t.address) : TRUE
             new == [row EXCEPT !.username = Coalesce(t.name, @)]
  <2>1. row \in DomainRow(t.address)
    BY <1>5
  <2>2. \A r \in DomainRow(t.address) : r \in domainUsers /\ r.user = t.address
    BY DEF DomainRow
  <2>3. SecondStatement(t) = (domainUsers \ DomainRow(t.address)) \cup {new}
    BY <1>5 DEF SecondStatement, UpsertDomainUser
  <2> HIDE DEF row
  <2>4. row \in DomainUserRow /\ row.username \in Names \cup {NoName}
    BY <1>2, <2>1, <2>2
  <2>5. /\ new \in DomainUserRow /\ new.user = row.user /\ new.key = row.key
        /\ new.signature = row.signature /\ new.username = Coalesce(t.name, row.username)
    BY <1>1, <2>4, CoalesceFits DEF DomainUserRow
  <2>6. row.username # NoName => new.username # NoName
    BY <1>1, <2>4, <2>5, CoalesceFits
  <2>7. \A r \in DomainRow(t.address) : r = row
    BY <1>3, <2>1, <2>2
  <2> HIDE DEF new
  <2> QED BY <1>2, <1>3, <2>1, <2>2, <2>3, <2>5, <2>6, <2>7
<1>6. CASE t.op # "register"
  <2> DEFINE Edited(r) == IF r.user = t.account
                            THEN [r EXCEPT !.username = Coalesce(t.name, @)] ELSE r
  <2>1. SecondStatement(t) = {Edited(r) : r \in domainUsers}
    BY <1>6 DEF SecondStatement, EditedDomainUsers
  <2>2. ASSUME NEW r \in domainUsers
        PROVE  /\ Edited(r) \in DomainUserRow /\ Edited(r).user = r.user
               /\ Edited(r).key = r.key /\ Edited(r).signature = r.signature
               /\ r.username # NoName => Edited(r).username # NoName
    BY <1>1, <1>2, CoalesceFits DEF DomainUserRow
  <2> HIDE DEF Edited
  <2> QED BY <1>3, <2>1, <2>2
<1> QED BY <1>4, <1>5, <1>6

\* The account that owns a key: that of the only row with it, if there is one.
LEMMA AccountOfFits ==
    ASSUME TablesFit, NEW key
    PROVE  /\ AccountOf(key) \in Addresses \cup {Nobody}
           /\ AccountOf(key) # Nobody =>
                \E r \in domainUsers : r.user = AccountOf(key) /\ r.key = key
<1> DEFINE rows == {r \in domainUsers : r.key = key}
<1>1. Cardinality(rows) = 1 => rows # {}
  BY FS_EmptySet
<1>2. rows # {} => (CHOOSE r \in rows : TRUE) \in rows
  OBVIOUS
<1>3. AccountOf(key) = IF Cardinality(rows) = 1 THEN (CHOOSE r \in rows : TRUE).user
                       ELSE Nobody
  BY DEF AccountOf
<1>4. \A r \in rows : r \in domainUsers /\ r.key = key /\ r.user \in Addresses
  BY DEF TablesFit, DomainUserRow
<1> HIDE DEF rows
<1> QED BY <1>1, <1>2, <1>3, <1>4

\* The profile of a user is made of rows of that user.
LEMMA CompleteUserFits ==
    ASSUME TablesFit, NEW u
    PROVE  /\ CompleteUser(u) \in UserShown \cup {Nobody}
           /\ CompleteUser(u) # Nobody =>
                \E r \in domainUsers : r.user = u /\ r.key = CompleteUser(u).key
<1>1. CASE DomainRow(u) = {} \/ Row(u) = {}
  BY <1>1 DEF CompleteUser
<1>2. CASE DomainRow(u) # {} /\ Row(u) # {}
  <2> DEFINE r == CHOOSE r \in DomainRow(u) : TRUE
             q == CHOOSE q \in Row(u) : TRUE
  <2>1. r \in DomainRow(u) /\ q \in Row(u)
    BY <1>2
  <2>2. CompleteUser(u) = [key |-> r.key, name |-> q.name]
    BY <1>2 DEF CompleteUser
  <2> HIDE DEF r, q
  <2>3. r \in domainUsers /\ r.user = u /\ r.key \in Keys /\ q.name \in Names \cup {NoName}
    BY <2>1 DEF Row, DomainRow, TablesFit, UserRow, DomainUserRow
  <2> QED BY <2>2, <2>3 DEF UserShown
<1> QED BY <1>1, <1>2

-----------------------------------------------------------------------------
(* What a step does. *)

\* A sequence is what its first part and its second one make together.
LEMMA Joined ==
    ASSUME NEW S, NEW s \in Seq(S), NEW r \in Seq(S), NEW u \in Seq(S),
           Len(u) = Len(s) + Len(r),
           \A i \in 1..Len(s) : u[i] = s[i],
           \A i \in 1..Len(r) : u[Len(s) + i] = r[i]
    PROVE  s \o r = u
<1> DEFINE v == s \o r
<1>1. Len(s) \in Nat /\ Len(r) \in Nat
  OBVIOUS
<1>2. /\ v \in Seq(S) /\ Len(v) = Len(u)
      /\ \A i \in 1..Len(s)+Len(r) : v[i] = IF i <= Len(s) THEN s[i] ELSE r[i - Len(s)]
  BY ConcatProperties
<1> HIDE DEF v
<1>3. ASSUME NEW i \in 1..Len(v) PROVE v[i] = u[i]
  <2>1. CASE i <= Len(s)
    BY <1>1, <1>2, <2>1
  <2>2. CASE ~(i <= Len(s))
    <3>1. i - Len(s) \in 1..Len(r) /\ Len(s) + (i - Len(s)) = i
      BY <1>1, <1>2, <2>2
    <3>2. u[i] = r[i - Len(s)]
      BY <3>1
    <3> QED BY <1>1, <1>2, <2>2, <3>2
  <2> QED BY <2>1, <2>2
<1>4. v = u
  BY <1>2, <1>3, SeqEqual
<1> QED BY <1>4 DEF v

\* The statements of a reset.
LEMMA ResetScript ==
    Dropping \o Creation =
      <<"drop DomainUsers", "drop Users", "create Users", "create DomainUsers">>
<1> DEFINE S == {"drop DomainUsers", "drop Users", "create Users", "create DomainUsers"}
           s == Dropping
           r == Creation
           u == <<"drop DomainUsers", "drop Users", "create Users", "create DomainUsers">>
<1>1. s \in Seq(S) /\ r \in Seq(S) /\ u \in Seq(S)
  BY DEF Dropping, Creation
<1>2. Len(s) = 2 /\ Len(r) = 2 /\ Len(u) = 4
  BY DEF Dropping, Creation
<1>3. (\A i \in 1..2 : u[i] = s[i]) /\ (\A i \in 1..2 : u[2 + i] = r[i])
  BY DEF Dropping, Creation
<1> HIDE DEF s, r, u, S
<1>4. /\ Len(u) = Len(s) + Len(r) /\ \A i \in 1..Len(s) : u[i] = s[i]
      /\ \A i \in 1..Len(r) : u[Len(s) + i] = r[i]
  BY <1>2, <1>3
<1>5. s \o r = u
  BY <1>1, <1>4, Joined
<1> QED BY <1>5 DEF s, r, u

\* What is left of a short sequence.
LEMMA Tails ==
    ASSUME NEW a, NEW b, NEW c, NEW d
    PROVE  /\ Tail(<<a>>) = <<>> /\ Tail(<<a, b>>) = <<b>>
           /\ Tail(<<a, b, c>>) = <<b, c>> /\ Tail(<<a, b, c, d>>) = <<b, c, d>>
<1>1. Tail(<<a>>) = <<>>
  OBVIOUS
<1>2. Tail(<<a, b>>) = <<b>>
  OBVIOUS
<1>3. Tail(<<a, b, c>>) = <<b, c>>
  OBVIOUS
<1>4. Tail(<<a, b, c, d>>) = <<b, c, d>>
  OBVIOUS
<1> QED BY <1>1, <1>2, <1>3, <1>4

\* A script, by its first statement and what is left after it.
LEMMA ScriptForms ==
    /\ Creation \in Parts /\ Dropping \o Creation \in Parts
    /\ ~Drops(Creation) /\ Creation # Halfway /\ Dropping \o Creation # Halfway
    /\ \A s \in Parts :
         /\ Tail(s) # <<>> => Tail(s) \in Parts
         /\ Head(s) \in {"create Users", "create DomainUsers", "drop Users",
                        "drop DomainUsers"}
         /\ Head(s) \in {"drop Users", "drop DomainUsers"} <=> Drops(s)
         /\ Drops(Tail(s)) => Drops(s)
         /\ Tail(s) = Halfway => Head(s) = "drop DomainUsers"
         /\ Head(s) = "drop Users" <=> s = Halfway
<1> DEFINE du    == "drop DomainUsers"
           u     == "drop Users"
           cu    == "create Users"
           cd    == "create DomainUsers"
           none  == <<>>
           one   == <<cd>>
           two   == <<cu, cd>>
           three == <<u, cu, cd>>
           four  == <<du, u, cu, cd>>
<1>1. /\ Creation = two /\ <<>> = none /\ Halfway = three
      /\ Dropping \o Creation = four
  BY ResetScript DEF Creation, Halfway
<1>2. Parts = {one, two, three, four}
  BY <1>1 DEF Parts
<1>3. \A s : Drops(s) <=> s \in {three, four}
  BY <1>1 DEF Drops
<1>4. Head(one) = cd /\ Head(two) = cu /\ Head(three) = u /\ Head(four) = du
  OBVIOUS
<1>5. Tail(one) = none /\ Tail(two) = one /\ Tail(three) = two /\ Tail(four) = three
  <2> HIDE DEF du, u, cu, cd
  <2> QED BY Tails
<1>6. Len(none) = 0 /\ Len(one) = 1 /\ Len(two) = 2 /\ Len(three) = 3 /\ Len(four) = 4
  OBVIOUS
<1> HIDE DEF none, one, two, three, four
<1>7. /\ none # one /\ none # two /\ none # three /\ none # four /\ one # two
      /\ one # three /\ one # four /\ two # three /\ two # four /\ three # four
  <2>1. none # one /\ none # two /\ none # three /\ none # four
    BY <1>6, SMTT(30)
  <2>2. one # two /\ one # three /\ one # four
    BY <1>6
  <2> QED BY <1>6, <2>1, <2>2
<1> QED BY <1>1, <1>2, <1>3, <1>4, <1>5, <1>7, ZenonT(60)

\* A script that goes on.
LEMMA ScriptsStep ==
    ASSUME Plain, NEW r \in scripts, RunStatement(r)
    PROVE  /\ r.left \in Parts
           /\ \A q \in scripts' : \/ q \in scripts
                                  \/ /\ q \in ScriptSet /\ q.left = Tail(r.left)
<1>1. r \in ScriptSet
  BY DEF Plain
<1>2. r.left \in Parts /\ r.id \in Nat
  BY <1>1 DEF ScriptSet
<1>3. ASSUME Tail(r.left) # <<>>
      PROVE  LET q == [r EXCEPT !.left = Tail(@)]
             IN  q \in ScriptSet /\ q.left = Tail(r.left)
  <2>1. Tail(r.left) \in Parts
    BY <1>2, <1>3, ScriptForms
  <2> QED BY <1>1, <2>1 DEF ScriptSet
<1> QED BY <1>2, <1>3 DEF RunStatement

\* A setup or a reset that starts.
LEMMA ScriptStarts ==
    ASSUME Plain, Reset \/ Setup
    PROVE  /\ requests' = requests + 1 /\ requests' \in 0..MaxRequests
           /\ UNCHANGED <<transactional, tables, recreated, users, domainUsers, tasks>>
           /\ \A q \in scripts' :
                \/ q \in scripts
                \/ /\ q \in ScriptSet /\ q.left # Halfway
                   /\ Drops(q.left) => Reset
           /\ Reset => resets' = resets + 1
           /\ Setup => resets' = resets
<1>1. requests' = requests + 1 /\ requests' \in 0..MaxRequests
  BY RequestsAssumption DEF Plain, Reset, Setup, Runs
<1>2. ASSUME NEW s \in Parts, Runs(s), NEW q \in scripts'
      PROVE  q \in scripts \/ (q \in ScriptSet /\ q.left = s)
  BY <1>2, RequestsAssumption DEF Plain, Runs, ScriptSet
<1>3. CASE Reset
  <2>1. Runs(Dropping \o Creation) /\ resets' = resets + 1
    BY <1>3 DEF Reset
  <2>2. \A q \in scripts' : q \in scripts \/ (q \in ScriptSet /\ q.left = Dropping \o Creation)
    BY <1>2, <2>1, ScriptForms
  <2>3. UNCHANGED <<transactional, tables, recreated, users, domainUsers, tasks>>
    BY <2>1 DEF Runs
  <2>4. Setup => resets' = resets
    BY DEF Setup
  <2> QED BY <1>1, <1>3, <2>1, <2>2, <2>3, <2>4, ScriptForms
<1>4. CASE Setup
  <2>1. Runs(Creation) /\ resets' = resets
    BY <1>4 DEF Setup
  <2>2. \A q \in scripts' : q \in scripts \/ (q \in ScriptSet /\ q.left = Creation)
    BY <1>2, <2>1, ScriptForms
  <2>3. UNCHANGED <<transactional, tables, recreated, users, domainUsers, tasks>>
    BY <2>1 DEF Runs
  <2>4. Reset => resets' = resets + 1
    BY DEF Reset
  <2> QED BY <1>1, <1>4, <2>1, <2>2, <2>3, <2>4, ScriptForms
<1> QED BY <1>3, <1>4

Same(t, q) ==
    q.op = t.op /\ q.address = t.address /\ q.key = t.key /\ q.signature = t.signature

\* What a request may be after a step.
Follows(t, q) ==
    /\ Same(t, q)
    /\ \/ /\ t.step = "sent" /\ q.step = "handled" /\ t.op \in {"register", "edit"}
          /\ q.account = AccountOf(t.key) /\ q.result = t.result /\ q.then = t.then
          /\ domainUsers' = domainUsers
       \/ /\ ExecuteFirst(t) /\ q.step = "second"
          /\ q.account = t.account /\ q.result = t.result /\ q.then = t.then
       \/ /\ t.step \in {"handled", "second"} /\ q.step = "ok"
          /\ q.account = t.account /\ q.result = t.result /\ q.then = t.then
       \/ /\ t.step = "sent" /\ q.step = "ok" /\ t.op = "get"
          /\ q.account = t.account /\ q.result = CompleteUser(t.address) /\ q.then = t.then
          /\ domainUsers' = domainUsers
       \/ /\ q.step = "failed"
          /\ q.account = t.account /\ q.result = t.result /\ q.then = t.then
       \/ /\ q.step = t.step /\ q.then = "nobody"
          /\ q.account = t.account /\ q.result = t.result

\* A request that has just been made, and by whom.
Made(q) ==
    /\ q.step = "sent" /\ q.account = Nobody /\ q.result = Nobody
    /\ \/ q.then = "fetch" /\ \E c \in AnyAccount : SwitchAccount(c)
       \/ q.then = "register"
       \/ /\ q.then = "edit" /\ q.address = account.address
          /\ \E name \in Names : Edit(name)
       \/ q.then = "nobody"
       \/ \E t \in tasks :
            /\ CallGoesOn(t) /\ q.address = t.address
            /\ q.then = IF t.then = "register" THEN "registered" ELSE "edited"

\* A request after a step is one of those before it, or follows one, or is new.
LEMMA TasksStep ==
    ASSUME TypeInvariant, [Next]_vars, NEW q \in tasks'
    PROVE  /\ q \in TaskSet /\ Credential(q) \in Credentials
           /\ q \in tasks \/ Made(q) \/ \E t \in tasks : Follows(t, q)
<1> DEFINE Fits(r) == r \in TaskSet /\ Credential(r) \in Credentials
<1>1. /\ tasks \subseteq TaskSet /\ TablesFit
      /\ \A t \in tasks : Fits(t)
      /\ \A t \in tasks, r \in TaskSet : Same(t, r) => Fits(r)
  BY DEF TypeInvariant, TasksFit, Same, Credential
<1> HIDE DEF Fits
<1>2. ASSUME NEW op \in {"register", "edit", "get"}, NEW c \in Credentials,
             NEW signed \in Credentials, NEW name \in Names \cup {NoName},
             NEW then \in {"fetch", "register", "registered", "edit", "edited", "nobody"},
             Request(op, c, signed, name, then)
      PROVE  /\ Fits(q)
             /\ \/ q \in tasks
                \/ /\ q.step = "sent" /\ q.account = Nobody /\ q.result = Nobody
                   /\ q.then = then /\ q.address = c.address
  <2>1. requests \in 0..MaxRequests
    BY DEF TypeInvariant, Plain
  <2> DEFINE new == Task(requests, op, c, signed, name, then)
  <2>2. tasks' = tasks \cup {new}
    BY <1>2 DEF Request
  <2>3. /\ new \in TaskSet /\ new.address = c.address /\ new.key = c.key
        /\ new.step = "sent" /\ new.account = Nobody /\ new.result = Nobody
        /\ new.then = then
    BY <2>1, NewTask
  <2>4. Credential(new) = c
    BY <2>3, CredentialAssumption DEF Credential
  <2> QED BY <1>1, <2>2, <2>3, <2>4 DEF Fits
<1>3. ASSUME NEW t \in tasks, NEW x \in {"second", "ok", "failed"},
             Advance(t, [t EXCEPT !.step = x]),
             \/ x = "second" /\ ExecuteFirst(t)
             \/ x = "ok" /\ t.step \in {"handled", "second"}
             \/ x = "failed"
      PROVE  Fits(q) /\ (q \in tasks \/ Follows(t, q))
  <2> DEFINE next == [t EXCEPT !.step = x]
  <2>1. q \in tasks \/ q = next
    BY <1>3, AdvanceTasks
  <2>2. /\ next \in TaskSet /\ next.step = x
        /\ next.op = t.op /\ next.address = t.address /\ next.key = t.key
        /\ next.signature = t.signature /\ next.account = t.account
        /\ next.result = t.result /\ next.then = t.then
    <3>1. t \in TaskSet /\ x \in {"sent", "handled", "second", "ok", "failed"}
      BY <1>1, <1>3
    <3> QED BY <3>1, SteppedTask, ZenonT(60)
  <2> HIDE DEF next
  <2> QED BY <1>1, <1>3, <2>1, <2>2 DEF Follows, Same
<1>4. ASSUME NEW c \in AnyAccount, SwitchAccount(c)
      PROVE  Fits(q) /\ (q \in tasks \/ Made(q))
  <2>1. CASE ~HasSigner(c)
    BY <1>1, <1>4, <2>1 DEF SwitchAccount
  <2>2. CASE HasSigner(c)
    <3>1. Request("get", c, c, NoName, "fetch") /\ c \in Credentials
      BY <1>4, <2>2, OwnAssumption DEF SwitchAccount, HasSigner
    <3> QED BY <1>2, <1>4, <3>1 DEF Made
  <2> QED BY <2>1, <2>2
<1>5. ASSUME NEW c \in OwnAccounts, NEW name \in Names, Register(c, name)
      PROVE  Fits(q) /\ (q \in tasks \/ Made(q))
  <2>1. account \in Credentials
    BY <1>5, OwnAssumption DEF Register, HasSigner
  <2>2. Request("register", account, c, name, "register") /\ c \in Credentials
    BY <1>5, OwnAssumption DEF Register
  <2> QED BY <1>2, <1>5, <2>1, <2>2 DEF Made
<1>6. ASSUME NEW name \in Names, Edit(name)
      PROVE  Fits(q) /\ (q \in tasks \/ Made(q))
  <2>1. account \in Credentials
    BY <1>6, OwnAssumption DEF Edit, HasSigner
  <2>2. Request("edit", account, account, name, "edit")
    BY <1>6 DEF Edit
  <2> QED BY <1>2, <1>6, <2>1, <2>2 DEF Made
<1>7. ASSUME NEW op \in {"register", "edit"}, NEW c \in Credentials,
             NEW name \in Names \cup {NoName}, OtherDevice(op, c, name)
      PROVE  Fits(q) /\ (q \in tasks \/ Made(q))
  <2>1. Request(op, c, c, name, "nobody")
    BY <1>7 DEF OtherDevice
  <2> QED BY <1>2, <1>7, <2>1 DEF Made
<1>8. ASSUME NEW t \in tasks, Authenticate(t)
      PROVE  Fits(q) /\ (q \in tasks \/ Follows(t, q))
  <2>1. CASE Fail(t)
    BY <1>3, <2>1 DEF Fail
  <2>2. CASE Advance(t, [t EXCEPT !.step = "handled", !.account = AccountOf(t.key)])
    <3> DEFINE next == [t EXCEPT !.step = "handled", !.account = AccountOf(t.key)]
    <3>1. q \in tasks \/ q = next
      BY <2>2, AdvanceTasks
    <3>2. AccountOf(t.key) \in Addresses \cup {Nobody}
      BY <1>1, AccountOfFits
    <3>3. /\ next \in TaskSet /\ next.step = "handled"
          /\ next.op = t.op /\ next.address = t.address /\ next.key = t.key
          /\ next.signature = t.signature /\ next.account = AccountOf(t.key)
          /\ next.result = t.result /\ next.then = t.then
      BY <1>1, <3>2, AuthenticatedTask, ZenonT(60)
    <3>4. t.step = "sent" /\ t.op \in {"register", "edit"} /\ domainUsers' = domainUsers
      BY <1>8 DEF Authenticate
    <3> HIDE DEF next
    <3> QED BY <1>1, <3>1, <3>3, <3>4 DEF Follows, Same
  <2> QED BY <1>8, <2>1, <2>2 DEF Authenticate
<1>9. ASSUME NEW t \in tasks, GetCompleteUser(t)
      PROVE  Fits(q) /\ (q \in tasks \/ Follows(t, q))
  <2>1. CASE Fail(t)
    BY <1>3, <2>1 DEF Fail
  <2>2. CASE Advance(t, [t EXCEPT !.step = "ok", !.result = CompleteUser(t.address)])
    <3> DEFINE next == [t EXCEPT !.step = "ok", !.result = CompleteUser(t.address)]
    <3>1. q \in tasks \/ q = next
      BY <2>2, AdvanceTasks
    <3>2. CompleteUser(t.address) \in UserShown \cup {Nobody}
      BY <1>1, CompleteUserFits
    <3>3. /\ next \in TaskSet /\ next.step = "ok"
          /\ next.op = t.op /\ next.address = t.address /\ next.key = t.key
          /\ next.signature = t.signature /\ next.account = t.account
          /\ next.result = CompleteUser(t.address) /\ next.then = t.then
      BY <1>1, <3>2, FetchedTask, ZenonT(60)
    <3>4. t.step = "sent" /\ t.op = "get" /\ domainUsers' = domainUsers
      BY <1>9 DEF GetCompleteUser
    <3> HIDE DEF next
    <3> QED BY <1>1, <3>1, <3>3, <3>4 DEF Follows, Same
  <2> QED BY <1>9, <2>1, <2>2 DEF GetCompleteUser
<1>10. ASSUME NEW t \in tasks, ServerStep(t)
       PROVE  Fits(q) /\ (q \in tasks \/ Follows(t, q))
  <2>1. CASE Refuse(t)
    BY <1>3, <2>1 DEF Refuse, Fail
  <2>2. CASE Commit(t)
    BY <1>3, <2>2 DEF Commit, Executable
  <2>3. CASE ExecuteFirst(t)
    BY <1>3, <2>3 DEF ExecuteFirst
  <2>4. CASE ExecuteSecond(t)
    BY <1>3, <2>4 DEF ExecuteSecond
  <2>5. CASE AbortSecond(t)
    BY <1>3, <2>5 DEF AbortSecond, Fail
  <2> QED BY <1>8, <1>9, <1>10, <2>1, <2>2, <2>3, <2>4, <2>5 DEF ServerStep
<1>11. ASSUME NEW t \in tasks, FetchEnds(t) \/ RegisterEnds(t) \/ EditEnds(t)
       PROVE  Fits(q) /\ q \in tasks
  BY <1>1, <1>11 DEF FetchEnds, RegisterEnds, EditEnds, Ends
<1>12. ASSUME NEW t \in tasks, CallGoesOn(t)
       PROVE  Fits(q) /\ (q \in tasks \/ Made(q))
  <2> DEFINE c == Credential(t)
             then == IF t.then = "register" THEN "registered" ELSE "edited"
             new == Task(t.id, "get", c, c, NoName, then)
  <2>1. q \in tasks \/ q = new
    BY <1>12 DEF CallGoesOn
  <2>2. Fits(new) /\ Made(new)
    <3>1. /\ t.id \in 0..MaxRequests /\ t.address \in Addresses /\ t.key \in Keys
      BY <1>1 DEF TaskSet
    <3>2. new.address = t.address /\ new.key = t.key /\ c \in Credentials
      BY <1>1 DEF Task, Credential, Fits
    <3>3. new \in TaskSet /\ Credential(new) \in Credentials
      BY <3>1, <3>2 DEF Task, TaskSet, Credential
    <3>4. /\ new.step = "sent" /\ new.account = Nobody /\ new.result = Nobody
          /\ new.then = then
      BY DEF Task
    <3> QED BY <1>12, <3>2, <3>3, <3>4 DEF Made, Fits
  <2> QED BY <1>1, <2>1, <2>2
<1>13. ASSUME NEW t \in tasks, CallThrows(t)
       PROVE  Fits(q) /\ (q \in tasks \/ Follows(t, q))
  <2> DEFINE next == [t EXCEPT !.then = "nobody"]
  <2>1. q \in tasks \/ q = next
    BY <1>13 DEF CallThrows
  <2>2. /\ next \in TaskSet /\ next.step = t.step
        /\ next.op = t.op /\ next.address = t.address /\ next.key = t.key
        /\ next.signature = t.signature /\ next.account = t.account
        /\ next.result = t.result /\ next.then = "nobody"
    BY <1>1, LostTask
  <2> HIDE DEF next
  <2> QED BY <1>1, <2>1, <2>2 DEF Follows, Same
<1>14. ASSUME Crash
       PROVE  Fits(q) /\ (q \in tasks \/ \E t \in tasks : Follows(t, q))
  <2>1. PICK t \in tasks : \/ t.step = "ok" /\ q = [t EXCEPT !.step = "ok"]
                           \/ t.step # "ok" /\ q = [t EXCEPT !.step = "failed"]
    BY <1>1, <1>14, CrashedTask
  <2>2. t \in TaskSet
    BY <1>1
  <2>3. CASE t.step = "ok" /\ q = [t EXCEPT !.step = "ok"]
    <3>1. q = t
      BY <2>2, <2>3 DEF TaskSet
    <3> QED BY <1>1, <3>1
  <2>4. CASE q = [t EXCEPT !.step = "failed"]
    <3>1. /\ q \in TaskSet /\ q.step = "failed" /\ q.op = t.op
          /\ q.address = t.address /\ q.key = t.key /\ q.signature = t.signature
          /\ q.account = t.account /\ q.result = t.result /\ q.then = t.then
      BY <2>2, <2>4, SteppedTask
    <3> QED BY <1>1, <3>1 DEF Follows, Same
  <2> QED BY <2>1, <2>3, <2>4
<1>15. ASSUME \/ Reset \/ Setup \/ UNCHANGED vars
              \/ \E r \in scripts : RunStatement(r)
       PROVE  Fits(q) /\ q \in tasks
  BY <1>1, <1>15 DEF Reset, Setup, Runs, RunStatement, vars, accountVars
<1> QED BY <1>4, <1>5, <1>6, <1>7, <1>10, <1>11, <1>12, <1>13, <1>14, <1>15,
           OwnAssumption DEF Next, Fits

\* The tables change only by the statements of a batch, and when they are dropped.
LEMMA TablesStep ==
    ASSUME TypeInvariant, [Next]_vars
    PROVE  /\ \/ users' = users
              \/ /\ users' = {}
                 /\ \E r \in scripts : RunStatement(r) /\ Head(r.left) = "drop Users"
              \/ \E t \in tasks : /\ Undisturbed(t) /\ users' = FirstStatement(t)
                                  /\ Commit(t) \/ ExecuteFirst(t)
           /\ \/ domainUsers' = domainUsers
              \/ /\ domainUsers' = {}
                 /\ \E r \in scripts : RunStatement(r) /\ Head(r.left) = "drop DomainUsers"
              \/ \E t \in tasks : /\ Undisturbed(t) /\ domainUsers' = SecondStatement(t)
                                  /\ ~KeyTaken(t)
                                  /\ Commit(t) \/ ExecuteSecond(t)
<1>1. ASSUME NEW t \in tasks, ServerStep(t)
      PROVE  /\ \/ users' = users
                \/ /\ Undisturbed(t) /\ users' = FirstStatement(t)
                   /\ Commit(t) \/ ExecuteFirst(t)
             /\ \/ domainUsers' = domainUsers
                \/ /\ Undisturbed(t) /\ domainUsers' = SecondStatement(t) /\ ~KeyTaken(t)
                   /\ Commit(t) \/ ExecuteSecond(t)
  BY <1>1 DEF ServerStep, Authenticate, Refuse, Commit, ExecuteFirst, ExecuteSecond,
              AbortSecond, GetCompleteUser
<1>2. ASSUME NEW r \in scripts, RunStatement(r)
      PROVE  /\ users' = users \/ (users' = {} /\ Head(r.left) = "drop Users")
             /\ domainUsers' = domainUsers
                  \/ (domainUsers' = {} /\ Head(r.left) = "drop DomainUsers")
  BY <1>2 DEF RunStatement, Executed
<1>3. ASSUME \/ \E c \in AnyAccount : SwitchAccount(c)
             \/ \E c \in OwnAccounts, name \in Names : Register(c, name)
             \/ \E name \in Names : Edit(name)
             \/ \E c \in Credentials, name \in Names \cup {NoName} :
                  OtherDevice("register", c, name)
             \/ \E c \in OwnAccounts, name \in Names : OtherDevice("edit", c, name)
             \/ \E t \in tasks : \/ FetchEnds(t) \/ CallGoesOn(t) \/ RegisterEnds(t)
                                 \/ EditEnds(t) \/ CallThrows(t)
             \/ Reset \/ Setup \/ Crash \/ UNCHANGED vars
      PROVE  users' = users /\ domainUsers' = domainUsers
  BY <1>3 DEF SwitchAccount, Register, Edit, OtherDevice, FetchEnds, CallGoesOn,
              RegisterEnds, EditEnds, CallThrows, Reset, Setup, Runs, Crash, vars, accountVars
<1> QED BY <1>1, <1>2, <1>3 DEF Next

-----------------------------------------------------------------------------
(* Types, and the keys of the tables. *)

\* The initial states have their types.
LEMMA TypeInit == ASSUME Init PROVE TypeInvariant
<1>1. Plain
  <2>1. scripts \subseteq ScriptSet /\ recreated \in BOOLEAN /\ early \in BOOLEAN
    BY DEF Init, AccountsInit
  <2>2. resets \in 0..requests /\ requests \in 0..MaxRequests /\ switches \in 0..MaxSwitches
    BY RequestsAssumption, SwitchesAssumption DEF Init, AccountsInit
  <2>3. transactional \in BOOLEAN /\ tables \subseteq {"Users", "DomainUsers"}
    BY DEF Init, AccountsInit
  <2> QED BY <2>1, <2>2, <2>3 DEF Plain
<1>2. TablesFit /\ TasksFit
  BY DEF Init, AccountsInit, TablesFit, KeysUnique, TasksFit
<1>3. ClientFits
  BY DEF Init, Idle, ClientFits, StoreType, AnyAccount
<1> QED BY <1>1, <1>2, <1>3 DEF TypeInvariant

\* The tables keep their keys: INSERT ... ON CONFLICT, UPDATE and DROP do.
LEMMA TablesFitStep ==
    ASSUME TypeInvariant, [Next]_vars
    PROVE  TablesFit'
<1>1. TablesFit /\ tasks \subseteq TaskSet
  BY DEF TypeInvariant, TasksFit
<1>2. users' \subseteq UserRow /\ \A r, q \in users' : r.address = q.address => r = q
  <2>1. CASE users' = users \/ users' = {}
    BY <1>1, <2>1 DEF TablesFit, KeysUnique
  <2>2. CASE \E t \in tasks : users' = FirstStatement(t)
    BY <1>1, <2>2, FirstStatementFits
  <2> QED BY <2>1, <2>2, TablesStep
<1>3. /\ domainUsers' \subseteq DomainUserRow
      /\ \A r, q \in domainUsers' : r.user = q.user \/ r.key = q.key => r = q
  <2>1. CASE domainUsers' = domainUsers \/ domainUsers' = {}
    BY <1>1, <2>1 DEF TablesFit, KeysUnique
  <2>2. CASE \E t \in tasks : ~KeyTaken(t) /\ domainUsers' = SecondStatement(t)
    BY <1>1, <2>2, SecondStatementFits
  <2> QED BY <2>1, <2>2, TablesStep
<1> QED BY <1>2, <1>3 DEF TablesFit, KeysUnique, UserRow, DomainUserRow

\* Tables, scripts and counters keep their types.
LEMMA PlainStep ==
    ASSUME TypeInvariant, [Next]_vars
    PROVE  Plain'
<1>1. Plain
  BY DEF TypeInvariant
<1>2. ASSUME NEW op, NEW c, NEW signed, NEW name, NEW then,
             Request(op, c, signed, name, then), resets' = resets
      PROVE  requests' \in 0..MaxRequests /\ resets' \in 0..requests'
  BY <1>1, <1>2, RequestsAssumption DEF Plain, Request
<1>3. ASSUME NEW c \in AnyAccount, SwitchAccount(c)
      PROVE  Plain'
  <2>1. switches' \in 0..MaxSwitches
    BY <1>1, <1>3, SwitchesAssumption DEF Plain, SwitchAccount
  <2>2. UNCHANGED <<schemaVars, early>>
    BY <1>3 DEF SwitchAccount
  <2>3. requests' \in 0..MaxRequests /\ resets' \in 0..requests'
    BY <1>1, <1>2, <1>3, <2>2 DEF Plain, SwitchAccount, schemaVars
  <2> QED BY <1>1, <2>1, <2>2, <2>3 DEF Plain, schemaVars
<1>4. ASSUME \/ \E c \in OwnAccounts, name \in Names : Register(c, name)
             \/ \E name \in Names : Edit(name)
             \/ \E c \in Credentials, name \in Names \cup {NoName} :
                  OtherDevice("register", c, name)
             \/ \E c \in OwnAccounts, name \in Names : OtherDevice("edit", c, name)
      PROVE  Plain'
  <2>1. UNCHANGED <<schemaVars, switches>>
    BY <1>4 DEF Register, Edit, OtherDevice, clientVars
  <2>2. requests' \in 0..MaxRequests /\ resets' \in 0..requests'
    BY <1>2, <1>4, <2>1 DEF Register, Edit, OtherDevice, schemaVars
  <2>3. early' \in BOOLEAN
    <3>1. store.busy \in BOOLEAN
      BY DEF TypeInvariant, ClientFits, StoreType
    <3> QED BY <1>1, <1>4, <3>1 DEF Plain, Register, Edit, OtherDevice, clientVars
  <2> QED BY <1>1, <2>1, <2>2, <2>3 DEF Plain, schemaVars
<1>5. ASSUME NEW t \in tasks,
             \/ ServerStep(t) /\ UNCHANGED clientVars
             \/ FetchEnds(t) \/ CallGoesOn(t) \/ RegisterEnds(t) \/ EditEnds(t)
             \/ CallThrows(t)
      PROVE  Plain'
  <2>1. UNCHANGED <<schemaVars, requests, switches, early>>
    BY <1>5 DEF ServerStep, Authenticate, Refuse, Commit, ExecuteFirst, ExecuteSecond,
                AbortSecond, GetCompleteUser, FetchEnds, CallGoesOn, RegisterEnds,
                EditEnds, CallThrows, clientVars
  <2> QED BY <1>1, <2>1 DEF Plain, schemaVars
<1>6. ASSUME Reset \/ Setup, UNCHANGED clientVars
      PROVE  Plain'
  <2>1. scripts' \subseteq ScriptSet
    BY <1>1, <1>6, ScriptStarts DEF Plain
  <2>2. requests' \in 0..MaxRequests /\ resets' \in 0..requests'
    BY <1>1, <1>6, ScriptStarts, RequestsAssumption DEF Plain
  <2>3. UNCHANGED <<transactional, tables, recreated, switches, early>>
    BY <1>1, <1>6, ScriptStarts DEF clientVars
  <2> QED BY <1>1, <2>1, <2>2, <2>3 DEF Plain
<1>7. ASSUME NEW r \in scripts, RunStatement(r), UNCHANGED clientVars
      PROVE  Plain'
  <2>1. scripts' \subseteq ScriptSet
    BY <1>1, <1>7, ScriptsStep DEF Plain
  <2>2. Head(r.left) \in {"create Users", "create DomainUsers", "drop Users",
                          "drop DomainUsers"}
    BY <1>1, <1>7, ScriptsStep, ScriptForms
  <2>3. tables' \subseteq {"Users", "DomainUsers"}
    BY <1>1, <1>7, <2>2 DEF Plain, RunStatement, Executed
  <2>4. recreated' \in BOOLEAN /\ UNCHANGED <<transactional, resets, requests, switches, early>>
    BY <1>1, <1>7 DEF Plain, RunStatement, clientVars
  <2> QED BY <1>1, <2>1, <2>3, <2>4 DEF Plain
<1>8. ASSUME Crash, UNCHANGED clientVars
      PROVE  Plain'
  BY <1>1, <1>8 DEF Plain, Crash, clientVars
<1>9. CASE UNCHANGED vars
  BY <1>1, <1>9 DEF vars, accountVars, schemaVars, clientVars, Plain
<1> QED BY <1>3, <1>4, <1>5, <1>6, <1>7, <1>8, <1>9 DEF Next

\* What the store is set to when an answer arrives, or a call throws.
LEMMA StoreFits ==
    ASSUME NEW t \in TaskSet, Credential(t) \in Credentials, store \in StoreType
    PROVE  /\ Shown(t, t.result) \in StoreType
           /\ t.then # "nobody" => StoreAfterError(t) \in StoreType
           /\ Store("Registered", Credential(t), FALSE, store.user, TRUE) \in StoreType
           /\ Store("Unregistered", Credential(t), FALSE, Nobody, TRUE) \in StoreType
<1>1. /\ t.result \in UserShown \cup {Nobody} /\ store.user \in UserShown \cup {Nobody}
      /\ t.then \in {"fetch", "register", "registered", "edit", "edited", "nobody"}
  BY DEF TaskSet, StoreType
<1>2. ASSUME NEW x \in {"Fetching", "Unregistered", "Registered"}, NEW e \in BOOLEAN,
             NEW user \in UserShown \cup {Nobody}
      PROVE  Store(x, Credential(t), FALSE, user, e) \in StoreType
  BY DEF Store, StoreType
<1>3. Shown(t, t.result) \in StoreType
  BY <1>1, <1>2 DEF Shown
<1>4. t.then # "nobody" => StoreAfterError(t) \in StoreType
  BY <1>1, <1>2 DEF StoreAfterError
<1> QED BY <1>1, <1>2, <1>3, <1>4

\* The account and the store keep their types.
LEMMA ClientFitsStep ==
    ASSUME TypeInvariant, [Next]_vars
    PROVE  ClientFits'
<1>1. /\ account \in AnyAccount /\ store \in StoreType
      /\ tasks \subseteq TaskSet /\ \A t \in tasks : Credential(t) \in Credentials
  BY DEF TypeInvariant, ClientFits, TasksFit
<1>2. ASSUME NEW c \in AnyAccount, SwitchAccount(c)
      PROVE  ClientFits'
  <2>1. store' \in StoreType
    <3>1. Idle \in StoreType
      BY DEF Idle, StoreType
    <3>2. HasSigner(c) => Store("Fetching", c, FALSE, Nobody, FALSE) \in StoreType
      BY OwnAssumption DEF Store, StoreType, HasSigner
    <3> QED BY <1>2, <3>1, <3>2 DEF SwitchAccount
  <2> QED BY <1>2, <2>1 DEF SwitchAccount, ClientFits, StoreType, UserShown
<1>3. ASSUME NEW c \in OwnAccounts, NEW name \in Names, Register(c, name)
      PROVE  ClientFits'
  <2>1. store' \in StoreType
    BY <1>1, <1>3, OwnAssumption DEF Register, HasSigner, Store, StoreType
  <2> QED BY <1>1, <1>3, <2>1 DEF Register, ClientFits, StoreType, UserShown
<1>4. ASSUME NEW name \in Names, Edit(name)
      PROVE  ClientFits'
  <2>1. store' \in StoreType
    BY <1>1, <1>4 DEF Edit, StoreType
  <2> QED BY <1>1, <1>4, <2>1 DEF Edit, ClientFits, StoreType, UserShown
<1>5. ASSUME NEW t \in tasks,
             FetchEnds(t) \/ RegisterEnds(t) \/ EditEnds(t) \/ CallThrows(t)
      PROVE  ClientFits'
  <2>1. store' \in StoreType
    <3>1. store' \in {store, Shown(t, t.result),
                      Store("Registered", Credential(t), FALSE, store.user, TRUE),
                      Store("Unregistered", Credential(t), FALSE, Nobody, TRUE)}
            \/ (t.then # "nobody" /\ store' = StoreAfterError(t))
      BY <1>5 DEF FetchEnds, RegisterEnds, EditEnds, CallThrows
    <3> QED BY <1>1, <3>1, StoreFits
  <2>2. account' = account
    BY <1>5 DEF FetchEnds, RegisterEnds, EditEnds, CallThrows
  <2> QED BY <1>1, <2>1, <2>2 DEF ClientFits, StoreType, UserShown
<1>6. ASSUME UNCHANGED <<account, store>>
      PROVE  ClientFits'
  BY <1>1, <1>6 DEF ClientFits, StoreType, UserShown
<1>7. ASSUME NEW t \in tasks, CallGoesOn(t)
      PROVE  UNCHANGED <<account, store>>
  BY <1>7 DEF CallGoesOn, clientVars
<1>8. ASSUME NEW op, NEW c, NEW name, OtherDevice(op, c, name)
      PROVE  UNCHANGED <<account, store>>
  BY <1>8 DEF OtherDevice, clientVars
<1>9. ASSUME UNCHANGED vars \/ UNCHANGED clientVars
      PROVE  UNCHANGED <<account, store>>
  BY <1>9 DEF vars, clientVars
<1> QED BY <1>2, <1>3, <1>4, <1>5, <1>6, <1>7, <1>8, <1>9 DEF Next

\* Every step keeps the types.
LEMMA TypeStep ==
    ASSUME TypeInvariant, [Next]_vars
    PROVE  TypeInvariant'
<1>1. TasksFit'
  BY TasksStep DEF TasksFit, Credential, TaskSet, UserShown
<1> QED BY <1>1, PlainStep, TablesFitStep, ClientFitsStep DEF TypeInvariant

\* A set with no two members has one at most.
LEMMA AtMostOne ==
    ASSUME NEW S, \A x, y \in S : x = y
    PROVE  Cardinality(S) <= 1
<1>1. CASE S = {}
  BY <1>1, FS_EmptySet
<1>2. CASE S # {}
  <2>1. PICK x \in S : S = {x}
    BY <1>2
  <2> QED BY <2>1, FS_Singleton
<1> QED BY <1>1, <1>2

\* Whatever the credentials, the names and the bounds, every variable keeps its
\* type, and the tables of Accounts.tla keep their primary keys: the statements
\* of register and editUser (api/user/index.ts) never make a second row of a user.
THEOREM TypeCorrect == Spec => []TypeOK
<1>1. TypeInvariant => TypeOK
  <2> SUFFICES ASSUME TypeInvariant PROVE TypeOK
    OBVIOUS
  <2>1. ASSUME NEW u
        PROVE  Cardinality(Row(u)) <= 1 /\ Cardinality(DomainRow(u)) <= 1
    <3>1. /\ \A r, q \in Row(u) : r = q
          /\ \A r, q \in DomainRow(u) : r = q
      BY DEF TypeInvariant, TablesFit, KeysUnique, Row, DomainRow
    <3> QED BY <3>1, AtMostOne
  <2>2. /\ users \subseteq UserRow /\ domainUsers \subseteq DomainUserRow
        /\ tasks \subseteq TaskSet
    BY DEF TypeInvariant, TablesFit, TasksFit
  <2> QED BY <2>1, <2>2
      DEF TypeInvariant, TypeOK, Plain, ClientFits, UserRow, DomainUserRow, StoreType
<1>2. TypeInvariant /\ [Next]_vars => TypeInvariant'
  BY TypeStep
<1> QED BY TypeInit, <1>1, <1>2, PTL DEF Spec

-----------------------------------------------------------------------------
(* The tables, whatever the clients do. *)

\* The tables and the script change only as setup() and reset() do.
LEMMA ScriptStep ==
    ASSUME TypeInvariant, [Next]_vars
    PROVE  \/ UNCHANGED schemaVars
           \/ Reset \/ Setup \/ Crash
           \/ \E r \in scripts : RunStatement(r)
<1>1. ASSUME NEW t \in tasks,
             \/ ServerStep(t)
             \/ FetchEnds(t) \/ CallGoesOn(t) \/ RegisterEnds(t) \/ EditEnds(t)
             \/ CallThrows(t)
      PROVE  UNCHANGED schemaVars
  BY <1>1 DEF ServerStep, Authenticate, Refuse, Commit, ExecuteFirst, ExecuteSecond,
              AbortSecond, GetCompleteUser, FetchEnds, CallGoesOn, RegisterEnds,
              EditEnds, CallThrows
<1>2. ASSUME \/ \E c \in AnyAccount : SwitchAccount(c)
             \/ \E c \in OwnAccounts, name \in Names : Register(c, name)
             \/ \E name \in Names : Edit(name)
             \/ \E c \in Credentials, name \in Names \cup {NoName} :
                  OtherDevice("register", c, name)
             \/ \E c \in OwnAccounts, name \in Names : OtherDevice("edit", c, name)
      PROVE  UNCHANGED schemaVars
  BY <1>2 DEF SwitchAccount, Register, Edit, OtherDevice
<1> QED BY <1>1, <1>2 DEF Next, vars, accountVars

\* The second statement of a registration that was not refused comes last.
Signed ==
    /\ SignatureIsForKey
    /\ \A t \in tasks : t.step = "second" => ~Refused(t)

LEMMA SignedStep ==
    ASSUME TypeInvariant, Signed, [Next]_vars
    PROVE  Signed'
<1>1. TablesFit /\ tasks \subseteq TaskSet
  BY DEF TypeInvariant, TasksFit
<1>2. SignatureIsForKey'
  <2>1. CASE domainUsers' = domainUsers \/ domainUsers' = {}
    BY <2>1 DEF Signed, SignatureIsForKey
  <2>2. ASSUME NEW t \in tasks, domainUsers' = SecondStatement(t), ~KeyTaken(t),
               Commit(t) \/ ExecuteSecond(t)
        PROVE  SignatureIsForKey'
    <3>1. ~Refused(t)
      BY <2>2 DEF Signed, Commit, Executable, ExecuteSecond
    <3>2. t.op = "register" => t.signature = [address |-> t.address, key |-> t.key]
      BY <3>1 DEF Refused
    <3>3. \A q \in domainUsers' :
            \/ \E r \in domainUsers :
                 q.user = r.user /\ q.key = r.key /\ q.signature = r.signature
            \/ /\ t.op = "register"
               /\ q.user = t.address /\ q.key = t.key /\ q.signature = t.signature
      BY <1>1, <2>2, SecondStatementFits
    <3> QED BY <3>2, <3>3, ZenonT(60) DEF Signed, SignatureIsForKey
  <2> QED BY <2>1, <2>2, TablesStep
<1>3. ASSUME NEW q \in tasks', q.step = "second"
      PROVE  ~Refused(q)
  <2>1. CASE q \in tasks
    BY <1>3, <2>1 DEF Signed
  <2>2. ASSUME NEW t \in tasks, Follows(t, q)
        PROVE  ~Refused(q)
    <3>1. ~Refused(t)
      BY <1>3, <2>2 DEF Follows, Signed, ExecuteFirst, Executable
    <3> QED BY <2>2, <3>1 DEF Follows, Same, Refused
  <2> QED BY <1>3, <2>1, <2>2, TasksStep DEF Made
<1> QED BY <1>2, <1>3 DEF Signed, Refused

\* Whatever the credentials and the bounds, on every database: the signature
\* kept with an account is by its address and for its key.  The handler of
\* register (api/user/index.ts) compares the three before it writes, and an
\* account that registers again keeps both.
THEOREM SignaturesAreForKeys == Spec => []SignatureIsForKey
<1>1. Init => TypeInvariant /\ Signed
  <2>1. Init => Signed
    BY DEF Init, AccountsInit, Signed, SignatureIsForKey
  <2> QED BY <2>1, TypeInit
<1>2. TypeInvariant /\ Signed /\ [Next]_vars => TypeInvariant' /\ Signed'
  BY TypeStep, SignedStep
<1>3. Signed => SignatureIsForKey
  BY DEF Signed
<1> QED BY <1>1, <1>2, <1>3, PTL DEF Spec

\* Rows and the order of the statements that make and drop them: a row of
\* Users is written first and dropped last.
Complete ==
    /\ AccountsAreComplete
    /\ ~recreated => \A r \in scripts :
         r.left = Halfway => domainUsers = {} /\ "DomainUsers" \notin tables
    /\ \A t \in tasks : t.step = "second" =>
         /\ "DomainUsers" \in tables
         /\ t.op = "register" => \E r \in users : r.address = t.address

\* A statement of a setup or a reset.
LEMMA CompleteStatement ==
    ASSUME TypeInvariant, Complete, NEW s \in scripts, RunStatement(s)
    PROVE  Complete'
<1>1. /\ s.left \in Parts /\ Plain
      /\ \A q \in scripts' : q \in scripts \/ q.left = Tail(s.left)
      /\ \A q \in scripts : q.left \in Parts
  BY ScriptsStep DEF TypeInvariant, Plain, ScriptSet
<1> DEFINE head == Head(s.left)
<1>2. /\ tasks' = tasks /\ \A t \in tasks : t.step # "second"
      /\ Executed(head)
      /\ ~recreated' => ~recreated
      /\ ~recreated' /\ head = "create DomainUsers" =>
           \A q \in scripts : Head(q.left) # "drop Users"
  BY DEF RunStatement, BetweenDrops
<1>3. /\ head \in {"create Users", "create DomainUsers", "drop Users", "drop DomainUsers"}
      /\ head = "drop Users" <=> s.left = Halfway
      /\ Tail(s.left) = Halfway => head = "drop DomainUsers"
  BY <1>1, ScriptForms
<1>4. \A q \in scripts : Head(q.left) = "drop Users" <=> q.left = Halfway
  BY <1>1, ScriptForms
<1> HIDE DEF head
<1>5. ASSUME ~recreated'
      PROVE  \A r \in domainUsers' : \E q \in users' : q.address = r.user
  <2>1. \A r \in domainUsers : \E q \in users : q.address = r.user
    BY <1>2, <1>5 DEF Complete, AccountsAreComplete, Row
  <2>2. head = "drop Users" => domainUsers' = {}
    BY <1>2, <1>3, <1>5 DEF Complete, Executed
  <2>3. head # "drop Users" => users' = users
    BY <1>2 DEF Executed
  <2>4. domainUsers' \subseteq domainUsers
    BY <1>2 DEF Executed
  <2> QED BY <2>1, <2>2, <2>3, <2>4
<1>6. ASSUME ~recreated', NEW r \in scripts', r.left = Halfway
      PROVE  domainUsers' = {} /\ "DomainUsers" \notin tables'
  <2>1. CASE head = "drop DomainUsers"
    BY <1>2, <2>1 DEF Executed
  <2>2. CASE head # "drop DomainUsers"
    <3>1. r \in scripts
      BY <1>1, <1>3, <1>6, <2>2
    <3>2. domainUsers = {} /\ "DomainUsers" \notin tables
      BY <1>2, <1>6, <3>1 DEF Complete
    <3>3. head # "create DomainUsers"
      BY <1>2, <1>4, <1>6, <3>1
    <3>4. head \in {"create Users", "drop Users"}
      BY <1>3, <2>2, <3>3
    <3> QED BY <1>2, <3>2, <3>4 DEF Executed
  <2> QED BY <2>1, <2>2
<1>7. \A t \in tasks' : t.step # "second"
  BY <1>2
<1> QED BY <1>5, <1>6, <1>7 DEF Complete, AccountsAreComplete, Row

LEMMA CompleteStep ==
    ASSUME TypeInvariant, Complete, [Next]_vars
    PROVE  Complete'
<1>1. TablesFit /\ tasks \subseteq TaskSet /\ Plain
  BY DEF TypeInvariant, TasksFit
<1> SUFFICES ASSUME \A r \in scripts : ~RunStatement(r)
             PROVE  Complete'
  BY CompleteStatement
<1>2. ~recreated => \A r \in domainUsers : \E q \in users : q.address = r.user
  BY DEF Complete, AccountsAreComplete, Row
<1>3. \A r \in users : \E q \in users' : q.address = r.address
  <2>1. CASE users' = users
    BY <2>1
  <2>2. ASSUME NEW t \in tasks, users' = FirstStatement(t)
        PROVE  \A r \in users : \E q \in users' : q.address = r.address
    BY <1>1, <2>2, FirstStatementFits
  <2> QED BY <2>1, <2>2, TablesStep
<1>4. ASSUME NEW t \in tasks, t.op = "register", Commit(t) \/ ExecuteFirst(t)
      PROVE  \E r \in users' : r.address = t.address
  BY <1>1, <1>4, FirstStatementFits DEF Commit, ExecuteFirst
<1>5. /\ tables' = tables /\ recreated' = recreated
      /\ \A r \in scripts' : r \in scripts \/ r.left # Halfway
  <2>1. CASE UNCHANGED schemaVars
    BY <2>1 DEF schemaVars
  <2>2. CASE Reset \/ Setup
    BY <1>1, <2>2, ScriptStarts
  <2>3. CASE Crash
    BY <2>3 DEF Crash
  <2> QED BY <2>1, <2>2, <2>3, ScriptStep
<1>6. ASSUME NEW t \in tasks, Commit(t) \/ ExecuteSecond(t)
      PROVE  /\ "DomainUsers" \in tables
             /\ t.op = "register" => \E r \in users' : r.address = t.address
  <2>1. CASE Commit(t)
    BY <1>4, <2>1 DEF Commit, Executable
  <2>2. CASE ExecuteSecond(t)
    BY <2>2 DEF ExecuteSecond, Complete
  <2> QED BY <1>6, <2>1, <2>2
<1>7. ASSUME ~recreated'
      PROVE  \A r \in domainUsers' : \E q \in users' : q.address = r.user
  <2>1. CASE domainUsers' = domainUsers
    BY <1>2, <1>3, <1>5, <1>7, <2>1
  <2>2. ASSUME NEW t \in tasks, domainUsers' = SecondStatement(t), ~KeyTaken(t),
               Commit(t) \/ ExecuteSecond(t), NEW r \in domainUsers'
        PROVE  \E q \in users' : q.address = r.user
    <3>1. CASE \E p \in domainUsers : r.user = p.user
      BY <1>2, <1>3, <1>5, <1>7, <3>1
    <3>2. CASE t.op = "register" /\ r.user = t.address
      BY <1>6, <2>2, <3>2
    <3> QED BY <1>1, <2>2, <3>1, <3>2, SecondStatementFits
  <2> QED BY <2>1, <2>2, TablesStep
<1>8. ASSUME ~recreated', NEW r \in scripts', r.left = Halfway
      PROVE  domainUsers' = {} /\ "DomainUsers" \notin tables'
  <2>1. domainUsers = {} /\ "DomainUsers" \notin tables
    BY <1>5, <1>8 DEF Complete
  <2> QED BY <1>5, <1>6, <2>1, TablesStep
<1>9. ASSUME NEW q \in tasks', q.step = "second"
      PROVE  /\ "DomainUsers" \in tables'
             /\ q.op = "register" => \E r \in users' : r.address = q.address
  <2>1. ASSUME NEW t \in tasks, t.step = "second", q.op = t.op, q.address = t.address
        PROVE  /\ "DomainUsers" \in tables'
               /\ q.op = "register" => \E r \in users' : r.address = q.address
    BY <1>3, <1>5, <2>1 DEF Complete
  <2>2. ASSUME NEW t \in tasks, ExecuteFirst(t), q.op = t.op, q.address = t.address
        PROVE  /\ "DomainUsers" \in tables'
               /\ q.op = "register" => \E r \in users' : r.address = q.address
    BY <1>4, <1>5, <2>2 DEF ExecuteFirst, Executable
  <2>3. ASSUME NEW t \in tasks, Follows(t, q)
        PROVE  /\ q.op = t.op /\ q.address = t.address
               /\ t.step = "second" \/ ExecuteFirst(t)
    BY <1>9, <2>3 DEF Follows, Same
  <2> QED BY <1>9, <2>1, <2>2, <2>3, TasksStep DEF Made
<1> QED BY <1>7, <1>8, <1>9 DEF Complete, AccountsAreComplete, Row

\* Whatever the bounds, with any number of setups and resets at once, and with
\* the batches of Bun that a stop of the server or a failed statement leaves half
\* done: an account of DomainUsers has its row in Users, unless DomainUsers has
\* been made again between the two drops of a reset.  Register writes Users
\* first, and reset() drops it last.
THEOREM AccountsComplete == Spec => []AccountsAreComplete
<1>1. Init => TypeInvariant /\ Complete
  <2>1. Init => Complete
    BY DEF Init, AccountsInit, Complete, AccountsAreComplete
  <2> QED BY <2>1, TypeInit
<1>2. TypeInvariant /\ Complete /\ [Next]_vars => TypeInvariant' /\ Complete'
  BY TypeStep, CompleteStep
<1>3. Complete => AccountsAreComplete
  BY DEF Complete
<1> QED BY <1>1, <1>2, <1>3, PTL DEF Spec

\* Before the first reset nothing is dropped.
NoDrops == resets = 0 => \A r \in scripts : ~Drops(r.left)

LEMMA NoDropsStep ==
    ASSUME TypeInvariant, NoDrops, [Next]_vars
    PROVE  NoDrops' /\ (resets' = 0 => resets = 0)
<1>1. Plain /\ resets \in Nat
  BY RequestsAssumption DEF TypeInvariant, Plain
<1>2. CASE UNCHANGED schemaVars
  BY <1>2 DEF NoDrops, Drops, schemaVars
<1>3. CASE Reset
  <2>1. resets' # 0
    BY <1>1, <1>3, ScriptStarts
  <2> QED BY <2>1 DEF NoDrops
<1>4. CASE Setup /\ ~Reset
  BY <1>1, <1>4, ScriptStarts DEF NoDrops, Drops
<1>5. CASE Crash
  BY <1>5 DEF Crash, NoDrops
<1>6. ASSUME NEW r \in scripts, RunStatement(r)
      PROVE  NoDrops' /\ (resets' = 0 => resets = 0)
  <2>1. resets' = resets
    BY <1>6 DEF RunStatement
  <2>2. /\ \A q \in scripts' : q \in scripts \/ q.left = Tail(r.left)
        /\ Drops(Tail(r.left)) => Drops(r.left)
    BY <1>1, <1>6, ScriptsStep, ScriptForms
  <2> QED BY <2>1, <2>2 DEF NoDrops, Drops
<1> QED BY <1>2, <1>3, <1>4, <1>5, <1>6, ScriptStep

\* What is registered stays, as long as nothing is reset.
LEMMA RowsStay ==
    ASSUME TypeInvariant, NoDrops, [Next]_vars, resets = 0
    PROVE  /\ \A r \in domainUsers : \E q \in domainUsers' :
                /\ q.user = r.user /\ q.key = r.key
                /\ r.username # NoName => q.username # NoName
           /\ \A r \in users : \E q \in users' :
                q.address = r.address /\ (r.name # NoName => q.name # NoName)
<1>1. TablesFit /\ tasks \subseteq TaskSet /\ Plain
  BY DEF TypeInvariant, TasksFit
<1>2. \A r \in scripts :
        RunStatement(r) => Head(r.left) \notin {"drop Users", "drop DomainUsers"}
  BY <1>1, ScriptsStep, ScriptForms DEF NoDrops
<1>3. \A r \in domainUsers : \E q \in domainUsers' :
        /\ q.user = r.user /\ q.key = r.key
        /\ r.username # NoName => q.username # NoName
  <2>1. CASE domainUsers' = domainUsers
    BY <2>1
  <2>2. ASSUME NEW t \in tasks, domainUsers' = SecondStatement(t), ~KeyTaken(t)
        PROVE  \A r \in domainUsers : \E q \in domainUsers' :
                 /\ q.user = r.user /\ q.key = r.key
                 /\ r.username # NoName => q.username # NoName
    BY <1>1, <2>2, SecondStatementFits
  <2> QED BY <1>2, <2>1, <2>2, TablesStep
<1>4. \A r \in users : \E q \in users' :
        q.address = r.address /\ (r.name # NoName => q.name # NoName)
  <2>1. CASE users' = users
    BY <2>1
  <2>2. ASSUME NEW t \in tasks, users' = FirstStatement(t)
        PROVE  \A r \in users : \E q \in users' :
                 q.address = r.address /\ (r.name # NoName => q.name # NoName)
    BY <1>1, <2>2, FirstStatementFits
  <2> QED BY <1>2, <2>1, <2>2, TablesStep
<1> QED BY <1>3, <1>4

\* A handler acts for the owner of the key: the row that the middleware has
\* found is still there, however many requests have been handled since.
LEMMA OwnersStay ==
    ASSUME TypeInvariant, NoDrops, ActsForOwnerOfKey, [Next]_vars
    PROVE  ActsForOwnerOfKey'
<1> SUFFICES ASSUME resets' = 0, NEW q \in tasks', q.account # Nobody
             PROVE  \E r \in domainUsers' : r.user = q.account /\ r.key = q.key
  BY DEF ActsForOwnerOfKey
<1>1. resets = 0 /\ TablesFit
  BY NoDropsStep DEF TypeInvariant
<1>2. \A r \in domainUsers : \E p \in domainUsers' : p.user = r.user /\ p.key = r.key
  BY <1>1, RowsStay
<1>3. CASE \E r \in domainUsers : r.user = q.account /\ r.key = q.key
  BY <1>2, <1>3
<1>4. CASE q \in tasks
  BY <1>1, <1>2, <1>4 DEF ActsForOwnerOfKey
<1>5. ASSUME NEW t \in tasks, Follows(t, q)
      PROVE  \E r \in domainUsers : r.user = q.account /\ r.key = q.key
  <2>1. CASE q.account = AccountOf(t.key)
    BY <1>1, <1>5, <2>1, AccountOfFits DEF Follows, Same
  <2>2. CASE q.account = t.account
    BY <1>1, <1>5, <2>2 DEF Follows, Same, ActsForOwnerOfKey
  <2> QED BY <1>5, <2>1, <2>2 DEF Follows
<1> QED BY <1>3, <1>4, <1>5, TasksStep DEF Made

\* Whatever the bounds, on every database: a handler (register, editUser) works
\* for the account that owns the key that signed, although setup.ts has looked
\* that account up at an earlier moment.
THEOREM ActsForOwner == Spec => []ActsForOwnerOfKey
<1>1. Init => TypeInvariant /\ NoDrops /\ ActsForOwnerOfKey
  BY TypeInit DEF Init, AccountsInit, NoDrops, ActsForOwnerOfKey
<1>2. TypeInvariant /\ NoDrops /\ ActsForOwnerOfKey /\ [Next]_vars
        => TypeInvariant' /\ NoDrops' /\ ActsForOwnerOfKey'
  BY TypeStep, NoDropsStep, OwnersStay
<1> QED BY <1>1, <1>2, PTL DEF Spec

\* Whatever the bounds, on every database, through crashes and statements that
\* fail: no account, key or name once given goes away until somebody resets the
\* database (the statements of api/user/index.ts).
THEOREM RegistrationsStay == Spec => RegistrationIsKept
<1>1. Init => TypeInvariant /\ NoDrops
  BY TypeInit DEF Init, AccountsInit, NoDrops
<1>2. TypeInvariant /\ NoDrops /\ [Next]_vars => TypeInvariant' /\ NoDrops'
  BY TypeStep, NoDropsStep
<1>3. TypeInvariant /\ NoDrops /\ [Next]_vars =>
        [resets = 0 =>
          /\ \A r \in domainUsers : \E q \in domainUsers' :
               /\ q.user = r.user /\ q.key = r.key
               /\ r.username # NoName => q.username # NoName
          /\ \A r \in users : \E q \in users' :
               q.address = r.address /\ (r.name # NoName => q.name # NoName)
        ]_<<users, domainUsers>>
  BY RowsStay
<1> QED BY <1>1, <1>2, <1>3, PTL DEF Spec, RegistrationIsKept

-----------------------------------------------------------------------------
(* What the client shows. *)

\* An error stays an error.
LEMMA ErrorParts ==
    ASSUME NEW t, t.then \in {"fetch", "register", "registered", "edit", "edited"}
    PROVE  \/ StoreAfterError(t) = store
           \/ /\ StoreAfterError(t).step \in {"Fetching", "Unregistered"}
              /\ StoreAfterError(t).error /\ StoreAfterError(t).user = Nobody
BY DEF StoreAfterError, Store

\* The store is about the account of the moment, also when it shows a
\* registered user with an error.
Current ==
    ~store.error \/ store.step = "Registered" =>
      \/ store.step = "Idle" /\ ~HasSigner(account)
      \/ /\ store.step # "Idle"
         /\ account # NoAccount /\ store.of.address = account.address

\* An account that has a signer is one.
LEMMA SignerAccount == ASSUME NEW a, HasSigner(a) PROVE a # NoAccount
<1>1. a \in Credentials
  BY OwnAssumption DEF HasSigner
<1>2. a = [address |-> a.address, key |-> a.key] /\ a.address \in Addresses /\ a.key \in Keys
  BY <1>1, CredentialAssumption, CredentialFields
<1> QED BY <1>2, OwnAssumption

LEMMA CurrentStep ==
    ASSUME TypeInvariant, Current, [Next]_vars
    PROVE  Current'
<1>1. /\ store \in StoreType /\ tasks \subseteq TaskSet
      /\ account \in AnyAccount
  BY DEF TypeInvariant, ClientFits, TasksFit
<1>2. ASSUME NEW c \in AnyAccount, SwitchAccount(c)
      PROVE  Current'
  <2>1. /\ account' = c
        /\ ~HasSigner(c) => store' = Idle
        /\ HasSigner(c) => store' = Store("Fetching", c, FALSE, Nobody, FALSE)
    BY <1>2 DEF SwitchAccount
  <2>2. Idle.step = "Idle"
    BY DEF Idle
  <2>3. HasSigner(c) => c # NoAccount
    BY SignerAccount
  <2> QED BY <2>1, <2>2, <2>3 DEF Current, Store, HasSigner
<1>3. ASSUME NEW c \in OwnAccounts, NEW name \in Names, Register(c, name)
      PROVE  Current'
  <2>1. /\ account' = account /\ account # NoAccount
        /\ store' = Store("Unregistered", account, TRUE, Nobody, FALSE)
    BY <1>3, SignerAccount DEF Register
  <2> QED BY <2>1 DEF Current, Store
<1>4. ASSUME NEW name \in Names, Edit(name)
      PROVE  Current'
  <2>1. /\ account' = account /\ store.step = "Registered"
        /\ store'.step = store.step /\ store'.of = store.of
    BY <1>1, <1>4 DEF Edit, StoreType
  <2> QED BY <2>1 DEF Current, HasSigner
<1>5. ASSUME NEW t \in tasks, FetchEnds(t) \/ RegisterEnds(t) \/ EditEnds(t)
      PROVE  Current'
  <2>1. account' = account
    BY <1>5 DEF FetchEnds, RegisterEnds, EditEnds
  <2>2. CASE store' = store
    BY <2>1, <2>2 DEF Current, HasSigner
  <2>3. CASE ~ChangedSince(t)
    <3>1. account # NoAccount /\ account.address = t.address
      BY <2>3 DEF ChangedSince
    <3>2. store' \in {Shown(t, t.result),
                      Store("Registered", Credential(t), FALSE, store.user, TRUE),
                      Store("Unregistered", Credential(t), FALSE, Nobody, TRUE)}
      BY <1>5, <2>3 DEF FetchEnds, RegisterEnds, EditEnds
    <3>3. store'.step # "Idle" /\ store'.of.address = t.address
      BY <3>2 DEF Shown, Store, Credential
    <3> QED BY <2>1, <3>1, <3>3 DEF Current, HasSigner
  <2> QED BY <1>5, <2>2, <2>3 DEF FetchEnds, RegisterEnds, EditEnds
<1>6. ASSUME NEW t \in tasks, CallThrows(t)
      PROVE  Current'
  <2>1. t.then \in {"fetch", "register", "registered", "edit", "edited"}
    BY <1>1, <1>6 DEF CallThrows, TaskSet
  <2>2. account' = account /\ store' = StoreAfterError(t)
    BY <1>6 DEF CallThrows
  <2> QED BY <2>1, <2>2, ErrorParts DEF Current, HasSigner
<1>7. ASSUME UNCHANGED <<account, store>>
      PROVE  Current'
  BY <1>7 DEF Current, HasSigner
<1>8. ASSUME NEW t \in tasks, CallGoesOn(t)
      PROVE  UNCHANGED <<account, store>>
  BY <1>8 DEF CallGoesOn, clientVars
<1>9. ASSUME NEW op, NEW c, NEW name, OtherDevice(op, c, name)
      PROVE  UNCHANGED <<account, store>>
  BY <1>9 DEF OtherDevice, clientVars
<1>10. ASSUME UNCHANGED vars \/ UNCHANGED clientVars
       PROVE  UNCHANGED <<account, store>>
  BY <1>10 DEF vars, clientVars
<1> QED BY <1>2, <1>3, <1>4, <1>5, <1>6, <1>7, <1>8, <1>9, <1>10 DEF Next

\* Whatever the switches and the order of the answers: unless it shows an
\* error, the store of registration/index.ts is about the account of the moment
\* or, when that has no signer, idle; an answer that arrives once the signer is
\* lost is for the address that has lost it.
THEOREM CurrentAccountShown == Spec => []ShowsCurrentAccount
<1>1. Init => TypeInvariant /\ Current
  <2>1. Init => Current
    <3>1. ~HasSigner(NoAccount)
      BY SignerAccount
    <3> QED BY <3>1 DEF Init, Idle, Current
  <2> QED BY <2>1, TypeInit
<1>2. TypeInvariant /\ Current /\ [Next]_vars => TypeInvariant' /\ Current'
  BY TypeStep, CurrentStep
<1>3. Current => ShowsCurrentAccount
  BY DEF Current, ShowsCurrentAccount
<1> QED BY <1>1, <1>2, <1>3, PTL DEF Spec

\* A user that is shown, or that an answer brings, is one of the server.
Known(rows, user, address) ==
    \E r \in rows : r.user = address /\ (user # Nobody => user.key = r.key)

UsersKnown ==
    /\ store.user # Nobody => store.step = "Registered"
    /\ resets = 0 =>
         /\ store.step = "Registered" => Known(domainUsers, store.user, store.of.address)
         /\ \A t \in tasks :
              /\ t.then \in {"edit", "edited"} => Known(domainUsers, Nobody, t.address)
              /\ t.result # Nobody => Known(domainUsers, t.result, t.address)

LEMMA KnownStays ==
    ASSUME NEW rows, NEW next, NEW user, NEW address, Known(rows, user, address),
           \A r \in rows : \E q \in next : q.user = r.user /\ q.key = r.key
    PROVE  Known(next, user, address)
BY DEF Known

\* Requests only ever bring users that the server has.
LEMMA AnswersStayKnown ==
    ASSUME TypeInvariant, NoDrops, Current, UsersKnown, [Next]_vars, resets = 0,
           NEW q \in tasks'
    PROVE  /\ q.then \in {"edit", "edited"} => Known(domainUsers', Nobody, q.address)
           /\ q.result # Nobody => Known(domainUsers', q.result, q.address)
<1>1. \A user, a : Known(domainUsers, user, a) => Known(domainUsers', user, a)
  BY RowsStay, KnownStays
<1>2. CASE q \in tasks
  BY <1>1, <1>2 DEF UsersKnown
<1>3. ASSUME NEW t \in tasks, Follows(t, q)
      PROVE  /\ q.then \in {"edit", "edited"} => Known(domainUsers, Nobody, q.address)
             /\ q.result # Nobody => Known(domainUsers, q.result, q.address)
  <2>1. q.address = t.address
    BY <1>3 DEF Follows, Same
  <2>2. q.then = t.then \/ q.then = "nobody"
    BY <1>3 DEF Follows
  <2>3. q.result = t.result \/ q.result = CompleteUser(t.address)
    BY <1>3 DEF Follows
  <2>4. CompleteUser(t.address) # Nobody =>
          Known(domainUsers, CompleteUser(t.address), t.address)
    BY CompleteUserFits DEF TypeInvariant, Known
  <2> QED BY <2>1, <2>2, <2>3, <2>4 DEF UsersKnown
<1>4. ASSUME Made(q), q.then \in {"edit", "edited"}
      PROVE  Known(domainUsers, Nobody, q.address)
  <2>1. ASSUME NEW name \in Names, Edit(name), q.address = account.address
        PROVE  Known(domainUsers, Nobody, q.address)
    <3>1. store.step = "Registered"
      BY <2>1 DEF Edit
    <3>2. store.of.address = account.address
      BY <3>1 DEF Current, HasSigner
    <3> QED BY <2>1, <3>1, <3>2 DEF UsersKnown, Known
  <2>2. ASSUME NEW t \in tasks, CallGoesOn(t), t.then # "register", q.address = t.address
        PROVE  Known(domainUsers, Nobody, q.address)
    <3>1. t.then = "edit"
      BY <2>2 DEF CallGoesOn, Done
    <3> QED BY <2>2, <3>1 DEF UsersKnown
  <2> QED BY <1>4, <2>1, <2>2 DEF Made
<1>5. CASE Made(q)
  BY <1>1, <1>4, <1>5 DEF Made
<1> QED BY <1>1, <1>2, <1>3, <1>5, TasksStep

\* What the store may show after a step.
LEMMA StoreStaysKnown ==
    ASSUME TypeInvariant, NoDrops, Current, UsersKnown, [Next]_vars
    PROVE  /\ store'.user # Nobody => store'.step = "Registered"
           /\ resets = 0 /\ store'.step = "Registered" =>
                Known(domainUsers, store'.user, store'.of.address)
<1> DEFINE Good(s) == /\ s.user # Nobody => s.step = "Registered"
                      /\ resets = 0 /\ s.step = "Registered" =>
                           Known(domainUsers, s.user, s.of.address)
<1>1. /\ store \in StoreType /\ tasks \subseteq TaskSet /\ Good(store)
  BY DEF TypeInvariant, ClientFits, TasksFit, UsersKnown
<1>2. ASSUME NEW c \in AnyAccount, SwitchAccount(c)
      PROVE  Good(store')
  <2>1. store' \in {Idle, Store("Fetching", c, FALSE, Nobody, FALSE)}
    BY <1>2 DEF SwitchAccount
  <2>2. Idle.step = "Idle" /\ Idle.user = Nobody
    BY DEF Idle
  <2> QED BY <2>1, <2>2 DEF Store
<1>3. ASSUME NEW c \in OwnAccounts, NEW name \in Names, Register(c, name)
      PROVE  Good(store')
  <2>1. store' = Store("Unregistered", account, TRUE, Nobody, FALSE)
    BY <1>3 DEF Register
  <2> QED BY <2>1 DEF Store
<1>4. ASSUME NEW name \in Names, Edit(name)
      PROVE  Good(store')
  <2>1. /\ store'.step = store.step /\ store'.of = store.of /\ store'.user = store.user
    BY <1>1, <1>4 DEF Edit, StoreType
  <2> QED BY <1>1, <2>1
<1>5. ASSUME NEW t \in tasks, FetchEnds(t) \/ RegisterEnds(t) \/ EditEnds(t)
      PROVE  Good(store')
  <2>1. CASE store' = store
    BY <1>1, <2>1
  <2>2. CASE store' = Shown(t, t.result)
    <3>1. resets = 0 /\ t.result # Nobody => Known(domainUsers, t.result, t.address)
      BY DEF UsersKnown
    <3> QED BY <2>2, <3>1 DEF Shown, Store, Credential
  <2>3. CASE store' = Store("Unregistered", Credential(t), FALSE, Nobody, TRUE)
    BY <2>3 DEF Store, Credential
  <2>4. CASE /\ EditEnds(t) /\ ~ChangedSince(t)
             /\ store' = Store("Registered", Credential(t), FALSE, store.user, TRUE)
    <3>1. resets = 0 => Known(domainUsers, Nobody, t.address)
      BY <2>4 DEF EditEnds, Done, UsersKnown
    <3>2. store.user # Nobody => store.of.address = t.address
      BY <1>1, <2>4 DEF Current, ChangedSince
    <3>3. resets = 0 => Known(domainUsers, store.user, t.address)
      BY <1>1, <3>1, <3>2 DEF Known
    <3> QED BY <2>4, <3>3 DEF Store, Credential
  <2> QED BY <1>5, <2>1, <2>2, <2>3, <2>4 DEF FetchEnds, RegisterEnds, EditEnds
<1>6. ASSUME NEW t \in tasks, CallThrows(t)
      PROVE  Good(store')
  <2>1. t.then \in {"fetch", "register", "registered", "edit", "edited"}
    BY <1>1, <1>6 DEF CallThrows, TaskSet
  <2>2. store' = StoreAfterError(t)
    BY <1>6 DEF CallThrows
  <2> QED BY <1>1, <2>1, <2>2, ErrorParts
<1>7. ASSUME UNCHANGED store
      PROVE  Good(store')
  BY <1>1, <1>7
<1>8. ASSUME NEW t \in tasks, CallGoesOn(t)
      PROVE  UNCHANGED store
  BY <1>8 DEF CallGoesOn, clientVars
<1>9. ASSUME NEW op, NEW c, NEW name, OtherDevice(op, c, name)
      PROVE  UNCHANGED store
  BY <1>9 DEF OtherDevice, clientVars
<1>10. ASSUME UNCHANGED vars \/ UNCHANGED clientVars
       PROVE  UNCHANGED store
  BY <1>10 DEF vars, clientVars
<1> HIDE DEF Good
<1>11. Good(store')
  BY <1>2, <1>3, <1>4, <1>5, <1>6, <1>7, <1>8, <1>9, <1>10 DEF Next
<1> QED BY <1>11 DEF Good

LEMMA UsersKnownStep ==
    ASSUME TypeInvariant, NoDrops, Current, UsersKnown, [Next]_vars
    PROVE  UsersKnown'
<1>1. resets' = 0 => resets = 0
  BY NoDropsStep
<1>2. resets = 0 =>
        \A user, a : Known(domainUsers, user, a) => Known(domainUsers', user, a)
  BY RowsStay, KnownStays
<1>3. /\ store'.user # Nobody => store'.step = "Registered"
      /\ resets = 0 /\ store'.step = "Registered" =>
           Known(domainUsers', store'.user, store'.of.address)
  BY <1>2, StoreStaysKnown
<1>4. resets = 0 =>
        \A q \in tasks' :
          /\ q.then \in {"edit", "edited"} => Known(domainUsers', Nobody, q.address)
          /\ q.result # Nobody => Known(domainUsers', q.result, q.address)
  BY AnswersStayKnown
<1> QED BY <1>1, <1>3, <1>4 DEF UsersKnown

\* Whatever the switches, the order of the answers and the requests of other
\* devices: until something is reset, the user that registration/index.ts shows
\* as registered is one of the server, with the key that the server has.
THEOREM RegisteredUsersShown == Spec => []ShowsRegisteredUsers
<1>1. Init => TypeInvariant /\ NoDrops /\ Current /\ UsersKnown
  <2>1. Init => Current /\ UsersKnown
    <3>1. ~HasSigner(NoAccount)
      BY SignerAccount
    <3> QED BY <3>1 DEF Init, AccountsInit, Idle, Current, UsersKnown
  <2> QED BY <2>1, TypeInit DEF Init, AccountsInit, NoDrops
<1>2. TypeInvariant /\ NoDrops /\ Current /\ UsersKnown /\ [Next]_vars
        => TypeInvariant' /\ NoDrops' /\ Current' /\ UsersKnown'
  BY TypeStep, NoDropsStep, CurrentStep, UsersKnownStep
<1>3. UsersKnown => ShowsRegisteredUsers
  BY DEF UsersKnown, Known, ShowsRegisteredUsers
<1> QED BY <1>1, <1>2, <1>3, PTL DEF Spec

-----------------------------------------------------------------------------
(* Answers that are late. *)

\* Until the account has been changed twice, or register() called early, the
\* client waits for nothing else while it fetches a profile.
FetchAlone(ts) ==
    \A t \in ts : t.then = "fetch" => \A q \in ts : q.then # "nobody" => q = t

NoFetch(ts) == \A t \in ts : t.then # "fetch"

NoCall(ts) == \A t \in ts : t.then = "nobody"

FirstFetch ==
    /\ switches = 0 => account = NoAccount /\ NoCall(tasks)
    /\ switches <= 1 /\ ~early =>
         FetchAlone(tasks) /\ (store.step = "Fetching" \/ NoFetch(tasks))

\* A request goes on, or ends, or loses its client.
LEMMA AloneStays ==
    ASSUME FetchAlone(tasks), NEW t \in tasks, NEW next,
           next.then = t.then \/ next.then = "nobody",
           tasks' \subseteq (tasks \ {t}) \cup {next}
    PROVE  /\ FetchAlone(tasks')
           /\ NoFetch(tasks) => NoFetch(tasks')
           /\ NoCall(tasks) => NoCall(tasks')
           /\ t.then # "nobody" /\ next.then = "nobody" => NoFetch(tasks')
<1> DEFINE P(q) == q.then # "nobody"
           F(q) == q.then = "fetch"
<1>1. \A q \in tasks' : (q \in tasks /\ q # t) \/ q = next
  OBVIOUS
<1>2. (P(next) => P(t)) /\ (F(next) => F(t)) /\ (F(next) => P(next))
  OBVIOUS
<1>3. \A a, b \in tasks : F(a) /\ P(b) => a = b
  BY DEF FetchAlone
<1>4. \A a : F(a) => P(a)
  OBVIOUS
<1> HIDE DEF P, F
<1>5. \A a, b \in tasks' : F(a) /\ P(b) => a = b
  BY <1>1, <1>2, <1>3, <1>4
<1>6. (\A a \in tasks : ~F(a)) => \A a \in tasks' : ~F(a)
  BY <1>1, <1>2
<1>7. P(t) /\ ~P(next) => \A a \in tasks' : ~F(a)
  BY <1>1, <1>3, <1>4
<1>8. (\A a \in tasks : ~P(a)) => \A a \in tasks' : ~P(a)
  BY <1>1, <1>2
<1>9. FetchAlone(tasks')
  <2> SUFFICES ASSUME NEW a \in tasks', F(a), NEW b \in tasks', P(b)
               PROVE  b = a
    BY DEF FetchAlone, P, F
  <2> QED BY <1>5
<1>10. NoFetch(tasks) => NoFetch(tasks')
  BY <1>6 DEF NoFetch, F
<1>12. NoCall(tasks) => NoCall(tasks')
  <2> SUFFICES ASSUME NoCall(tasks), NEW b \in tasks'
               PROVE  ~P(b)
    BY DEF NoCall, P
  <2>1. \A a \in tasks : ~P(a)
    BY DEF NoCall, P
  <2> QED BY <1>8, <2>1
<1>11. t.then # "nobody" /\ next.then = "nobody" => NoFetch(tasks')
  BY <1>7 DEF NoFetch, P, F
<1> QED BY <1>9, <1>10, <1>11, <1>12

\* The requests when no call of the client ends.
LEMMA FetchersStep ==
    ASSUME TypeInvariant, FetchAlone(tasks),
           \/ \E t \in tasks : ServerStep(t)
           \/ \E r \in scripts : RunStatement(r)
           \/ Reset \/ Setup \/ Crash \/ UNCHANGED tasks
    PROVE  /\ FetchAlone(tasks')
           /\ NoFetch(tasks) => NoFetch(tasks')
           /\ NoCall(tasks) => NoCall(tasks')
<1>1. tasks \subseteq TaskSet
  BY DEF TypeInvariant, TasksFit
<1>2. ASSUME NEW t \in tasks, NEW next, Advance(t, next), next.then = t.then
      PROVE  /\ FetchAlone(tasks')
             /\ NoFetch(tasks) => NoFetch(tasks')
             /\ NoCall(tasks) => NoCall(tasks')
  BY <1>2, AdvanceTasks, AloneStays
<1>3. ASSUME NEW t \in tasks, ServerStep(t)
      PROVE  \E next : Advance(t, next) /\ next.then = t.then
  <2>1. t \in TaskSet
    BY <1>1
  <2>2. /\ [t EXCEPT !.step = "failed"].then = t.then
        /\ [t EXCEPT !.step = "ok"].then = t.then
        /\ [t EXCEPT !.step = "second"].then = t.then
        /\ \A u : [t EXCEPT !.step = "handled", !.account = u].then = t.then
        /\ \A u : [t EXCEPT !.step = "ok", !.result = u].then = t.then
    BY <2>1 DEF TaskSet
  <2>3. CASE Authenticate(t)
    BY <2>2, <2>3 DEF Authenticate, Fail
  <2>4. CASE Refuse(t) \/ AbortSecond(t)
    BY <2>2, <2>4 DEF Refuse, AbortSecond, Fail
  <2>5. CASE Commit(t) \/ ExecuteFirst(t) \/ ExecuteSecond(t)
    BY <2>2, <2>5 DEF Commit, ExecuteFirst, ExecuteSecond
  <2>6. CASE GetCompleteUser(t)
    BY <2>2, <2>6 DEF GetCompleteUser, Fail
  <2> QED BY <1>3, <2>3, <2>4, <2>5, <2>6 DEF ServerStep
<1>4. ASSUME Crash
      PROVE  /\ FetchAlone(tasks')
             /\ NoFetch(tasks) => NoFetch(tasks')
             /\ NoCall(tasks) => NoCall(tasks')
  <2> DEFINE Ended(t) == [t EXCEPT !.step = IF @ = "ok" THEN "ok" ELSE "failed"]
  <2>1. \A q \in tasks' : \E t \in tasks : q = Ended(t) /\ t.then # "nobody"
    BY <1>4 DEF Crash
  <2>2. \A t \in tasks : Ended(t).then = t.then
    BY <1>1 DEF TaskSet
  <2> HIDE DEF Ended
  <2> QED BY <2>1, <2>2 DEF FetchAlone, NoFetch, NoCall
<1>5. ASSUME (\E r \in scripts : RunStatement(r)) \/ Reset \/ Setup \/ UNCHANGED tasks
      PROVE  tasks' = tasks
  BY <1>5 DEF Reset, Setup, Runs, RunStatement
<1>6. tasks' = tasks => /\ FetchAlone(tasks')
                        /\ NoFetch(tasks) => NoFetch(tasks')
                        /\ NoCall(tasks) => NoCall(tasks')
  BY DEF FetchAlone, NoFetch, NoCall
<1>7. ASSUME NEW t \in tasks, ServerStep(t)
      PROVE  /\ FetchAlone(tasks')
             /\ NoFetch(tasks) => NoFetch(tasks')
             /\ NoCall(tasks) => NoCall(tasks')
  <2>1. PICK next : Advance(t, next) /\ next.then = t.then
    BY <1>3, <1>7
  <2> QED BY <1>2, <2>1
<1> QED BY <1>4, <1>5, <1>6, <1>7

\* Another request, of somebody whom the client does not wait for, or when
\* nothing is being fetched.
LEMMA RequestAlone ==
    ASSUME FetchAlone(tasks), NEW op, NEW c, NEW signed, NEW name, NEW then,
           Request(op, c, signed, name, then),
           then = "nobody" \/ (then # "fetch" /\ NoFetch(tasks))
    PROVE  FetchAlone(tasks') /\ (NoFetch(tasks) => NoFetch(tasks'))
<1> DEFINE new == Task(requests, op, c, signed, name, then)
<1>1. tasks' = tasks \cup {new} /\ new.then = then
  BY DEF Request, Task
<1> HIDE DEF new
<1> QED BY <1>1 DEF FetchAlone, NoFetch

LEMMA FirstFetchStep ==
    ASSUME TypeInvariant, FirstFetch, [Next]_vars
    PROVE  FirstFetch'
<1>1. switches \in Nat /\ switches' \in Nat /\ tasks \subseteq TaskSet
  <2>1. Plain /\ Plain'
    BY TypeStep DEF TypeInvariant
  <2> QED BY <2>1, SwitchesAssumption DEF Plain, TypeInvariant, TasksFit
<1>2. ASSUME NEW c \in AnyAccount, SwitchAccount(c)
      PROVE  FirstFetch'
  <2>1. switches' = switches + 1 /\ account' = c
    BY <1>2 DEF SwitchAccount
  <2>2. CASE switches # 0
    <3>1. ~(switches' = 0) /\ ~(switches' <= 1)
      BY <1>1, <2>1, <2>2
    <3> QED BY <3>1 DEF FirstFetch
  <2>3. CASE switches = 0
    <3>1. HasSigner(c)
      <4>1. account = NoAccount
        BY <2>3 DEF FirstFetch
      <4>2. ~HasSigner(NoAccount)
        BY SignerAccount
      <4> QED BY <1>2, <4>1, <4>2 DEF SwitchAccount, Changes, HasSigner
    <3> DEFINE new == Task(requests, "get", c, c, NoName, "fetch")
    <3>2. tasks' = tasks \cup {new} /\ store'.step = "Fetching" /\ new.then = "fetch"
      BY <1>2, <3>1 DEF SwitchAccount, Request, Store, Task
    <3>3. \A t \in tasks : t.then = "nobody"
      BY <2>3 DEF FirstFetch, NoCall
    <3> HIDE DEF new
    <3>4. FetchAlone(tasks')
      BY <3>2, <3>3 DEF FetchAlone
    <3>5. switches' # 0
      BY <1>1, <2>1
    <3> QED BY <3>2, <3>4, <3>5 DEF FirstFetch, FetchAlone, NoFetch
  <2> QED BY <2>2, <2>3
<1>3. ASSUME \/ \E c \in OwnAccounts, name \in Names : Register(c, name)
             \/ \E name \in Names : Edit(name)
      PROVE  FirstFetch'
  <2>1. /\ account # NoAccount /\ switches' = switches
        /\ (early => early') /\ (~early' => store.step # "Fetching")
        /\ \E op, d, signed, name, then :
             Request(op, d, signed, name, then) /\ then \in {"register", "edit"}
    <3>1. ASSUME NEW c \in OwnAccounts, NEW name \in Names, Register(c, name)
          PROVE  /\ HasSigner(account) /\ switches' = switches
                 /\ Request("register", account, c, name, "register")
                 /\ early' = (early \/ store.step # "Unregistered" \/ store.busy)
      BY <3>1 DEF Register
    <3>2. ASSUME NEW name \in Names, Edit(name)
          PROVE  /\ HasSigner(account) /\ switches' = switches
                 /\ Request("edit", account, account, name, "edit")
                 /\ early' = early /\ store.step = "Registered"
      BY <3>2 DEF Edit
    <3>3. HasSigner(account) => account # NoAccount
      BY SignerAccount
    <3>4. CASE \E c \in OwnAccounts, name \in Names : Register(c, name)
      BY <3>1, <3>3, <3>4
    <3>5. CASE \E name \in Names : Edit(name)
      BY <3>2, <3>3, <3>5
    <3> QED BY <1>3, <3>4, <3>5
  <2>2. switches # 0
    BY <2>1 DEF FirstFetch
  <2>3. switches <= 1 /\ ~early' => FetchAlone(tasks') /\ NoFetch(tasks')
    BY <2>1, RequestAlone DEF FirstFetch
  <2> QED BY <2>1, <2>2, <2>3 DEF FirstFetch, FetchAlone, NoFetch
<1>4. ASSUME NEW op, NEW c, NEW name, OtherDevice(op, c, name)
      PROVE  FirstFetch'
  <2>1. /\ UNCHANGED <<account, store, switches, early>>
        /\ Request(op, c, c, name, "nobody")
    BY <1>4 DEF OtherDevice, clientVars
  <2>2. switches = 0 => NoCall(tasks')
    BY <2>1 DEF FirstFetch, NoCall, Request, Task
  <2>3. switches <= 1 /\ ~early =>
          FetchAlone(tasks') /\ (NoFetch(tasks) => NoFetch(tasks'))
    BY <2>1, RequestAlone DEF FirstFetch
  <2> QED BY <2>1, <2>2, <2>3 DEF FirstFetch, FetchAlone, NoFetch
<1>5. ASSUME UNCHANGED <<account, store, switches, early>>,
             \/ \E t \in tasks : ServerStep(t)
             \/ \E r \in scripts : RunStatement(r)
             \/ Reset \/ Setup \/ Crash \/ UNCHANGED tasks
      PROVE  FirstFetch'
  <2>1. switches = 0 => FetchAlone(tasks) /\ NoCall(tasks)
    BY DEF FirstFetch, FetchAlone, NoCall
  <2>2. switches = 0 => NoCall(tasks')
    BY <1>5, <2>1, FetchersStep
  <2>3. switches <= 1 /\ ~early =>
          FetchAlone(tasks') /\ (NoFetch(tasks) => NoFetch(tasks'))
    BY <1>5, FetchersStep DEF FirstFetch
  <2> QED BY <1>5, <2>1, <2>2, <2>3 DEF FirstFetch
\* A call of the client ends, or it goes on to fetch the profile.
<1>6. ASSUME NEW t \in tasks, FetchEnds(t) \/ RegisterEnds(t) \/ EditEnds(t),
             switches <= 1, ~early
      PROVE  FirstFetch'
  <2>1. /\ tasks' = tasks \ {t} /\ UNCHANGED <<account, switches, early>>
        /\ t.then \in {"fetch", "registered", "edited"}
    BY <1>6 DEF FetchEnds, RegisterEnds, EditEnds, Ends, Done
  <2>2. FetchAlone(tasks') /\ NoFetch(tasks')
    BY <1>6, <2>1 DEF FirstFetch, FetchAlone, NoFetch
  <2> QED BY <2>1, <2>2 DEF FirstFetch, FetchAlone, NoFetch, NoCall
<1>7. ASSUME NEW t \in tasks, CallGoesOn(t), switches <= 1, ~early
      PROVE  FirstFetch'
  <2> DEFINE then == IF t.then = "register" THEN "registered" ELSE "edited"
             new == Task(t.id, "get", Credential(t), Credential(t), NoName, then)
  <2>1. /\ tasks' = (tasks \ {t}) \cup {new}
        /\ UNCHANGED <<account, store, switches, early>> /\ t.then \in {"register", "edit"}
    BY <1>7 DEF CallGoesOn, clientVars, Done
  <2>2. new.then \in {"registered", "edited"}
    BY DEF Task
  <2> HIDE DEF new
  <2>3. NoFetch(tasks)
    BY <1>7, <2>1 DEF FirstFetch, FetchAlone, NoFetch
  <2>4. NoFetch(tasks')
    BY <2>1, <2>2, <2>3 DEF NoFetch
  <2>5. switches # 0
    BY <2>1 DEF FirstFetch, NoCall
  <2> QED BY <2>1, <2>4, <2>5 DEF FirstFetch, FetchAlone, NoFetch
<1>8. ASSUME NEW t \in tasks, CallThrows(t), switches <= 1, ~early
      PROVE  FirstFetch'
  <2> DEFINE lost == [t EXCEPT !.then = "nobody"]
  <2>1. /\ tasks' \subseteq (tasks \ {t}) \cup {lost} /\ t.then # "nobody"
        /\ UNCHANGED <<account, switches, early>>
    BY <1>8 DEF CallThrows
  <2>2. lost.then = "nobody"
    BY <1>1 DEF TaskSet
  <2> HIDE DEF lost
  <2>3. FetchAlone(tasks') /\ NoFetch(tasks') /\ (NoCall(tasks) => NoCall(tasks'))
    BY <1>8, <2>1, <2>2, AloneStays DEF FirstFetch
  <2> QED BY <2>1, <2>3 DEF FirstFetch
<1>9. ASSUME NEW t \in tasks, ~(switches <= 1) \/ early,
             \/ FetchEnds(t) \/ RegisterEnds(t) \/ EditEnds(t)
             \/ CallGoesOn(t) \/ CallThrows(t)
      PROVE  FirstFetch'
  <2>1. UNCHANGED <<account, switches, early>>
    BY <1>9 DEF FetchEnds, RegisterEnds, EditEnds, CallGoesOn, CallThrows, clientVars
  <2>2. CASE ~(switches <= 1)
    BY <1>1, <2>1, <2>2 DEF FirstFetch
  <2>3. CASE early /\ switches = 0
    <3>1. NoCall(tasks')
      <4>1. NoCall(tasks)
        BY <2>3 DEF FirstFetch
      <4> QED BY <1>9, <4>1 DEF NoCall, FetchEnds, RegisterEnds, EditEnds, CallGoesOn,
                                CallThrows, Done
    <3> QED BY <2>1, <2>3, <3>1 DEF FirstFetch
  <2>4. CASE early /\ switches # 0
    BY <2>1, <2>4 DEF FirstFetch
  <2> QED BY <1>9, <2>2, <2>3, <2>4
<1>10. CASE UNCHANGED vars
  BY <1>5, <1>10 DEF vars, accountVars, clientVars
<1> QED BY <1>2, <1>3, <1>4, <1>5, <1>6, <1>7, <1>8, <1>9, <1>10 DEF Next, clientVars

\* Whatever the bounds: a registered user is shown as unregistered again, without
\* an error, only by another call of register(), or by the answer to a fetch of
\* before the registration, and then the account has been changed twice or
\* register() called when the store did not ask for it.  A profile is fetched on
\* a change only, and while the first one is fetched registration/index.ts shows
\* neither an unregistered account nor a registered one.
THEOREM OldAnswersUnregister == Spec => OnlyOldAnswersUnregister
<1> DEFINE Inv == TypeInvariant /\ NoDrops /\ Current /\ UsersKnown /\ FirstFetch
           Old(t) == /\ t.then = "fetch" /\ t.result = Nobody
                     /\ t.address = store.of.address /\ DomainRow(t.address) # {}
           Step == /\ store.step = "Registered" /\ store'.step = "Unregistered"
                   /\ resets = 0 /\ ~store'.error
<1>1. Init => Inv
  <2>1. Init => FirstFetch
    BY DEF Init, AccountsInit, FirstFetch, FetchAlone, NoFetch, NoCall
  <2>2. Init => Current /\ UsersKnown
    <3>1. ~HasSigner(NoAccount)
      BY SignerAccount
    <3> QED BY <3>1 DEF Init, AccountsInit, Idle, Current, UsersKnown
  <2>3. Init => NoDrops
    BY DEF Init, AccountsInit, NoDrops
  <2> QED BY <2>1, <2>2, <2>3, TypeInit
<1>2. Inv /\ [Next]_vars => Inv'
  BY TypeStep, NoDropsStep, CurrentStep, UsersKnownStep, FirstFetchStep
<1>3. ASSUME Inv, [Next]_vars, Step
      PROVE  \/ store'.busy
             \/ /\ switches > 1 \/ early
                /\ \E t \in tasks \ tasks' : Old(t)
  <2>1. store'.busy \/ \E t \in tasks : FetchEnds(t)
    <3>1. ASSUME NEW t \in tasks, RegisterEnds(t) \/ EditEnds(t)
          PROVE  FALSE
      BY <1>3, <3>1 DEF RegisterEnds, EditEnds, Shown, Store
    <3>2. ASSUME NEW t \in tasks, CallThrows(t)
          PROVE  FALSE
      <4>1. t.then \in {"fetch", "register", "registered", "edit", "edited"}
        BY <1>3, <3>2 DEF CallThrows, TypeInvariant, TasksFit, TaskSet
      <4> QED BY <1>3, <3>2, <4>1, ErrorParts DEF CallThrows
    <3>3. ASSUME NEW c, SwitchAccount(c)
          PROVE  FALSE
      BY <1>3, <3>3 DEF SwitchAccount, Store, Idle
    <3>4. ASSUME NEW c, NEW name, Register(c, name)
          PROVE  store'.busy
      BY <3>4 DEF Register, Store
    <3>5. ASSUME NEW name, Edit(name)
          PROVE  FALSE
      <4>1. store'.step = store.step
        BY <1>3, <3>5 DEF Edit, TypeInvariant, ClientFits, StoreType
      <4> QED BY <1>3, <4>1
    <3>6. ASSUME NEW t \in tasks, CallGoesOn(t)
          PROVE  FALSE
      BY <1>3, <3>6 DEF CallGoesOn, clientVars
    <3>7. ASSUME NEW op, NEW c, NEW name, OtherDevice(op, c, name)
          PROVE  FALSE
      BY <1>3, <3>7 DEF OtherDevice, clientVars
    <3>8. ASSUME UNCHANGED vars \/ UNCHANGED clientVars
          PROVE  FALSE
      BY <1>3, <3>8 DEF vars, clientVars
    <3> QED BY <1>3, <3>1, <3>2, <3>3, <3>4, <3>5, <3>6, <3>7, <3>8 DEF Next
  <2>2. ASSUME NEW t \in tasks, FetchEnds(t)
        PROVE  /\ switches > 1 \/ early
               /\ \E q \in tasks \ tasks' : Old(q)
    <3>1. t.then = "fetch" /\ t \in tasks \ tasks'
      BY <2>2 DEF FetchEnds, Done, Ends
    <3>2. switches > 1 \/ early
      <4>1. switches \in Nat
        BY <1>3, SwitchesAssumption DEF TypeInvariant, Plain
      <4>2. ~(switches <= 1 /\ ~early)
        BY <1>3, <3>1 DEF FirstFetch, NoFetch
      <4> QED BY <4>1, <4>2
    <3>3. ~ChangedSince(t) /\ t.result = Nobody
      BY <1>3, <2>2 DEF FetchEnds, Shown, Store
    <3>4. t.address = store.of.address
      BY <1>3, <3>3 DEF Current, ChangedSince
    <3>5. DomainRow(store.of.address) # {}
      BY <1>3 DEF UsersKnown, Known, DomainRow
    <3> QED BY <3>1, <3>2, <3>3, <3>4, <3>5
  <2> QED BY <2>1, <2>2
<1>4. Inv /\ [Next]_vars =>
        [Step => \/ store'.busy
                 \/ /\ switches > 1 \/ early
                    /\ \E t \in tasks \ tasks' : Old(t)]_store
  BY <1>3
<1> HIDE DEF Inv
<1> QED BY <1>1, <1>2, <1>4, PTL DEF Spec, OnlyOldAnswersUnregister
=============================================================================
