---------------------------- MODULE ClientPolling ----------------------------
(***************************************************************************)
(* The two stores of a client that fetch again and again: a conversation   *)
(* (lib/conversation/index.ts) and the list of conversations               *)
(* (lib/conversationList/index.ts), both over the registration and over    *)
(* derivedWithStartStopNotifier (lib/utils/store.ts), which calls onStart  *)
(* before it hands on what the registration is, and onStop when the last   *)
(* reader leaves.                                                          *)
(*                                                                         *)
(* A loop is one chain of fetch, timer, fetch ...  Nothing keeps a store   *)
(* from having several.  What is fetched is a version of what the server   *)
(* has for the account that signs; a conversation, which fetches the key   *)
(* of its other user too, is fetched in one.                               *)
(***************************************************************************)
EXTENDS Integers, FiniteSets

CONSTANTS
    Users,
    NoUser,
    Loops,        \* names for the loops there may be at once
    NoTimer,      \* timeout is undefined
    MaxVersions,  \* bound on the changes at the server
    MaxActs       \* bound on starts, stops and changes of registration

ASSUME UserAssumption  == NoUser \notin Users
ASSUME LoopsAssumption == Loops \subseteq Nat /\ NoTimer \notin Loops
ASSUME BoundAssumption == MaxVersions \in Nat /\ MaxActs \in Nat

VARIABLES
    kind,          \* "conversation" or "list"
    account,       \* the account a conversation was opened for
    reliable,      \* no call of the API fails
    registration,  \* address that is registered, as its store has it
    known,         \* _registration
    subscribed,    \* the store has readers
    fetching,
    state,         \* $conversation or $conversationList
    timeout,       \* the loop that set the timer last
    loops,
    latest,        \* version at the server
    acts,
    raced          \* a stop came while a loop was fetching

given == <<kind, account, reliable>>
vars == <<kind, account, reliable, registration, known, subscribed, fetching, state,
          timeout, loops, latest, acts, raced>>

NoLoop == [step |-> "none", address |-> NoUser, key |-> NoUser, version |-> 0]

Live == {i \in Loops : loops[i].step # "none"}

\* Names are taken in order; which loop has which does not matter.
FirstFree == {i \in Loops \ Live : \A j \in Loops \ Live : i <= j}
SecondFree ==
    {i \in Loops \ (Live \cup FirstFree) :
        \A j \in Loops \ (Live \cup FirstFree) : i <= j}

Busy == \E i \in Live : loops[i].step # "waiting"

\* State(step, address, owner, version): owner is the account of what is shown.
State(step, u, owner, version) ==
    [step |-> step, address |-> u, owner |-> owner, version |-> version]

\* The step stays.
MutIdleState == State(state.step, NoUser, NoUser, 0)

IdleState == State("Idle", NoUser, NoUser, 0)

Init ==
    /\ \/ kind = "conversation" /\ account \in Users /\ registration \in {account, NoUser}
          /\ state = State("Fetching", account, NoUser, 0)
       \/ kind = "list" /\ account = NoUser /\ registration \in Users \cup {NoUser}
          /\ state = State("Idle", NoUser, NoUser, 0)
    /\ reliable \in BOOLEAN
    /\ known = registration
    /\ subscribed = FALSE
    /\ fetching = TRUE
    /\ timeout = NoTimer
    /\ loops = [i \in Loops |-> NoLoop]
    /\ latest = 0
    /\ acts = 0
    /\ raced = FALSE

-----------------------------------------------------------------------------
(* The loops. *)

\* Not before something has been fetched.
MutMayFetch(s) == known # NoUser /\ s.step = "Fetched"

\* A fetch returns at once without a registration, and in a conversation that
\* is idle.
MayFetch(s) == known # NoUser /\ ~(kind = "conversation" /\ s.step = "Idle")

\* A conversation signs with the key it was opened with, the list with that of
\* the registration.
Fetch(address, u) ==
    [step |-> "fetching", address |-> address,
     key |-> IF kind = "conversation" THEN account ELSE u, version |-> 0]

Wait(address) == [step |-> "waiting", address |-> address, key |-> NoUser, version |-> 0]

\* The conversation goes on only if there is a timer, as the list does.
MutGoesOn == timeout # NoTimer

\* What follows a fetch: the next timer; in the list only if there was one.
GoesOn == kind = "conversation" \/ timeout # NoTimer

FetchEnds(i, address) ==
    IF GoesOn
      THEN /\ loops' = [loops EXCEPT ![i] = Wait(address)]
           /\ timeout' = i
      ELSE /\ loops' = [loops EXCEPT ![i] = NoLoop]
           /\ UNCHANGED timeout

\* fetchMessagesgainAndAgain and fetchConversationsAgainAndAgain, by loop i.
FetchAgainAndAgain(i, address) ==
    IF MayFetch(state)
      THEN /\ loops' = [loops EXCEPT ![i] = Fetch(address, known)]
           /\ UNCHANGED timeout
      ELSE FetchEnds(i, address)

\* The timer is forgotten and goes on.
MutStopFetching(l) == l

\* stopFetching clears the timer set last, and no fetch under way.
StopFetching(l) ==
    IF timeout # NoTimer /\ l[timeout].step = "waiting"
      THEN [l EXCEPT ![timeout] = NoLoop] ELSE l

\* The timer of a loop fires.
TimerFires(i) ==
    /\ loops[i].step = "waiting"
    /\ FetchAgainAndAgain(i, loops[i].address)
    /\ UNCHANGED <<given, registration, known, subscribed, fetching, state, latest,
                   acts, raced>>

\* The server reads its tables.
Answered(i) ==
    /\ loops[i].step = "fetching"
    /\ loops' = [loops EXCEPT ![i].step = "answered", ![i].version = latest]
    /\ UNCHANGED <<given, registration, known, subscribed, fetching, state, timeout,
                   latest, acts, raced>>

\* Whatever the registration is now.
MutApplies(loop) == state.step # "Idle"

\* An answer is shown if the address is that of the registration, still or again.
Applies(loop) == known = loop.address /\ state.step # "Idle"

\* The answer arrives, and the loop goes on.
Arrives(i) ==
    /\ loops[i].step = "answered"
    /\ state' = IF Applies(loops[i])
                  THEN State("Fetched",
                             IF state.step = "Fetching" THEN loops[i].address ELSE state.address,
                             loops[i].key, loops[i].version)
                  ELSE state
    /\ FetchEnds(i, loops[i].address)
    /\ UNCHANGED <<given, registration, known, subscribed, fetching, latest, acts, raced>>

\* The call of the API throws, on either side of the server, and the loop ends.
Fails(i) ==
    /\ ~reliable
    /\ loops[i].step \in {"fetching", "answered"}
    /\ loops' = [loops EXCEPT ![i] = NoLoop]
    /\ UNCHANGED <<given, registration, known, subscribed, fetching, state, timeout,
                   latest, acts, raced>>

-----------------------------------------------------------------------------
(* The registration and the readers. *)

Acts == acts < MaxActs /\ acts' = acts + 1

\* onRegistrationChanged to a user, by loop i: a list is fetched for it, a
\* conversation is idle from now on, with a loop all the same.
Registered(u, l, i) ==
    /\ fetching' = TRUE
    /\ IF kind = "list"
         THEN /\ state' = State("Fetching", u, NoUser, 0)
              /\ loops' = [l EXCEPT ![i] = Fetch(u, u)]
              /\ UNCHANGED timeout
         ELSE /\ state' = IdleState
              /\ loops' = [l EXCEPT ![i] = Wait(u)]
              /\ timeout' = i

\* An account is registered: the store of the registration, whose account
\* changes, has been without one.  Without readers nobody listens to it.
Register(u) ==
    /\ Acts
    /\ registration = NoUser
    /\ registration' = u
    /\ IF subscribed
         THEN \E i \in FirstFree : known' = u /\ Registered(u, loops, i)
         ELSE UNCHANGED <<known, fetching, state, timeout, loops>>
    /\ UNCHANGED <<given, subscribed, latest, raced>>

\* The account is left.
Unregister ==
    /\ Acts
    /\ registration # NoUser
    /\ registration' = NoUser
    /\ IF subscribed
         THEN /\ known' = NoUser
              /\ fetching' = FALSE
              /\ state' = IdleState
              /\ loops' = StopFetching(loops)
              /\ raced' = (raced \/ Busy)
         ELSE UNCHANGED <<known, fetching, state, loops, raced>>
    /\ UNCHANGED <<given, subscribed, timeout, latest>>

\* What onStart starts again: a list that has been fetched, a conversation that
\* is to be fetched.
Resumes ==
    IF kind = "list" THEN fetching /\ state.step = "Fetched"
    ELSE (fetching \/ state.step = "Fetched") /\ known # NoUser

ResumedAddress == IF kind = "list" THEN state.address ELSE known

\* The first reader comes.
Start ==
    /\ Acts
    /\ ~subscribed
    /\ registration = known
    /\ subscribed' = TRUE
    /\ IF Resumes
         THEN \E i \in FirstFree : FetchAgainAndAgain(i, ResumedAddress)
         ELSE UNCHANGED <<timeout, loops>>
    /\ UNCHANGED <<given, registration, known, fetching, state, latest, raced>>

\* The first reader comes after the registration has changed: onStart with the
\* registration of before, whose loop is i, then onRegistrationChanged.  A fetch
\* that returns at once sets its timer after both, as it is async.
StartAnew ==
    /\ Acts
    /\ ~subscribed
    /\ registration # known
    /\ subscribed' = TRUE
    /\ known' = registration
    /\ raced' = (raced \/ Busy \/ Resumes)
    /\ \E i \in FirstFree, j \in SecondFree :
         LET idle       == Resumes /\ ~MayFetch(state)
             Resumed(l) == IF ~Resumes THEN l
                           ELSE IF idle THEN [l EXCEPT ![i] = Wait(known)]
                           ELSE [l EXCEPT ![i] = Fetch(ResumedAddress, known)]
         IN  IF registration # NoUser
               THEN Registered(registration, Resumed(loops), j)
               ELSE /\ fetching' = FALSE
                    /\ state' = IdleState
                    /\ loops' = Resumed(StopFetching(loops))
                    /\ timeout' = IF idle THEN i ELSE timeout
    /\ UNCHANGED <<given, registration, latest>>

\* The last reader leaves: onStop.
Stop ==
    /\ Acts
    /\ subscribed
    /\ subscribed' = FALSE
    /\ loops' = IF fetching /\ state.step = "Fetched" THEN StopFetching(loops) ELSE loops
    /\ raced' = (raced \/ Busy)
    /\ UNCHANGED <<given, registration, known, fetching, state, timeout, latest>>

\* Something changes at the server.
Change ==
    /\ latest < MaxVersions
    /\ latest' = latest + 1
    /\ UNCHANGED <<given, registration, known, subscribed, fetching, state, timeout,
                   loops, acts, raced>>

Next ==
    \/ \E i \in Loops : TimerFires(i) \/ Answered(i) \/ Arrives(i) \/ Fails(i)
    \/ \E u \in Users : Register(u)
    \/ Unregister \/ Start \/ StartAnew \/ Stop \/ Change

\* Timers fire, the server answers, and answers reach the client.
Fairness ==
    \A i \in Loops :
        WF_vars(TimerFires(i)) /\ WF_vars(Answered(i)) /\ WF_vars(Arrives(i))

Spec == Init /\ [][Next]_vars /\ Fairness

-----------------------------------------------------------------------------
(* Properties. *)

\* Every variable has its type; only an idle store is without an address.
TypeOK ==
    /\ kind \in {"conversation", "list"}
    /\ reliable \in BOOLEAN /\ subscribed \in BOOLEAN /\ fetching \in BOOLEAN
    /\ {account, registration, known} \subseteq Users \cup {NoUser}
    /\ state.step \in {"Idle", "Fetching", "Fetched"}
    /\ state.address \in IF state.step = "Idle" THEN {NoUser} ELSE Users
    /\ state.owner \in IF state.step = "Fetched" THEN Users ELSE {NoUser}
    /\ timeout \in Loops \cup {NoTimer}
    /\ \A i \in Loops : loops[i].step \in {"none", "waiting", "fetching", "answered"}
    /\ latest \in 0..MaxVersions /\ acts \in 0..MaxActs /\ raced \in BOOLEAN

\* What a store shows was fetched for the account that is registered, as far as
\* the store knows, and for no other, whatever answers arrive after accounts
\* were switched; a conversation is that of the account it was opened for.
ShowsOwnData ==
    state.step = "Fetched" =>
        /\ state.owner = state.address
        /\ state.address = known
        /\ kind = "conversation" => state.owner = account

\* A store that shows something has one loop at most, unless its readers or its
\* account left while a fetch was under way: then the loop of that fetch goes
\* on beside the one that is started next.
OneLoopUnlessRaced == ~raced /\ state.step # "Idle" => Cardinality(Live) <= 1

\* An older list takes the place of a newer one of the same account only after
\* such a race, when the answers of two loops arrive in the other order.
OlderOnlyIfRaced ==
    [][state'.step = "Fetched" /\ state.step = "Fetched" /\ state'.address = state.address
         /\ state'.version < state.version => raced]_vars

\* What is being fetched for a registered account is shown at last, if the
\* server answers: no stop, start or switch leaves a store fetching for good.
FetchingEnds ==
    (reliable /\ subscribed /\ known # NoUser /\ state.step = "Fetching")
        ~> state.step # "Fetching"

\* A conversation that is open reaches the server's latest version ("but will
\* still be fetching new messages in the background"), however its readers came
\* and went, if no call of the API fails.
ReachesLatest ==
    <>[](reliable /\ kind = "conversation" /\ subscribed /\ state.step = "Fetched"
           => state.version = latest)
=============================================================================
