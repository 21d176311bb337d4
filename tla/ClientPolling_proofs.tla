------------------------ MODULE ClientPolling_proofs ------------------------
(***************************************************************************)
(* Theorems about the polling stores of the client, for any users, loops   *)
(* and bounds: their types, that they show data of the right account, that *)
(* one loop goes on at a time and that answers are shown in their order,   *)
(* unless a stop met a fetch under way.                                    *)
(***************************************************************************)
EXTENDS ClientPolling, FiniteSetTheorems, TLAPS

StateRecord == [step : {"Idle", "Fetching", "Fetched"}, address : Users \cup {NoUser},
                owner : Users \cup {NoUser}, version : Nat]
LoopRecord  == [step : {"none", "waiting", "fetching", "answered"},
                address : Users \cup {NoUser}, key : Users \cup {NoUser}, version : Nat]

\* The variables that are never related to others.
Plain ==
    /\ \/ kind = "list" /\ account = NoUser
       \/ kind = "conversation" /\ account \in Users
    /\ reliable \in BOOLEAN /\ subscribed \in BOOLEAN
    /\ fetching \in BOOLEAN /\ raced \in BOOLEAN
    /\ registration \in Users \cup {NoUser}
    /\ latest \in 0..MaxVersions /\ acts \in 0..MaxActs

\* A fetch is signed by the account that it is shown for: in the list, whose
\* timers are never set, by the address it is made for.
LoopFits(r) ==
    /\ r \in LoopRecord
    /\ r.step # "none" => r.address \in Users
    /\ r.step \in {"fetching", "answered"} =>
         r.key = IF kind = "conversation" THEN account ELSE r.address
    /\ kind = "list" => r.step # "waiting"

LoopsFit ==
    /\ loops \in [Loops -> LoopRecord]
    /\ \A i \in Loops : LoopFits(loops[i])
    /\ timeout \in Loops \cup {NoTimer}
    /\ kind = "list" => timeout = NoTimer

\* What the registration has to do with a state that is not idle.
StateFits(s, u) ==
    /\ s \in StateRecord
    /\ s.step = "Idle" => s.address = NoUser
    /\ s.step # "Idle" => s.address \in Users
    /\ s.step # "Fetched" => s.owner = NoUser
    /\ s.step = "Fetched" => s.owner = s.address /\ s.address = u
    /\ s.step # "Idle" =>
         IF kind = "list" THEN s.address = u ELSE s.address = account /\ u \in {account, NoUser}

KnownFits == known \in Users \cup {NoUser} /\ StateFits(state, known)

PollingInvariant == Plain /\ LoopsFit /\ KnownFits

-----------------------------------------------------------------------------
LEMMA FetchFits ==
    ASSUME Plain, NEW address \in Users, NEW u \in Users \cup {NoUser},
           kind = "list" => u = address
    PROVE  LoopFits(Fetch(address, u))
BY DEF Plain, LoopFits, Fetch, LoopRecord

LEMMA WaitFits ==
    ASSUME kind # "list", NEW address \in Users
    PROVE  LoopFits(Wait(address))
BY DEF LoopFits, Wait, LoopRecord

LEMMA NoLoopFits == LoopFits(NoLoop)
BY DEF LoopFits, NoLoop, LoopRecord

\* Loops that fit still do when one of them is replaced by one that fits.
LEMMA ReplaceFits ==
    ASSUME NEW l \in [Loops -> LoopRecord], \A i \in Loops : LoopFits(l[i]),
           NEW i \in Loops, NEW r, LoopFits(r)
    PROVE  /\ [l EXCEPT ![i] = r] \in [Loops -> LoopRecord]
           /\ \A j \in Loops : LoopFits([l EXCEPT ![i] = r][j])
<1>1. r \in LoopRecord
  BY DEF LoopFits
<1>2. [l EXCEPT ![i] = r] \in [Loops -> LoopRecord]
  BY <1>1
<1>3. ASSUME NEW j \in Loops PROVE LoopFits([l EXCEPT ![i] = r][j])
  <2>1. [l EXCEPT ![i] = r][j] = IF j = i THEN r ELSE l[j]
    OBVIOUS
  <2>2. CASE j = i
    BY <2>1, <2>2
  <2>3. CASE j # i
    BY <2>1, <2>3
  <2> QED BY <2>2, <2>3
<1> QED BY <1>2, <1>3

LEMMA StopFits ==
    ASSUME NEW l \in [Loops -> LoopRecord], \A i \in Loops : LoopFits(l[i]),
           timeout \in Loops \cup {NoTimer}
    PROVE  /\ StopFetching(l) \in [Loops -> LoopRecord]
           /\ \A i \in Loops : LoopFits(StopFetching(l)[i])
<1>1. CASE timeout # NoTimer /\ l[timeout].step = "waiting"
  <2>1. timeout \in Loops
    BY <1>1
  <2>2. StopFetching(l) = [l EXCEPT ![timeout] = NoLoop]
    BY <1>1 DEF StopFetching
  <2> QED BY <2>1, <2>2, NoLoopFits, ReplaceFits
<1>2. CASE ~(timeout # NoTimer /\ l[timeout].step = "waiting")
  BY <1>2 DEF StopFetching
<1> QED BY <1>1, <1>2

\* kind and account do not change, so that what fits goes on to fit.
LEMMA FitsStays ==
    ASSUME UNCHANGED given, NEW l,
           l \in [Loops -> LoopRecord], \A i \in Loops : LoopFits(l[i]),
           loops' = l, timeout' \in Loops \cup {NoTimer}, kind = "list" => timeout' = NoTimer
    PROVE  LoopsFit'
BY DEF LoopsFit, LoopFits, given, LoopRecord

LEMMA StateStays ==
    ASSUME UNCHANGED given, known' \in Users \cup {NoUser}, StateFits(state', known')
    PROVE  KnownFits'
BY DEF KnownFits, StateFits, given, StateRecord

\* Where a fetch ends, for a loop of an address.
LEMMA FetchEndsFits ==
    ASSUME PollingInvariant, UNCHANGED given, NEW i \in Loops, NEW address \in Users,
           FetchEnds(i, address)
    PROVE  LoopsFit'
<1>1. CASE GoesOn
  <2>1. kind # "list"
    BY <1>1 DEF GoesOn, PollingInvariant, LoopsFit
  <2>2. loops' = [loops EXCEPT ![i] = Wait(address)] /\ timeout' = i
    BY <1>1 DEF FetchEnds
  <2>3. LoopFits(Wait(address))
    BY <2>1, WaitFits
  <2>4. /\ loops \in [Loops -> LoopRecord]
        /\ \A j \in Loops : LoopFits(loops[j])
    BY DEF PollingInvariant, LoopsFit
  <2>5. /\ [loops EXCEPT ![i] = Wait(address)] \in [Loops -> LoopRecord]
        /\ \A j \in Loops : LoopFits([loops EXCEPT ![i] = Wait(address)][j])
    BY <2>3, <2>4, ReplaceFits
  <2> QED BY <2>1, <2>2, <2>5, FitsStays
<1>2. CASE ~GoesOn
  <2>1. loops' = [loops EXCEPT ![i] = NoLoop] /\ timeout' = timeout
    BY <1>2 DEF FetchEnds
  <2>2. /\ loops \in [Loops -> LoopRecord]
        /\ \A j \in Loops : LoopFits(loops[j])
        /\ timeout \in Loops \cup {NoTimer}
        /\ kind = "list" => timeout = NoTimer
    BY DEF PollingInvariant, LoopsFit
  <2>3. /\ [loops EXCEPT ![i] = NoLoop] \in [Loops -> LoopRecord]
        /\ \A j \in Loops : LoopFits([loops EXCEPT ![i] = NoLoop][j])
    BY <2>2, NoLoopFits, ReplaceFits
  <2> QED BY <2>1, <2>2, <2>3, FitsStays
<1> QED BY <1>1, <1>2

\* A loop that fetches again: in the list, for the account that is known.
LEMMA FetchAgainFits ==
    ASSUME PollingInvariant, UNCHANGED given, NEW i \in Loops, NEW address \in Users,
           kind = "list" => known = address,
           FetchAgainAndAgain(i, address)
    PROVE  LoopsFit'
<1>1. CASE MayFetch(state)
  <2>1. loops' = [loops EXCEPT ![i] = Fetch(address, known)] /\ timeout' = timeout
    BY <1>1 DEF FetchAgainAndAgain
  <2>2. LoopFits(Fetch(address, known))
    BY FetchFits DEF PollingInvariant, KnownFits
  <2>3. /\ loops \in [Loops -> LoopRecord]
        /\ \A j \in Loops : LoopFits(loops[j])
        /\ timeout \in Loops \cup {NoTimer}
        /\ kind = "list" => timeout = NoTimer
    BY DEF PollingInvariant, LoopsFit
  <2>4. /\ [loops EXCEPT ![i] = Fetch(address, known)] \in [Loops -> LoopRecord]
        /\ \A j \in Loops : LoopFits([loops EXCEPT ![i] = Fetch(address, known)][j])
    BY <2>2, <2>3, ReplaceFits
  <2> QED BY <2>1, <2>3, <2>4, FitsStays
<1>2. CASE ~MayFetch(state)
  BY <1>2, FetchEndsFits DEF FetchAgainAndAgain
<1> QED BY <1>1, <1>2

\* onRegistrationChanged to a user leaves the store idle or fetching for it.
LEMMA RegisteredFits ==
    ASSUME PollingInvariant, UNCHANGED given,
           NEW u \in Users, NEW i \in Loops, NEW l \in [Loops -> LoopRecord],
           \A j \in Loops : LoopFits(l[j]),
           Registered(u, l, i), known' = u
    PROVE  LoopsFit' /\ KnownFits' /\ fetching' = TRUE
<1> DEFINE Loop == IF kind = "list" THEN Fetch(u, u) ELSE Wait(u)
<1>1. LoopFits(Loop)
  BY FetchFits, WaitFits DEF PollingInvariant
<1>2. /\ [l EXCEPT ![i] = Loop] \in [Loops -> LoopRecord]
      /\ \A j \in Loops : LoopFits([l EXCEPT ![i] = Loop][j])
  BY <1>1, ReplaceFits
<1>3. /\ loops' = [l EXCEPT ![i] = Loop]
      /\ timeout' = IF kind = "list" THEN timeout ELSE i
  BY DEF Registered
<1>4. timeout' \in Loops \cup {NoTimer} /\ (kind = "list" => timeout' = NoTimer)
  BY <1>3 DEF PollingInvariant, LoopsFit
<1>5. LoopsFit'
  <2> HIDE DEF Loop
  <2> QED BY <1>2, <1>3, <1>4, FitsStays
<1>6. StateFits(state', known')
  BY UserAssumption
     DEF Registered, StateFits, StateRecord, State, IdleState, PollingInvariant, Plain
<1>7. KnownFits'
  BY <1>6, StateStays
<1> QED BY <1>5, <1>7 DEF Registered

\* An idle state fits any registration.
LEMMA IdleFits ==
    ASSUME UNCHANGED given, state' = IdleState, known' \in Users \cup {NoUser}
    PROVE  KnownFits'
<1>1. StateFits(state', known')
  BY DEF StateFits, StateRecord, State, IdleState
<1> QED BY <1>1, StateStays

-----------------------------------------------------------------------------
LEMMA InvariantInit == Init => PollingInvariant
<1> SUFFICES ASSUME Init PROVE PollingInvariant
  OBVIOUS
<1>1. Plain
  <2>1. 0 \in 0..MaxVersions /\ 0 \in 0..MaxActs
    BY BoundAssumption
  <2> QED BY <2>1, Zenon DEF Init, Plain
<1>2. LoopsFit
  <2>1. NoLoop \in LoopRecord
    BY DEF NoLoop, LoopRecord
  <2>2. loops = [i \in Loops |-> NoLoop] /\ timeout = NoTimer
    BY DEF Init
  <2> QED BY <2>1, <2>2, NoLoopFits DEF LoopsFit
<1>3. KnownFits
  BY UserAssumption DEF Init, KnownFits, StateFits, StateRecord, State
<1> QED BY <1>1, <1>2, <1>3 DEF PollingInvariant

LEMMA TimerFiresStep ==
    ASSUME PollingInvariant, NEW i \in Loops, TimerFires(i)
    PROVE  PollingInvariant'
<1>1. UNCHANGED <<given, registration, known, subscribed, fetching, state, latest, acts,
                  raced>>
  BY DEF TimerFires
<1>2. loops[i].address \in Users /\ kind # "list"
  BY DEF TimerFires, PollingInvariant, LoopsFit, LoopFits
<1>3. LoopsFit'
  BY <1>1, <1>2, FetchAgainFits DEF TimerFires
<1>4. KnownFits'
  BY <1>1, StateStays DEF PollingInvariant, KnownFits
<1>5. Plain'
  BY <1>1 DEF PollingInvariant, Plain, given
<1> QED BY <1>3, <1>4, <1>5 DEF PollingInvariant

LEMMA AnsweredStep ==
    ASSUME PollingInvariant, NEW i \in Loops, Answered(i)
    PROVE  PollingInvariant'
<1> DEFINE r == [loops[i] EXCEPT !.step = "answered", !.version = latest]
<1>1. UNCHANGED <<given, registration, known, subscribed, fetching, state, timeout,
                  latest, acts, raced>>
  BY DEF Answered
<1>2. /\ loops \in [Loops -> LoopRecord] /\ LoopFits(loops[i])
      /\ \A j \in Loops : LoopFits(loops[j])
      /\ timeout \in Loops \cup {NoTimer} /\ (kind = "list" => timeout = NoTimer)
  BY DEF PollingInvariant, LoopsFit
<1>3. LoopFits(r)
  <2>1. loops[i] \in LoopRecord /\ latest \in Nat
    BY <1>2, BoundAssumption DEF PollingInvariant, Plain, LoopFits
  <2>2. /\ r \in LoopRecord /\ r.step = "answered"
        /\ r.address = loops[i].address /\ r.key = loops[i].key
    BY <2>1 DEF LoopRecord
  <2>3. loops[i].step = "fetching"
    BY DEF Answered
  <2> HIDE DEF r
  <2> QED BY <1>2, <2>2, <2>3 DEF LoopFits
<1>4. loops' = [loops EXCEPT ![i] = r]
  <2>1. loops' = [loops EXCEPT ![i].step = "answered", ![i].version = latest]
    BY DEF Answered
  <2> QED BY <1>2, <2>1, Zenon
<1>5. LoopsFit'
  <2>1. /\ [loops EXCEPT ![i] = r] \in [Loops -> LoopRecord]
        /\ \A j \in Loops : LoopFits([loops EXCEPT ![i] = r][j])
    BY <1>2, <1>3, ReplaceFits
  <2> HIDE DEF r
  <2> QED BY <1>1, <1>2, <1>4, <2>1, FitsStays
<1>6. KnownFits'
  BY <1>1, StateStays DEF PollingInvariant, KnownFits
<1>7. Plain'
  BY <1>1 DEF PollingInvariant, Plain, given
<1> QED BY <1>5, <1>6, <1>7 DEF PollingInvariant

\* The answer that is shown was fetched for the account that is registered.
LEMMA ArrivesStep ==
    ASSUME PollingInvariant, NEW i \in Loops, Arrives(i)
    PROVE  PollingInvariant'
<1>1. UNCHANGED <<given, registration, known, subscribed, fetching, latest, acts, raced>>
  BY DEF Arrives
<1>2. /\ loops[i] \in LoopRecord /\ loops[i].address \in Users
      /\ loops[i].key = IF kind = "conversation" THEN account ELSE loops[i].address
  BY DEF Arrives, PollingInvariant, LoopsFit, LoopFits
<1>3. LoopsFit'
  BY <1>1, <1>2, FetchEndsFits DEF Arrives
<1>4. StateFits(state', known')
  <2>1. CASE Applies(loops[i])
    <3>1. state' = State("Fetched",
                         IF state.step = "Fetching" THEN loops[i].address ELSE state.address,
                         loops[i].key, loops[i].version)
      BY <2>1 DEF Arrives
    <3>2. known = loops[i].address /\ state.step # "Idle"
      BY <2>1 DEF Applies
    <3>3. IF kind = "list" THEN state.address = known
          ELSE state.address = account /\ account = known
      BY <1>2, <3>2, UserAssumption DEF PollingInvariant, KnownFits, StateFits
    <3> QED BY <1>1, <1>2, <3>1, <3>2, <3>3, UserAssumption
            DEF StateFits, StateRecord, State, LoopRecord, PollingInvariant, Plain, given
  <2>2. CASE ~Applies(loops[i])
    BY <1>1, <2>2 DEF Arrives, PollingInvariant, KnownFits
  <2> QED BY <2>1, <2>2
<1>5. KnownFits'
  BY <1>1, <1>4, StateStays DEF PollingInvariant, KnownFits
<1>6. Plain'
  BY <1>1 DEF PollingInvariant, Plain, given
<1> QED BY <1>3, <1>5, <1>6 DEF PollingInvariant

LEMMA FailsStep ==
    ASSUME PollingInvariant, NEW i \in Loops, Fails(i)
    PROVE  PollingInvariant'
<1>1. /\ UNCHANGED <<given, registration, known, subscribed, fetching, state, timeout,
                     latest, acts, raced>>
      /\ loops' = [loops EXCEPT ![i] = NoLoop]
  BY DEF Fails
<1>2. /\ loops \in [Loops -> LoopRecord] /\ \A j \in Loops : LoopFits(loops[j])
      /\ timeout \in Loops \cup {NoTimer} /\ (kind = "list" => timeout = NoTimer)
  BY DEF PollingInvariant, LoopsFit
<1>3. /\ [loops EXCEPT ![i] = NoLoop] \in [Loops -> LoopRecord]
      /\ \A j \in Loops : LoopFits([loops EXCEPT ![i] = NoLoop][j])
  BY <1>2, NoLoopFits, ReplaceFits
<1>4. LoopsFit'
  BY <1>1, <1>2, <1>3, FitsStays
<1>5. KnownFits'
  BY <1>1, StateStays DEF PollingInvariant, KnownFits
<1>6. Plain'
  BY <1>1 DEF PollingInvariant, Plain, given
<1> QED BY <1>4, <1>5, <1>6 DEF PollingInvariant

LEMMA ActsCounted ==
    ASSUME Plain, Acts
    PROVE  acts' \in 0..MaxActs
BY BoundAssumption DEF Plain, Acts

LEMMA RegisterStep ==
    ASSUME PollingInvariant, NEW u \in Users, Register(u)
    PROVE  PollingInvariant'
<1>1. UNCHANGED <<given, subscribed, latest, raced>> /\ Acts /\ registration' = u
  BY DEF Register
<1>2. CASE subscribed
  <2>1. PICK i \in FirstFree : known' = u /\ Registered(u, loops, i)
    BY <1>2 DEF Register
  <2>2. i \in Loops /\ loops \in [Loops -> LoopRecord] /\ \A j \in Loops : LoopFits(loops[j])
    BY DEF FirstFree, PollingInvariant, LoopsFit
  <2>3. LoopsFit' /\ KnownFits' /\ fetching' = TRUE
    BY <1>1, <2>1, <2>2, RegisteredFits
  <2>4. Plain'
    BY <1>1, <2>3, BoundAssumption DEF PollingInvariant, Plain, given, Acts
  <2> QED BY <2>3, <2>4 DEF PollingInvariant
<1>3. CASE ~subscribed
  <2>1. UNCHANGED <<known, fetching, state, timeout, loops>>
    BY <1>3 DEF Register
  <2>2. LoopsFit'
    BY <1>1, <2>1, FitsStays DEF PollingInvariant, LoopsFit
  <2>3. KnownFits'
    BY <1>1, <2>1, StateStays DEF PollingInvariant, KnownFits
  <2>4. Plain'
    BY <1>1, <2>1, BoundAssumption DEF PollingInvariant, Plain, given, Acts
  <2> QED BY <2>2, <2>3, <2>4 DEF PollingInvariant
<1> QED BY <1>2, <1>3 DEF PollingInvariant, Plain

LEMMA UnregisterStep ==
    ASSUME PollingInvariant, Unregister
    PROVE  PollingInvariant'
<1>1. UNCHANGED <<given, subscribed, timeout, latest>> /\ Acts /\ registration' = NoUser
  BY DEF Unregister
<1>2. /\ loops \in [Loops -> LoopRecord] /\ \A j \in Loops : LoopFits(loops[j])
      /\ timeout \in Loops \cup {NoTimer} /\ (kind = "list" => timeout = NoTimer)
  BY DEF PollingInvariant, LoopsFit
<1>3. CASE subscribed
  <2>1. /\ known' = NoUser /\ fetching' = FALSE /\ state' = IdleState
        /\ loops' = StopFetching(loops)
        /\ raced' = (raced \/ Busy)
    BY <1>3 DEF Unregister
  <2>2. LoopsFit'
    BY <1>1, <1>2, <2>1, StopFits, FitsStays
  <2>3. KnownFits'
    BY <1>1, <2>1, IdleFits
  <2>4. raced' \in BOOLEAN
    BY <2>1 DEF Busy
  <2>5. acts' \in 0..MaxActs
    BY <1>1, ActsCounted DEF PollingInvariant
  <2>6. Plain'
    BY <1>1, <2>1, <2>4, <2>5, Zenon DEF PollingInvariant, Plain, given
  <2> QED BY <2>2, <2>3, <2>6 DEF PollingInvariant
<1>4. CASE ~subscribed
  <2>1. UNCHANGED <<known, fetching, state, loops, raced>>
    BY <1>4 DEF Unregister
  <2>2. LoopsFit'
    BY <1>1, <1>2, <2>1, FitsStays
  <2>3. KnownFits'
    BY <1>1, <2>1, StateStays DEF PollingInvariant, KnownFits
  <2>4. Plain'
    BY <1>1, <2>1, BoundAssumption DEF PollingInvariant, Plain, given, Acts
  <2> QED BY <2>2, <2>3, <2>4 DEF PollingInvariant
<1> QED BY <1>3, <1>4 DEF PollingInvariant, Plain

\* What a store resumes is fetched for the account it knows.
LEMMA ResumedFits ==
    ASSUME PollingInvariant, Resumes
    PROVE  ResumedAddress \in Users /\ known = ResumedAddress
BY UserAssumption
   DEF PollingInvariant, KnownFits, StateFits, Resumes, ResumedAddress, Plain

LEMMA StartStep ==
    ASSUME PollingInvariant, Start
    PROVE  PollingInvariant'
<1>1. /\ UNCHANGED <<given, registration, known, fetching, state, latest, raced>>
      /\ Acts /\ subscribed' = TRUE
  BY DEF Start
<1>2. LoopsFit'
  <2>1. CASE Resumes
    <3>1. PICK i \in FirstFree : FetchAgainAndAgain(i, ResumedAddress)
      BY <2>1 DEF Start
    <3>2. i \in Loops
      BY DEF FirstFree
    <3>3. ResumedAddress \in Users /\ known = ResumedAddress
      BY <2>1, ResumedFits
    <3> HIDE DEF ResumedAddress
    <3> QED BY <1>1, <3>1, <3>2, <3>3, FetchAgainFits
  <2>2. CASE ~Resumes
    <3>1. UNCHANGED <<timeout, loops>>
      BY <2>2 DEF Start
    <3> QED BY <1>1, <3>1, FitsStays DEF PollingInvariant, LoopsFit
  <2> QED BY <2>1, <2>2
<1>3. KnownFits'
  BY <1>1, StateStays DEF PollingInvariant, KnownFits
<1>4. Plain'
  BY <1>1, BoundAssumption DEF PollingInvariant, Plain, given, Acts
<1> QED BY <1>2, <1>3, <1>4 DEF PollingInvariant

LEMMA StartAnewStep ==
    ASSUME PollingInvariant, StartAnew
    PROVE  PollingInvariant'
<1>1. /\ UNCHANGED <<given, registration, latest>> /\ Acts /\ subscribed' = TRUE
      /\ known' = registration /\ raced' = (raced \/ Busy \/ Resumes)
  BY DEF StartAnew
<1> DEFINE idle == Resumes /\ ~MayFetch(state)
           Resumed(l, i) == IF ~Resumes THEN l
                            ELSE IF idle THEN [l EXCEPT ![i] = Wait(known)]
                            ELSE [l EXCEPT ![i] = Fetch(ResumedAddress, known)]
<1>2. PICK i \in FirstFree, j \in SecondFree :
         IF registration # NoUser
           THEN Registered(registration, Resumed(loops, i), j)
           ELSE /\ fetching' = FALSE
                /\ state' = IdleState
                /\ loops' = Resumed(StopFetching(loops), i)
                /\ timeout' = IF idle THEN i ELSE timeout
  BY DEF StartAnew
<1>3. i \in Loops /\ j \in Loops
  BY DEF FirstFree, SecondFree
<1>4. /\ loops \in [Loops -> LoopRecord] /\ \A k \in Loops : LoopFits(loops[k])
      /\ timeout \in Loops \cup {NoTimer} /\ (kind = "list" => timeout = NoTimer)
  BY DEF PollingInvariant, LoopsFit
<1>5. idle => kind # "list"
  BY UserAssumption DEF MayFetch, Resumes, PollingInvariant, KnownFits, StateFits
<1>6. ASSUME NEW l \in [Loops -> LoopRecord], \A k \in Loops : LoopFits(l[k])
      PROVE  /\ Resumed(l, i) \in [Loops -> LoopRecord]
             /\ \A k \in Loops : LoopFits(Resumed(l, i)[k])
  <2>1. CASE ~Resumes
    BY <1>6, <2>1
  <2>2. CASE idle
    <3>1. known \in Users
      BY <2>2, ResumedFits DEF ResumedAddress
    <3>2. LoopFits(Wait(known))
      BY <1>5, <2>2, <3>1, WaitFits
    <3>3. Resumed(l, i) = [l EXCEPT ![i] = Wait(known)]
      BY <2>2
    <3> HIDE DEF Resumed, idle
    <3> QED BY <1>3, <1>6, <3>2, <3>3, ReplaceFits
  <2>3. CASE Resumes /\ ~idle
    <3>1. ResumedAddress \in Users /\ known = ResumedAddress
      BY <2>3, ResumedFits
    <3>2. LoopFits(Fetch(ResumedAddress, known))
      BY <3>1, FetchFits DEF PollingInvariant, KnownFits
    <3>3. Resumed(l, i) = [l EXCEPT ![i] = Fetch(ResumedAddress, known)]
      BY <2>3
    <3> HIDE DEF Resumed, idle
    <3> QED BY <1>3, <1>6, <3>2, <3>3, ReplaceFits
  <2> QED BY <2>1, <2>2, <2>3
<1> HIDE DEF Resumed, idle
<1>7. registration \in Users \cup {NoUser}
  BY DEF PollingInvariant, Plain
<1>8. LoopsFit' /\ KnownFits' /\ fetching' \in BOOLEAN
  <2>1. CASE registration # NoUser
    BY <1>1, <1>2, <1>3, <1>4, <1>6, <1>7, <2>1, RegisteredFits
  <2>2. CASE registration = NoUser
    <3>1. /\ StopFetching(loops) \in [Loops -> LoopRecord]
          /\ \A k \in Loops : LoopFits(StopFetching(loops)[k])
      BY <1>4, StopFits
    <3>2. timeout' \in Loops \cup {NoTimer} /\ (kind = "list" => timeout' = NoTimer)
      BY <1>2, <1>3, <1>4, <1>5, <2>2
    <3>3. LoopsFit'
      BY <1>1, <1>2, <1>6, <2>2, <3>1, <3>2, FitsStays
    <3>4. KnownFits'
      BY <1>1, <1>2, <1>7, <2>2, IdleFits
    <3> QED BY <1>2, <2>2, <3>3, <3>4
  <2> QED BY <2>1, <2>2
<1>9. raced' \in BOOLEAN
  BY <1>1 DEF Busy
<1>10. Plain'
  BY <1>1, <1>8, <1>9, BoundAssumption DEF PollingInvariant, Plain, given, Acts
<1> QED BY <1>8, <1>10 DEF PollingInvariant

LEMMA StopStep ==
    ASSUME PollingInvariant, Stop
    PROVE  PollingInvariant'
<1>1. /\ UNCHANGED <<given, registration, known, fetching, state, timeout, latest>>
      /\ Acts /\ subscribed' = FALSE /\ raced' = (raced \/ Busy)
      /\ loops' = IF fetching /\ state.step = "Fetched" THEN StopFetching(loops) ELSE loops
  BY DEF Stop
<1>2. /\ loops \in [Loops -> LoopRecord] /\ \A k \in Loops : LoopFits(loops[k])
      /\ timeout \in Loops \cup {NoTimer} /\ (kind = "list" => timeout = NoTimer)
  BY DEF PollingInvariant, LoopsFit
<1>3. LoopsFit'
  <2>1. CASE fetching /\ state.step = "Fetched"
    BY <1>1, <1>2, <2>1, StopFits, FitsStays
  <2>2. CASE ~(fetching /\ state.step = "Fetched")
    BY <1>1, <1>2, <2>2, FitsStays
  <2> QED BY <2>1, <2>2
<1>4. KnownFits'
  BY <1>1, StateStays DEF PollingInvariant, KnownFits
<1>5. raced' \in BOOLEAN
  BY <1>1 DEF Busy
<1>6. acts' \in 0..MaxActs
  BY <1>1, ActsCounted DEF PollingInvariant
<1>7. Plain'
  BY <1>1, <1>5, <1>6, Zenon DEF PollingInvariant, Plain, given
<1> QED BY <1>3, <1>4, <1>7 DEF PollingInvariant

LEMMA ChangeStep ==
    ASSUME PollingInvariant, Change
    PROVE  PollingInvariant'
<1>1. /\ UNCHANGED <<given, registration, known, subscribed, fetching, state, timeout,
                     loops, acts, raced>>
      /\ latest < MaxVersions /\ latest' = latest + 1
  BY DEF Change
<1>2. LoopsFit'
  BY <1>1, FitsStays DEF PollingInvariant, LoopsFit
<1>3. KnownFits'
  BY <1>1, StateStays DEF PollingInvariant, KnownFits
<1>4. Plain'
  BY <1>1, BoundAssumption DEF PollingInvariant, Plain, given
<1> QED BY <1>2, <1>3, <1>4 DEF PollingInvariant

LEMMA StutterStep ==
    ASSUME PollingInvariant, UNCHANGED vars
    PROVE  PollingInvariant'
<1>1. UNCHANGED <<given, registration, known, subscribed, fetching, state, timeout,
                  loops, latest, acts, raced>>
  BY DEF vars, given
<1>2. LoopsFit'
  BY <1>1, FitsStays DEF PollingInvariant, LoopsFit
<1>3. KnownFits'
  BY <1>1, StateStays DEF PollingInvariant, KnownFits
<1>4. Plain'
  BY <1>1 DEF PollingInvariant, Plain, given
<1> QED BY <1>2, <1>3, <1>4 DEF PollingInvariant

LEMMA InvariantStep == PollingInvariant /\ [Next]_vars => PollingInvariant'
<1> SUFFICES ASSUME PollingInvariant, [Next]_vars PROVE PollingInvariant'
  OBVIOUS
<1>1. ASSUME NEW i \in Loops, TimerFires(i) PROVE PollingInvariant'
  BY <1>1, TimerFiresStep
<1>2. ASSUME NEW i \in Loops, Answered(i) PROVE PollingInvariant'
  BY <1>2, AnsweredStep
<1>3. ASSUME NEW i \in Loops, Arrives(i) PROVE PollingInvariant'
  BY <1>3, ArrivesStep
<1>4. ASSUME NEW i \in Loops, Fails(i) PROVE PollingInvariant'
  BY <1>4, FailsStep
<1>5. ASSUME NEW u \in Users, Register(u) PROVE PollingInvariant'
  BY <1>5, RegisterStep
<1>6. CASE Unregister
  BY <1>6, UnregisterStep
<1>7. CASE Start
  BY <1>7, StartStep
<1>8. CASE StartAnew
  BY <1>8, StartAnewStep
<1>9. CASE Stop
  BY <1>9, StopStep
<1>10. CASE Change
  BY <1>10, ChangeStep
<1>11. CASE UNCHANGED vars
  BY <1>11, StutterStep
<1> QED BY <1>1, <1>2, <1>3, <1>4, <1>5, <1>6, <1>7, <1>8, <1>9, <1>10, <1>11 DEF Next

LEMMA InvariantHolds == Spec => []PollingInvariant
<1>1. Init => PollingInvariant
  BY InvariantInit
<1>2. PollingInvariant /\ [Next]_vars => PollingInvariant'
  BY InvariantStep
<1> QED BY <1>1, <1>2, PTL DEF Spec

\* Every step of the stores keeps their variables in their types, with any number
\* of loops: onStart, onStop, the registration's changes, timers and answers.
THEOREM TypeCorrect == Spec => []TypeOK
<1>1. PollingInvariant => TypeOK
  BY DEF PollingInvariant, Plain, LoopsFit, LoopFits, LoopRecord, KnownFits, StateFits,
         StateRecord, TypeOK
<1> QED BY <1>1, InvariantHolds, PTL

\* However many loops go on at once and whenever their answers arrive, what a
\* store shows was fetched for the account that is registered as far as it knows
\* (the test of the address in fetchMessages and fetchConversations): each loop is
\* signed by the account of its address, or by that the conversation was opened for.
THEOREM OwnDataShown == Spec => []ShowsOwnData
<1>1. PollingInvariant => ShowsOwnData
  BY UserAssumption DEF PollingInvariant, Plain, KnownFits, StateFits, ShowsOwnData
<1> QED BY <1>1, InvariantHolds, PTL

-----------------------------------------------------------------------------
(* One loop, unless a fetch was under way when a reader or the account left. *)

NoneLive(l) == \A i \in Loops : l[i].step = "none"

\* With loops l, state s, timer t and account u: there is one loop at most, and
\* it is that of the account; it waits only after its answer was shown, on the
\* timer that can be cleared, and what it has been answered is not older than
\* what is shown.
Alone(l, s, t, u) ==
    /\ \A i, j \in Loops : l[i].step # "none" /\ l[j].step # "none" => i = j
    /\ \A i \in Loops : l[i].step # "none" =>
         /\ l[i].step = "waiting" => t = i /\ s.step = "Fetched"
         /\ l[i].step = "answered" => s.version <= l[i].version
         /\ l[i].address = u

\* No version is above the server's, and the registration is known to a store
\* with readers.
UpToLatest(l, n) == \A i \in Loops : l[i].version <= n

VersionsFit ==
    /\ state.version <= latest
    /\ UpToLatest(loops, latest)
    /\ subscribed => known = registration

\* A list that is idle has no loop, nor has a store without readers; a
\* conversation that is idle stays so, with loops that fetch nothing.
LoopsAlone ==
    ~raced =>
      IF state.step = "Idle"
        THEN kind = "list" => NoneLive(loops)
        ELSE /\ ~subscribed => NoneLive(loops)
             /\ Alone(loops, state, timeout, known)
             /\ kind = "conversation" => fetching

LEMMA LoopShapes ==
    ASSUME NEW address, NEW u
    PROVE  /\ Fetch(address, u).step = "fetching" /\ Fetch(address, u).address = address
           /\ Fetch(address, u).version = 0
           /\ Wait(address).step = "waiting" /\ Wait(address).address = address
           /\ Wait(address).version = 0
           /\ NoLoop.step = "none" /\ NoLoop.version = 0
BY DEF Fetch, Wait, NoLoop

LEMMA LoopTypes ==
    ASSUME PollingInvariant
    PROVE  /\ loops \in [Loops -> LoopRecord]
           /\ timeout \in Loops \cup {NoTimer}
           /\ kind = "list" => \A i \in Loops : loops[i].step # "waiting"
           /\ \A i \in Loops : loops[i].version \in Nat
           /\ state.version \in Nat /\ latest \in Nat
           /\ kind \in {"list", "conversation"}
<1>1. /\ loops \in [Loops -> LoopRecord]
      /\ timeout \in Loops \cup {NoTimer}
      /\ kind = "list" => \A i \in Loops : loops[i].step # "waiting"
  BY DEF PollingInvariant, LoopsFit, LoopFits
<1>2. \A i \in Loops : loops[i].version \in Nat
  BY <1>1 DEF LoopRecord
<1>3. state.version \in Nat
  BY DEF PollingInvariant, KnownFits, StateFits, StateRecord
<1>4. latest \in Nat
  BY BoundAssumption DEF PollingInvariant, Plain
<1>5. kind \in {"list", "conversation"}
  BY DEF PollingInvariant, Plain
<1> QED BY <1>1, <1>2, <1>3, <1>4, <1>5

\* Where loop i is the only one, another in its place is the only one too.
LEMMA ReplaceAlone ==
    ASSUME NEW l \in [Loops -> LoopRecord], NEW i \in Loops, NEW r, NEW s, NEW t, NEW u,
           \A j \in Loops \ {i} : l[j].step = "none",
           r.step # "none" =>
             /\ r.step = "waiting" => t = i /\ s.step = "Fetched"
             /\ r.step = "answered" => s.version <= r.version
             /\ r.address = u
    PROVE  Alone([l EXCEPT ![i] = r], s, t, u)
<1> DEFINE m == [l EXCEPT ![i] = r]
<1>1. m[i] = r /\ \A j \in Loops \ {i} : m[j].step = "none"
  OBVIOUS
<1> HIDE DEF m
<1>2. \A j \in Loops : m[j].step # "none" => j = i
  BY <1>1
<1>3. Alone(m, s, t, u)
  BY <1>1, <1>2 DEF Alone
<1> QED BY <1>3 DEF m

LEMMA OthersNone ==
    ASSUME NEW l, NEW s, NEW t, NEW u, Alone(l, s, t, u),
           NEW i \in Loops, l[i].step # "none"
    PROVE  \A j \in Loops \ {i} : l[j].step = "none"
BY DEF Alone

LEMMA NoneAlone ==
    ASSUME NEW l, NEW s, NEW t, NEW u, NoneLive(l)
    PROVE  Alone(l, s, t, u)
BY DEF NoneLive, Alone

LEMMA ReplaceUpTo ==
    ASSUME NEW l \in [Loops -> LoopRecord], NEW n \in Nat, UpToLatest(l, n),
           NEW i \in Loops, NEW r, r.version <= n
    PROVE  UpToLatest([l EXCEPT ![i] = r], n)
BY DEF UpToLatest

\* A clear of the timer leaves the other loops as they are.
LEMMA StopShape ==
    ASSUME PollingInvariant
    PROVE  /\ \A i \in Loops : StopFetching(loops)[i] \in {loops[i], NoLoop}
           /\ NoneLive(loops) => NoneLive(StopFetching(loops))
           /\ UpToLatest(loops, latest) => UpToLatest(StopFetching(loops), latest)
<1>1. \A i \in Loops : StopFetching(loops)[i] \in {loops[i], NoLoop}
  <2>1. CASE timeout # NoTimer /\ loops[timeout].step = "waiting"
    <3>1. StopFetching(loops) = [loops EXCEPT ![timeout] = NoLoop]
      BY <2>1 DEF StopFetching
    <3> QED BY <3>1, LoopTypes
  <2>2. CASE ~(timeout # NoTimer /\ loops[timeout].step = "waiting")
    BY <2>2 DEF StopFetching
  <2> QED BY <2>1, <2>2
<1>2. NoneLive(loops) => NoneLive(StopFetching(loops))
  BY <1>1, LoopShapes DEF NoneLive
<1>3. UpToLatest(loops, latest) => UpToLatest(StopFetching(loops), latest)
  <2>1. 0 <= latest
    BY LoopTypes
  <2> QED BY <1>1, <2>1, LoopShapes DEF UpToLatest
<1> QED BY <1>1, <1>2, <1>3

\* The end of a fetch replaces its loop by one that waits on the timer set last,
\* or by none.
LEMMA FetchEndsShape ==
    ASSUME PollingInvariant, NEW i \in Loops, NEW address, FetchEnds(i, address)
    PROVE  \E r \in {Wait(address), NoLoop} :
             /\ loops' = [loops EXCEPT ![i] = r]
             /\ r.step = "waiting" => timeout' = i
<1>1. CASE GoesOn
  BY <1>1 DEF FetchEnds
<1>2. CASE ~GoesOn
  BY <1>2, LoopShapes DEF FetchEnds
<1> QED BY <1>1, <1>2

LEMMA FetchAgainShape ==
    ASSUME PollingInvariant, NEW i \in Loops, NEW address, FetchAgainAndAgain(i, address)
    PROVE  \E r \in {Fetch(address, known), Wait(address), NoLoop} :
             /\ loops' = [loops EXCEPT ![i] = r]
             /\ r.step = "waiting" => timeout' = i
<1>1. CASE MayFetch(state)
  BY <1>1, LoopShapes DEF FetchAgainAndAgain
<1>2. CASE ~MayFetch(state)
  BY <1>2, FetchEndsShape DEF FetchAgainAndAgain
<1> QED BY <1>1, <1>2

LEMMA NewUpTo ==
    ASSUME PollingInvariant, VersionsFit, NEW i \in Loops, NEW r,
           r.version = 0, loops' = [loops EXCEPT ![i] = r]
    PROVE  UpToLatest(loops', latest)
<1>1. r.version <= latest
  BY LoopTypes
<1> QED BY <1>1, LoopTypes, ReplaceUpTo DEF VersionsFit

\* The loop whose timer fires is the only one, and fetches, waits or ends.
LEMMA TimerFiresAlone ==
    ASSUME PollingInvariant, VersionsFit, LoopsAlone, NEW i \in Loops, TimerFires(i)
    PROVE  VersionsFit' /\ LoopsAlone'
<1> DEFINE address == loops[i].address
<1>1. /\ UNCHANGED <<given, registration, known, subscribed, fetching, state, latest,
                     acts, raced>>
      /\ loops[i].step = "waiting"
  BY DEF TimerFires
<1>2. PICK r \in {Fetch(address, known), Wait(address), NoLoop} :
        loops' = [loops EXCEPT ![i] = r] /\ (r.step = "waiting" => timeout' = i)
  BY FetchAgainShape DEF TimerFires
<1>3. /\ r.version = 0 /\ r.step # "answered"
      /\ r.step # "none" => r.address = address
  BY <1>2, LoopShapes
<1>4. VersionsFit'
  BY <1>1, <1>2, <1>3, NewUpTo DEF VersionsFit
<1>5. ASSUME ~raced' PROVE state.step # "Idle" \/ kind # "list"
  BY <1>1, <1>5, LoopTypes
<1>6. ASSUME ~raced', state.step # "Idle"
      PROVE  /\ subscribed' /\ Alone(loops', state', timeout', known')
             /\ kind = "conversation" => fetching'
  <2>1. /\ subscribed /\ Alone(loops, state, timeout, known)
        /\ kind = "conversation" => fetching
    BY <1>1, <1>6 DEF LoopsAlone, NoneLive
  <2>2. \A j \in Loops \ {i} : loops[j].step = "none"
    BY <1>1, <2>1, OthersNone
  <2>3. address = known /\ state.step = "Fetched"
    BY <1>1, <2>1 DEF Alone
  <2>4. Alone([loops EXCEPT ![i] = r], state, timeout', known)
    BY <1>2, <1>3, <2>2, <2>3, LoopTypes, ReplaceAlone
  <2> QED BY <1>1, <1>2, <2>1, <2>4
<1>7. LoopsAlone'
  BY <1>1, <1>5, <1>6 DEF LoopsAlone, given
<1> QED BY <1>4, <1>7

\* The server answers with its latest version, which no answer before exceeds.
LEMMA AnsweredAlone ==
    ASSUME PollingInvariant, VersionsFit, LoopsAlone, NEW i \in Loops, Answered(i)
    PROVE  VersionsFit' /\ LoopsAlone'
<1> DEFINE r == [loops[i] EXCEPT !.step = "answered", !.version = latest]
<1>1. /\ UNCHANGED <<given, registration, known, subscribed, fetching, state, timeout,
                     latest, acts, raced>>
      /\ loops[i].step = "fetching"
  BY DEF Answered
<1>2. loops' = [loops EXCEPT ![i] = r]
  <2>1. loops' = [loops EXCEPT ![i].step = "answered", ![i].version = latest]
    BY DEF Answered
  <2> QED BY <2>1, LoopTypes, Zenon
<1>3. r.step = "answered" /\ r.version = latest /\ r.address = loops[i].address
  BY LoopTypes DEF LoopRecord
<1> HIDE DEF r
<1>4. UpToLatest(loops', latest)
  <2>1. r.version <= latest
    BY <1>3, LoopTypes
  <2> QED BY <1>2, <2>1, LoopTypes, ReplaceUpTo DEF VersionsFit
<1>5. VersionsFit'
  BY <1>1, <1>4 DEF VersionsFit
<1>6. ASSUME ~raced PROVE state.step # "Idle" \/ kind # "list"
  BY <1>1, <1>6 DEF LoopsAlone, NoneLive
<1>7. ASSUME ~raced, state.step # "Idle"
      PROVE  /\ subscribed /\ Alone(loops', state, timeout, known)
             /\ kind = "conversation" => fetching
  <2>1. /\ subscribed /\ Alone(loops, state, timeout, known)
        /\ kind = "conversation" => fetching
    BY <1>1, <1>7 DEF LoopsAlone, NoneLive
  <2>2. \A j \in Loops \ {i} : loops[j].step = "none"
    BY <1>1, <2>1, OthersNone
  <2>3. loops[i].address = known
    BY <1>1, <2>1 DEF Alone
  <2>4. state.version <= r.version
    BY <1>3 DEF VersionsFit
  <2>5. Alone([loops EXCEPT ![i] = r], state, timeout, known)
    BY <1>3, <2>2, <2>3, <2>4, LoopTypes, ReplaceAlone
  <2> QED BY <1>2, <2>1, <2>5
<1>8. LoopsAlone'
  BY <1>1, <1>6, <1>7 DEF LoopsAlone, given
<1> QED BY <1>5, <1>8

\* What the only loop was answered is shown, and it waits or ends.
LEMMA ArrivesAlone ==
    ASSUME PollingInvariant, VersionsFit, LoopsAlone, NEW i \in Loops, Arrives(i)
    PROVE  VersionsFit' /\ LoopsAlone'
<1> DEFINE address == loops[i].address
<1>1. /\ UNCHANGED <<given, registration, known, subscribed, fetching, latest, acts,
                     raced>>
      /\ loops[i].step = "answered"
  BY DEF Arrives
<1>2. PICK r \in {Wait(address), NoLoop} :
        loops' = [loops EXCEPT ![i] = r] /\ (r.step = "waiting" => timeout' = i)
  BY FetchEndsShape DEF Arrives
<1>3. /\ r.version = 0 /\ r.step # "answered"
      /\ r.step # "none" => r.address = address
  BY <1>2, LoopShapes
<1>4. /\ Applies(loops[i]) => state'.step = "Fetched" /\ state'.version = loops[i].version
      /\ ~Applies(loops[i]) => state' = state
  BY DEF Arrives, State
<1>5. VersionsFit'
  <2>1. UpToLatest(loops', latest)
    BY <1>2, <1>3, NewUpTo
  <2>2. state'.version <= latest
    BY <1>4 DEF VersionsFit, UpToLatest
  <2> QED BY <1>1, <2>1, <2>2 DEF VersionsFit
<1>6. CASE state.step = "Idle"
  <2>1. state' = state
    BY <1>4, <1>6 DEF Applies
  <2>2. ~raced => kind # "list"
    BY <1>1, <1>6 DEF LoopsAlone, NoneLive
  <2>3. LoopsAlone'
    BY <1>1, <1>6, <2>1, <2>2 DEF LoopsAlone, given
  <2> QED BY <1>5, <2>3
<1>7. CASE state.step # "Idle"
  <2>1. ASSUME ~raced
        PROVE  /\ state'.step = "Fetched" /\ subscribed
               /\ Alone(loops', state', timeout', known)
               /\ kind = "conversation" => fetching
    <3>1. /\ subscribed /\ Alone(loops, state, timeout, known)
          /\ kind = "conversation" => fetching
      BY <1>1, <1>7, <2>1 DEF LoopsAlone, NoneLive
    <3>2. \A j \in Loops \ {i} : loops[j].step = "none"
      BY <1>1, <3>1, OthersNone
    <3>3. address = known
      BY <1>1, <3>1 DEF Alone
    <3>4. state'.step = "Fetched"
      BY <1>4, <1>7, <3>3 DEF Applies
    <3>5. Alone([loops EXCEPT ![i] = r], state', timeout', known)
      BY <1>2, <1>3, <3>2, <3>3, <3>4, LoopTypes, ReplaceAlone
    <3> QED BY <1>2, <3>1, <3>4, <3>5
  <2>2. LoopsAlone'
    BY <1>1, <2>1 DEF LoopsAlone, given
  <2> QED BY <1>5, <2>2
<1> QED BY <1>6, <1>7

LEMMA FailsAlone ==
    ASSUME PollingInvariant, VersionsFit, LoopsAlone, NEW i \in Loops, Fails(i)
    PROVE  VersionsFit' /\ LoopsAlone'
<1>1. /\ UNCHANGED <<given, registration, known, subscribed, fetching, state, timeout,
                     latest, acts, raced>>
      /\ loops[i].step # "none" /\ loops' = [loops EXCEPT ![i] = NoLoop]
  BY DEF Fails
<1>2. VersionsFit'
  BY <1>1, LoopShapes, NewUpTo DEF VersionsFit
<1>3. ASSUME ~raced PROVE state.step # "Idle" \/ kind # "list"
  BY <1>1, <1>3 DEF LoopsAlone, NoneLive
<1>4. ASSUME ~raced, state.step # "Idle"
      PROVE  /\ subscribed /\ Alone(loops', state, timeout, known)
             /\ kind = "conversation" => fetching
  <2>1. /\ subscribed /\ Alone(loops, state, timeout, known)
        /\ kind = "conversation" => fetching
    BY <1>1, <1>4 DEF LoopsAlone, NoneLive
  <2>2. \A j \in Loops \ {i} : loops[j].step = "none"
    BY <1>1, <2>1, OthersNone
  <2>3. Alone([loops EXCEPT ![i] = NoLoop], state, timeout, known)
    BY <2>2, LoopShapes, LoopTypes, ReplaceAlone
  <2> QED BY <1>1, <2>1, <2>3
<1>5. LoopsAlone'
  BY <1>1, <1>3, <1>4 DEF LoopsAlone, given
<1> QED BY <1>2, <1>5

\* A list that is fetched for a user who comes has no other loop.
LEMMA RegisteredAlone ==
    ASSUME PollingInvariant, NEW u \in Users, NEW i \in Loops,
           Registered(u, loops, i), known' = u, UNCHANGED <<given, latest>>,
           VersionsFit, kind = "list" /\ ~raced' => NoneLive(loops)
    PROVE  /\ state'.version <= latest' /\ UpToLatest(loops', latest')
           /\ state'.step # "Idle" => kind' = "list"
           /\ state'.step = "Idle" => kind' # "list"
           /\ state'.step # "Idle" /\ ~raced' => Alone(loops', state', timeout', known')
<1>1. CASE kind = "list"
  <2> DEFINE r == Fetch(u, u)
  <2>1. state' = State("Fetching", u, NoUser, 0) /\ loops' = [loops EXCEPT ![i] = r]
    BY <1>1 DEF Registered
  <2>2. state'.step = "Fetching" /\ state'.version = 0
    BY <2>1 DEF State
  <2>3. r.version = 0 /\ r.step = "fetching" /\ r.address = u
    BY LoopShapes
  <2> HIDE DEF r
  <2>4. UpToLatest(loops', latest)
    BY <2>1, <2>3, NewUpTo
  <2>5. ASSUME ~raced' PROVE Alone([loops EXCEPT ![i] = r], state', timeout', u)
    <3>1. \A j \in Loops \ {i} : loops[j].step = "none"
      BY <1>1, <2>5 DEF NoneLive
    <3> QED BY <2>3, <3>1, LoopTypes, ReplaceAlone
  <2> QED BY <1>1, <2>1, <2>2, <2>4, <2>5, LoopTypes DEF given
<1>2. CASE kind # "list"
  <2> DEFINE r == Wait(u)
  <2>1. state' = IdleState /\ loops' = [loops EXCEPT ![i] = r]
    BY <1>2 DEF Registered
  <2>2. state'.step = "Idle" /\ state'.version = 0
    BY <2>1 DEF IdleState, State
  <2>3. UpToLatest(loops', latest)
    <3>1. r.version = 0
      BY LoopShapes
    <3> HIDE DEF r
    <3> QED BY <2>1, <3>1, NewUpTo
  <2> QED BY <1>2, <2>2, <2>3, LoopTypes DEF given
<1> QED BY <1>1, <1>2

LEMMA RegisterAlone ==
    ASSUME PollingInvariant, VersionsFit, LoopsAlone, NEW u \in Users, Register(u)
    PROVE  VersionsFit' /\ LoopsAlone'
<1>1. /\ UNCHANGED <<given, subscribed, latest, raced>>
      /\ registration = NoUser /\ registration' = u
  BY DEF Register
<1>2. CASE subscribed
  <2>1. PICK i \in FirstFree : known' = u /\ Registered(u, loops, i)
    BY <1>2 DEF Register
  <2>2. i \in Loops
    BY DEF FirstFree
  <2>3. kind = "list" => state.step = "Idle"
    <3>1. known = NoUser
      BY <1>1, <1>2 DEF VersionsFit
    <3> QED BY <3>1, UserAssumption DEF PollingInvariant, KnownFits, StateFits
  <2>4. kind = "list" /\ ~raced' => NoneLive(loops)
    BY <1>1, <2>3 DEF LoopsAlone
  <2>5. /\ state'.version <= latest' /\ UpToLatest(loops', latest')
        /\ state'.step # "Idle" => kind' = "list"
        /\ state'.step = "Idle" => kind' # "list"
        /\ state'.step # "Idle" /\ ~raced' => Alone(loops', state', timeout', known')
    BY <1>1, <2>1, <2>2, <2>4, RegisteredAlone
  <2>6. VersionsFit'
    BY <1>1, <2>1, <2>5 DEF VersionsFit
  <2>7. LoopsAlone'
    BY <1>1, <1>2, <2>5 DEF LoopsAlone
  <2> QED BY <2>6, <2>7
<1>3. CASE ~subscribed
  <2>1. UNCHANGED <<known, fetching, state, timeout, loops>>
    BY <1>3 DEF Register
  <2>2. VersionsFit'
    BY <1>1, <1>3, <2>1 DEF VersionsFit
  <2>3. LoopsAlone'
    BY <1>1, <1>3, <2>1 DEF LoopsAlone, given
  <2> QED BY <2>2, <2>3
<1> QED BY <1>2, <1>3 DEF PollingInvariant, Plain

\* A list that is not fetching has no loop: it never waits.
LEMMA ListAtRest ==
    ASSUME PollingInvariant, kind = "list", ~Busy
    PROVE  NoneLive(loops)
<1>1. \A i \in Loops : loops[i].step # "waiting"
  BY LoopTypes
<1> QED BY <1>1 DEF Busy, Live, NoneLive

LEMMA UnregisterAlone ==
    ASSUME PollingInvariant, VersionsFit, LoopsAlone, Unregister
    PROVE  VersionsFit' /\ LoopsAlone'
<1>1. UNCHANGED <<given, subscribed, timeout, latest>> /\ registration' = NoUser
  BY DEF Unregister
<1>2. CASE subscribed
  <2>1. /\ known' = NoUser /\ state' = IdleState
        /\ loops' = StopFetching(loops) /\ raced' = (raced \/ Busy)
    BY <1>2 DEF Unregister
  <2>2. state'.step = "Idle" /\ state'.version = 0
    BY <2>1 DEF IdleState, State
  <2>3. UpToLatest(loops', latest)
    BY <2>1, StopShape DEF VersionsFit
  <2>4. VersionsFit'
    BY <1>1, <2>1, <2>2, <2>3, LoopTypes DEF VersionsFit
  <2>5. kind = "list" /\ ~raced' => NoneLive(loops')
    BY <2>1, ListAtRest, StopShape
  <2>6. LoopsAlone'
    BY <1>1, <2>2, <2>5 DEF LoopsAlone, given
  <2> QED BY <2>4, <2>6
<1>3. CASE ~subscribed
  <2>1. UNCHANGED <<known, fetching, state, loops, raced>>
    BY <1>3 DEF Unregister
  <2>2. VersionsFit'
    BY <1>1, <1>3, <2>1 DEF VersionsFit
  <2>3. LoopsAlone'
    BY <1>1, <1>3, <2>1 DEF LoopsAlone, given
  <2> QED BY <2>2, <2>3
<1> QED BY <1>2, <1>3 DEF PollingInvariant, Plain

\* Without readers there was no loop, so that the one that starts is alone.
LEMMA StartAlone ==
    ASSUME PollingInvariant, VersionsFit, LoopsAlone, Start
    PROVE  VersionsFit' /\ LoopsAlone'
<1>1. /\ UNCHANGED <<given, registration, known, fetching, state, latest, raced>>
      /\ ~subscribed /\ registration = known /\ subscribed' = TRUE
  BY DEF Start
<1>2. CASE ~Resumes
  <2>1. UNCHANGED <<timeout, loops>>
    BY <1>2 DEF Start
  <2>2. VersionsFit'
    BY <1>1, <2>1 DEF VersionsFit
  <2>3. LoopsAlone'
    BY <1>1, <2>1 DEF LoopsAlone, given
  <2> QED BY <2>2, <2>3
<1>3. CASE Resumes
  <2> DEFINE address == ResumedAddress
  <2>1. PICK i \in FirstFree : FetchAgainAndAgain(i, address)
    BY <1>3 DEF Start
  <2>2. i \in Loops
    BY DEF FirstFree
  <2>3. PICK r \in {Fetch(address, known), Wait(address), NoLoop} :
          loops' = [loops EXCEPT ![i] = r] /\ (r.step = "waiting" => timeout' = i)
    BY <2>1, <2>2, FetchAgainShape
  <2>4. address \in Users /\ known = address
    BY <1>3, ResumedFits
  <2> HIDE DEF address
  <2>5. /\ r.version = 0 /\ r.step # "answered"
        /\ r.step # "none" => r.address = known
    BY <2>3, <2>4, LoopShapes
  <2>6. VersionsFit'
    BY <1>1, <2>2, <2>3, <2>5, NewUpTo DEF VersionsFit
  <2>7. state.step = "Idle" => kind # "list"
    BY <1>3 DEF Resumes
  <2>8. ASSUME ~raced, state.step # "Idle"
        PROVE  /\ Alone(loops', state, timeout', known)
               /\ kind = "conversation" => fetching
    <3>1. NoneLive(loops) /\ (kind = "conversation" => fetching)
      BY <1>1, <2>8 DEF LoopsAlone
    <3>2. MayFetch(state)
      BY <2>4, <2>8, UserAssumption DEF MayFetch
    <3> DEFINE f == Fetch(address, known)
    <3>3. loops' = [loops EXCEPT ![i] = f]
      BY <2>1, <3>2 DEF FetchAgainAndAgain
    <3>4. f.step = "fetching" /\ f.address = known
      BY <2>4, LoopShapes
    <3> HIDE DEF f
    <3>5. Alone([loops EXCEPT ![i] = f], state, timeout', known)
      BY <2>2, <3>1, <3>4, LoopTypes, ReplaceAlone DEF NoneLive
    <3> QED BY <3>1, <3>3, <3>5
  <2>9. LoopsAlone'
    BY <1>1, <2>7, <2>8 DEF LoopsAlone, given
  <2> QED BY <2>6, <2>9
<1> QED BY <1>2, <1>3

\* Started for another registration, a store has no loop yet but that of the new
\* one, or else there has been a race.
LEMMA StartAnewAlone ==
    ASSUME PollingInvariant, VersionsFit, LoopsAlone, StartAnew
    PROVE  VersionsFit' /\ LoopsAlone'
<1>1. /\ UNCHANGED <<given, registration, latest>> /\ subscribed' = TRUE
      /\ known' = registration /\ raced' = (raced \/ Busy \/ Resumes)
  BY DEF StartAnew
<1> DEFINE idle == Resumes /\ ~MayFetch(state)
           Resumed(l, i) == IF ~Resumes THEN l
                            ELSE IF idle THEN [l EXCEPT ![i] = Wait(known)]
                            ELSE [l EXCEPT ![i] = Fetch(ResumedAddress, known)]
<1>2. PICK i \in FirstFree, j \in SecondFree :
         IF registration # NoUser
           THEN Registered(registration, Resumed(loops, i), j)
           ELSE /\ fetching' = FALSE
                /\ state' = IdleState
                /\ loops' = Resumed(StopFetching(loops), i)
                /\ timeout' = IF idle THEN i ELSE timeout
  BY DEF StartAnew
<1>3. i \in Loops /\ j \in Loops
  BY DEF FirstFree, SecondFree
<1>4. ASSUME NEW l \in [Loops -> LoopRecord], UpToLatest(l, latest)
      PROVE  Resumed(l, i) \in [Loops -> LoopRecord] /\ UpToLatest(Resumed(l, i), latest)
  <2>1. CASE ~Resumes
    BY <1>4, <2>1
  <2>2. CASE Resumes
    <3>1. known \in Users /\ ResumedAddress \in Users
      BY <2>2, ResumedFits
    <3> DEFINE r == IF idle THEN Wait(known) ELSE Fetch(ResumedAddress, known)
    <3>2. r.version = 0 /\ Resumed(l, i) = [l EXCEPT ![i] = r]
      <4>1. CASE idle
        BY <2>2, <4>1, LoopShapes
      <4>2. CASE ~idle
        BY <2>2, <4>2, LoopShapes
      <4> QED BY <4>1, <4>2
    <3>3. r \in LoopRecord
      <4>1. IF kind = "conversation" THEN account \in Users ELSE TRUE
        BY DEF PollingInvariant, Plain
      <4> QED BY <3>1, <4>1 DEF Wait, Fetch, LoopRecord
    <3>4. r.version <= latest
      BY <3>2, LoopTypes
    <3> HIDE DEF r, Resumed
    <3>5. UpToLatest([l EXCEPT ![i] = r], latest)
      BY <1>3, <1>4, <3>4, LoopTypes, ReplaceUpTo
    <3> QED BY <1>3, <1>4, <3>2, <3>3, <3>5
  <2> QED BY <2>1, <2>2
<1>5. ~raced' => /\ ~Busy /\ ~Resumes
                 /\ \A l : Resumed(l, i) = l
  BY <1>1
<1> HIDE DEF Resumed, idle
<1>6. CASE registration # NoUser
  <2> DEFINE l == Resumed(loops, i)
  <2>1. l \in [Loops -> LoopRecord] /\ UpToLatest(l, latest)
    BY <1>4, LoopTypes DEF VersionsFit
  <2>2. Registered(registration, l, j)
    BY <1>2, <1>6
  <2>3. kind = "list" /\ ~raced' => NoneLive(l)
    BY <1>5, ListAtRest
  <2> HIDE DEF l
  <2>4. CASE kind = "list"
    <3> DEFINE r == Fetch(registration, registration)
    <3>1. state' = State("Fetching", registration, NoUser, 0) /\ loops' = [l EXCEPT ![j] = r]
      BY <2>2, <2>4 DEF Registered
    <3>2. state'.step = "Fetching" /\ state'.version = 0
      BY <3>1 DEF State
    <3>3. r.version = 0 /\ r.step = "fetching" /\ r.address = registration
      BY LoopShapes
    <3> HIDE DEF r
    <3>4. r.version <= latest
      BY <3>3, LoopTypes
    <3>5. UpToLatest([l EXCEPT ![j] = r], latest)
      BY <1>3, <2>1, <3>4, LoopTypes, ReplaceUpTo
    <3>6. VersionsFit'
      BY <1>1, <3>1, <3>2, <3>5, LoopTypes DEF VersionsFit
    <3>7. ~raced' => Alone([l EXCEPT ![j] = r], state', timeout', registration)
      <4> SUFFICES ASSUME ~raced'
                   PROVE  Alone([l EXCEPT ![j] = r], state', timeout', registration)
        OBVIOUS
      <4>1. \A k \in Loops \ {j} : l[k].step = "none"
        BY <2>3, <2>4 DEF NoneLive
      <4> QED BY <1>3, <2>1, <3>3, <4>1, ReplaceAlone
    <3>8. LoopsAlone'
      BY <1>1, <2>4, <3>1, <3>2, <3>7 DEF LoopsAlone, given
    <3> QED BY <3>6, <3>8
  <2>5. CASE kind # "list"
    <3>1. state' = IdleState /\ loops' = [l EXCEPT ![j] = Wait(registration)]
      BY <2>2, <2>5 DEF Registered
    <3>2. state'.step = "Idle" /\ state'.version = 0
      BY <3>1 DEF IdleState, State
    <3>3. Wait(registration).version <= latest
      BY LoopShapes, LoopTypes
    <3>4. UpToLatest([l EXCEPT ![j] = Wait(registration)], latest)
      BY <1>3, <2>1, <3>3, LoopTypes, ReplaceUpTo
    <3>5. VersionsFit'
      BY <1>1, <3>1, <3>2, <3>4, LoopTypes DEF VersionsFit
    <3>6. LoopsAlone'
      BY <1>1, <2>5, <3>2 DEF LoopsAlone, given
    <3> QED BY <3>5, <3>6
  <2> QED BY <2>4, <2>5
<1>7. CASE registration = NoUser
  <2> DEFINE l == StopFetching(loops)
  <2>1. l \in [Loops -> LoopRecord]
    BY StopFits DEF PollingInvariant, LoopsFit
  <2>2. UpToLatest(l, latest)
    BY StopShape DEF VersionsFit
  <2>3. state' = IdleState /\ loops' = Resumed(l, i)
    BY <1>2, <1>7
  <2>4. state'.step = "Idle" /\ state'.version = 0
    BY <2>3 DEF IdleState, State
  <2>5. kind = "list" /\ ~raced' => NoneLive(l)
    BY <1>5, ListAtRest, StopShape
  <2> HIDE DEF l
  <2>6. VersionsFit'
    BY <1>1, <1>4, <2>1, <2>2, <2>3, <2>4, LoopTypes DEF VersionsFit
  <2>7. LoopsAlone'
    BY <1>1, <1>5, <2>3, <2>4, <2>5 DEF LoopsAlone, given
  <2> QED BY <2>6, <2>7
<1> QED BY <1>6, <1>7

\* When nothing is being fetched, the only loop is the one that onStop clears.
LEMMA StopAlone ==
    ASSUME PollingInvariant, VersionsFit, LoopsAlone, Stop
    PROVE  VersionsFit' /\ LoopsAlone'
<1>1. /\ UNCHANGED <<given, registration, known, fetching, state, timeout, latest>>
      /\ subscribed /\ subscribed' = FALSE /\ raced' = (raced \/ Busy)
      /\ loops' = IF fetching /\ state.step = "Fetched" THEN StopFetching(loops) ELSE loops
  BY DEF Stop
<1>2. UpToLatest(loops', latest)
  BY <1>1, StopShape DEF VersionsFit
<1>3. VersionsFit'
  BY <1>1, <1>2 DEF VersionsFit
<1>4. ASSUME ~raced', kind = "list" PROVE NoneLive(loops')
  <2>1. NoneLive(loops)
    BY <1>1, <1>4, ListAtRest
  <2> QED BY <1>1, <2>1, StopShape
<1>5. ASSUME ~raced', kind = "conversation", state.step # "Idle" PROVE NoneLive(loops')
  <2>1. /\ Alone(loops, state, timeout, known) /\ fetching
    BY <1>1, <1>5 DEF LoopsAlone
  <2>2. \A i \in Loops : loops[i].step \in {"none", "waiting"}
    BY <1>1, <1>5 DEF Busy, Live
  <2>3. CASE NoneLive(loops)
    BY <1>1, <2>3, StopShape
  <2>4. CASE ~NoneLive(loops)
    <3>1. PICK i \in Loops : loops[i].step = "waiting"
      BY <2>2, <2>4 DEF NoneLive
    <3>2. timeout = i /\ state.step = "Fetched" /\ \A j \in Loops \ {i} : loops[j].step = "none"
      BY <2>1, <3>1 DEF Alone
    <3>3. StopFetching(loops) = [loops EXCEPT ![i] = NoLoop]
      BY <3>1, <3>2, LoopsAssumption DEF StopFetching
    <3>4. loops' = [loops EXCEPT ![i] = NoLoop]
      BY <1>1, <2>1, <3>2, <3>3
    <3> QED BY <3>2, <3>4, LoopShapes, LoopTypes DEF NoneLive
  <2> QED BY <2>3, <2>4
<1>6. ASSUME ~raced', state.step # "Idle"
      PROVE  /\ NoneLive(loops') /\ Alone(loops', state, timeout, known)
             /\ kind = "conversation" => fetching
  <2>1. NoneLive(loops')
    BY <1>4, <1>5, <1>6, LoopTypes
  <2> QED BY <1>1, <1>6, <2>1, NoneAlone DEF LoopsAlone
<1>7. LoopsAlone'
  BY <1>1, <1>4, <1>6 DEF LoopsAlone, given
<1> QED BY <1>3, <1>7

LEMMA ChangeAlone ==
    ASSUME PollingInvariant, VersionsFit, LoopsAlone, Change
    PROVE  VersionsFit' /\ LoopsAlone'
<1>1. /\ UNCHANGED <<given, registration, known, subscribed, fetching, state, timeout,
                     loops, acts, raced>>
      /\ latest' = latest + 1
  BY DEF Change
<1>2. state.version <= latest' /\ UpToLatest(loops, latest')
  BY <1>1, LoopTypes DEF VersionsFit, UpToLatest
<1>3. VersionsFit'
  BY <1>1, <1>2 DEF VersionsFit
<1>4. LoopsAlone'
  BY <1>1 DEF LoopsAlone, given
<1> QED BY <1>3, <1>4

LoopsInvariant == PollingInvariant /\ VersionsFit /\ LoopsAlone

LEMMA LoopsStep == LoopsInvariant /\ [Next]_vars => LoopsInvariant'
<1> SUFFICES ASSUME PollingInvariant, VersionsFit, LoopsAlone, [Next]_vars
             PROVE  VersionsFit' /\ LoopsAlone'
  BY InvariantStep DEF LoopsInvariant
<1> DEFINE Goal == VersionsFit' /\ LoopsAlone'
<1>1. CASE UNCHANGED vars
  BY <1>1 DEF vars, VersionsFit, LoopsAlone, given
<1>2. ASSUME NEW i \in Loops, TimerFires(i) \/ Answered(i) \/ Arrives(i) \/ Fails(i)
      PROVE  Goal
  BY <1>2, TimerFiresAlone, AnsweredAlone, ArrivesAlone, FailsAlone
<1>3. ASSUME NEW u \in Users, Register(u) PROVE Goal
  BY <1>3, RegisterAlone
<1>4. CASE Unregister
  BY <1>4, UnregisterAlone
<1>5. CASE Start
  BY <1>5, StartAlone
<1>6. CASE StartAnew
  BY <1>6, StartAnewAlone
<1>7. CASE Stop
  BY <1>7, StopAlone
<1>8. CASE Change
  BY <1>8, ChangeAlone
<1> HIDE DEF Goal
<1>9. Goal
  BY <1>1, <1>2, <1>3, <1>4, <1>5, <1>6, <1>7, <1>8 DEF Next, Goal
<1> QED BY <1>9 DEF Goal

LEMMA LoopsHold == Spec => []LoopsInvariant
<1>1. Init => LoopsInvariant
  <2> SUFFICES ASSUME Init PROVE LoopsInvariant
    OBVIOUS
  <2>1. state.version = 0 /\ latest = 0 /\ ~subscribed /\ ~raced /\ fetching
    BY DEF Init, State
  <2>2. loops = [i \in Loops |-> NoLoop]
    BY DEF Init
  <2>3. NoneLive(loops) /\ UpToLatest(loops, 0)
    BY <2>2, LoopShapes DEF NoneLive, UpToLatest
  <2> QED BY <2>1, <2>3, InvariantInit, NoneAlone
          DEF LoopsInvariant, VersionsFit, LoopsAlone
<1>2. LoopsInvariant /\ [Next]_vars => LoopsInvariant'
  BY LoopsStep
<1> QED BY <1>1, <1>2, PTL DEF Spec

\* A store that shows something or fetches has one loop at most, however its
\* readers and its account came and went, unless a stop met a fetch under way:
\* stopFetching clears the timer that was set last, and that is the loop's.
THEOREM OneLoopOnly == Spec => []OneLoopUnlessRaced
<1>1. LoopsInvariant => OneLoopUnlessRaced
  <2> SUFFICES ASSUME LoopsInvariant, ~raced, state.step # "Idle"
               PROVE  Cardinality(Live) <= 1
    BY DEF OneLoopUnlessRaced
  <2>1. \A i, j \in Live : i = j
    BY DEF LoopsInvariant, LoopsAlone, Alone, Live
  <2>2. CASE Live = {}
    BY <2>2, FS_EmptySet
  <2>3. CASE Live # {}
    <3>1. PICK i \in Live : Live = {i}
      BY <2>1, <2>3
    <3>2. Cardinality({i}) = 1
      BY FS_Singleton
    <3> QED BY <3>1, <3>2
  <2> QED BY <2>2, <2>3
<1> QED BY <1>1, LoopsHold, PTL

\* No answer takes the place of a newer one of the same account, unless a stop
\* met a fetch under way.
THEOREM AnswersInOrder == Spec => OlderOnlyIfRaced
<1> DEFINE Older == /\ state'.step = "Fetched" /\ state.step = "Fetched"
                    /\ state'.address = state.address
                    /\ state'.version < state.version
<1>1. ASSUME LoopsInvariant, [Next]_vars, Older PROVE raced
  <2>1. state.version \in Nat
    BY <1>1, LoopTypes DEF LoopsInvariant
  <2>2. state' # state
    BY <1>1, <2>1
  <2>3. state'.step # "Idle" /\ state'.step # "Fetching"
    BY <1>1
  <2>4. PICK i \in Loops : Arrives(i)
    <3>1. ASSUME NEW u \in Users, NEW l, NEW j, Registered(u, l, j) PROVE FALSE
      BY <2>3, <3>1 DEF Registered, State, IdleState
    <3>2. state' # IdleState
      BY <2>3 DEF IdleState, State
    <3>3. registration \in Users \cup {NoUser}
      BY <1>1 DEF LoopsInvariant, PollingInvariant, Plain
    <3>4. /\ ~Unregister /\ ~Start /\ ~Stop /\ ~Change /\ ~UNCHANGED vars
          /\ \A i \in Loops : ~TimerFires(i) /\ ~Answered(i) /\ ~Fails(i)
      BY <2>2, <3>2
      DEF Unregister, Start, Stop, Change, vars, TimerFires, Answered, Fails
    <3>5. \A u \in Users : ~Register(u)
      BY <2>2, <3>1 DEF Register
    <3>6. ~StartAnew
      BY <3>1, <3>2, <3>3 DEF StartAnew
    <3> QED BY <1>1, <3>4, <3>5, <3>6 DEF Next
  <2>5. ASSUME ~raced PROVE FALSE
    <3>1. Alone(loops, state, timeout, known) \/ state.step = "Idle"
      BY <2>5 , <1>1 DEF LoopsInvariant, LoopsAlone
    <3>2. state.step # "Idle" /\ loops[i].step = "answered"
      BY <1>1, <2>4 DEF Arrives
    <3>3. state.version <= loops[i].version
      BY <3>1, <3>2 DEF Alone
    <3>4. state'.version = loops[i].version
      BY <2>2, <2>4 DEF Arrives, State
    <3> QED BY <1>1, <2>1, <3>3, <3>4, LoopTypes DEF LoopsInvariant
  <2> QED BY <2>5
<1>2. LoopsInvariant /\ [Next]_vars => [Older => raced]_vars
  BY <1>1
<1>3. OlderOnlyIfRaced <=> [][Older => raced]_vars
  BY PTL DEF OlderOnlyIfRaced
<1> QED BY <1>2, <1>3, LoopsHold, PTL DEF Spec
=============================================================================
