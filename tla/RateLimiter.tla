------------------------------ MODULE RateLimiter ------------------------------
(***************************************************************************)
(* The rate limiter of the server (packages/server/src/RateLimiter.ts):    *)
(* one RateLimiter object for an IP address, on Cloudflare a durable       *)
(* object, and the RateLimiterClient of each of the connections that come  *)
(* from that address, which calls it over the network for every message    *)
(* and refuses messages until the answer has come and been waited for.     *)
(*                                                                         *)
(* Time is relative: the limiter keeps how far nextAllowedTime is ahead of *)
(* now, and a timer the seconds it has left, so that the state is finite   *)
(* although the clients send messages for ever.                            *)
(***************************************************************************)
EXTENDS Integers, FiniteSets

CONSTANTS
    Sessions,      \* the connections from the address, each opened once
    Interval,      \* "one action per 5 seconds"
    Grace,         \* "a grace period of 20 seconds"
    MaxEvictions   \* bound on the evictions of the limiter (0 is Bun)

ASSUME SessionsAssumption == IsFiniteSet(Sessions)
ASSUME IntervalAssumption == Interval \in Nat \ {0}
ASSUME GraceAssumption    == Grace \in Nat
ASSUME EvictionAssumption == MaxEvictions \in Nat

VARIABLES
    debt,        \* nextAllowedTime - now, or 0
    evictions,   \* evictions of the limiter so far
    conn,        \* the connections
    inCooldown,  \* the flag of each client
    call,        \* how far callLimiter() of each client has come
    wait,        \* the cooldown in the answer, then the time left to wait
    level        \* history: the seconds that the accepted messages take up

vars == <<debt, evictions, conn, inCooldown, call, wait, level>>

Steps == {"none",     \* no call under way
          "first",    \* the request is on its way to the limiter
          "served",   \* the answer is on its way back
          "second",   \* the same, after a first fetch that threw
          "reserved",
          "waiting"}  \* the timer is set

AtLeastZero(n) == IF n < 0 THEN 0 ELSE n

-----------------------------------------------------------------------------
Init ==
    /\ debt = 0
    /\ evictions = 0
    /\ conn = [s \in Sessions |-> "new"]
    /\ inCooldown = [s \in Sessions |-> FALSE]
    /\ call = [s \in Sessions |-> "none"]
    /\ wait = [s \in Sessions |-> 0]
    /\ level = 0

\* webSocketOpen makes a client of its own for the connection.
Open(s) ==
    /\ conn[s] = "new"
    /\ conn' = [conn EXCEPT ![s] = "open"]
    /\ UNCHANGED <<debt, evictions, inCooldown, call, wait, level>>

\* The flag is set only once the answer has come.
MutCheckLimit(s) ==
    /\ conn[s] = "open"
    /\ ~inCooldown[s]
    /\ call' = [call EXCEPT ![s] = "first"]
    /\ level' = level + Interval
    /\ UNCHANGED <<debt, evictions, conn, inCooldown, wait>>

\* checkLimit() accepts a message and starts callLimiter(); in cooldown it
\* refuses the message, which changes nothing.
CheckLimit(s) ==
    /\ conn[s] = "open"
    /\ ~inCooldown[s]
    /\ inCooldown' = [inCooldown EXCEPT ![s] = TRUE]
    /\ call' = [call EXCEPT ![s] = "first"]
    /\ level' = level + Interval
    /\ UNCHANGED <<debt, evictions, conn, wait>>

\* Not floored at zero.
MutCooldown(ahead) == ahead - Grace

\* What the limiter answers when nextAllowedTime is that far ahead.
Cooldown(ahead) == AtLeastZero(ahead - Grace)

\* The limiter serves the POST: it charges the action and answers.
Serve(s) ==
    /\ call[s] \in {"first", "second"}
    /\ debt' = debt + Interval
    /\ wait' = [wait EXCEPT ![s] = Cooldown(debt + Interval)]
    /\ call' = [call EXCEPT ![s] = IF @ = "first" THEN "served" ELSE "reserved"]
    /\ UNCHANGED <<evictions, conn, inCooldown, level>>

\* Every fetch that throws is made again.
MutRetry(s) ==
    /\ call[s] \in {"first", "served", "second", "reserved"}
    /\ call' = [call EXCEPT ![s] = "second"]
    /\ wait' = [wait EXCEPT ![s] = 0]
    /\ UNCHANGED <<debt, evictions, conn, inCooldown, level>>

\* The first fetch throws, whether or not the limiter has served it: a new
\* stub, and the POST again.
Retry(s) ==
    /\ call[s] \in {"first", "served"}
    /\ call' = [call EXCEPT ![s] = "second"]
    /\ wait' = [wait EXCEPT ![s] = 0]
    /\ UNCHANGED <<debt, evictions, conn, inCooldown, level>>

\* The error is logged and the connection left as it is.
MutReportError(s) ==
    /\ call[s] \in {"served", "second", "reserved"}
    /\ call' = [call EXCEPT ![s] = "none"]
    /\ wait' = [wait EXCEPT ![s] = 0]
    /\ UNCHANGED <<debt, evictions, conn, inCooldown, level>>

\* The second fetch throws, or the text of an answer does: reportError
\* closes the connection, whose flag stays set.
ReportError(s) ==
    /\ call[s] \in {"served", "second", "reserved"}
    /\ call' = [call EXCEPT ![s] = "none"]
    /\ wait' = [wait EXCEPT ![s] = 0]
    /\ conn' = [conn EXCEPT ![s] = IF @ = "open" THEN "closing" ELSE @]
    /\ UNCHANGED <<debt, evictions, inCooldown, level>>

\* The answer comes and the timer is set.
Answer(s) ==
    /\ call[s] \in {"served", "reserved"}
    /\ call' = [call EXCEPT ![s] = "waiting"]
    /\ UNCHANGED <<debt, evictions, conn, inCooldown, wait, level>>

\* "Done waiting."
TimerFires(s) ==
    /\ call[s] = "waiting"
    /\ wait[s] = 0
    /\ call' = [call EXCEPT ![s] = "none"]
    /\ inCooldown' = [inCooldown EXCEPT ![s] = FALSE]
    /\ UNCHANGED <<debt, evictions, conn, wait, level>>

\* A second passes.
Tick ==
    /\ debt' = AtLeastZero(debt - 1)
    /\ wait' = [s \in Sessions |->
                  IF call[s] = "waiting" THEN AtLeastZero(wait[s] - 1) ELSE wait[s]]
    /\ level' = AtLeastZero(level - 1)
    /\ UNCHANGED <<evictions, conn, inCooldown, call>>

\* The close event, after the client has left or the room has closed the
\* connection; a call under way goes on without it.
CloseEvent(s) ==
    /\ conn[s] \in {"open", "closing"}
    /\ conn' = [conn EXCEPT ![s] = "closed"]
    /\ UNCHANGED <<debt, evictions, inCooldown, call, wait, level>>

\* Cloudflare evicts the limiter, which keeps nothing in its storage: the
\* constructor starts in the distant past again.
Evict ==
    /\ evictions < MaxEvictions
    /\ evictions' = evictions + 1
    /\ debt' = 0
    /\ UNCHANGED <<conn, inCooldown, call, wait, level>>

\* The room hibernates, which it cannot while a call or a timer is pending:
\* instantiate() makes a new client for each socket that the runtime holds.
Hibernate ==
    /\ \A s \in Sessions : call[s] = "none"
    /\ inCooldown' = [s \in Sessions |-> inCooldown[s] /\ conn[s] = "closed"]
    /\ UNCHANGED <<debt, evictions, conn, call, wait, level>>

-----------------------------------------------------------------------------
\* A fetch settles, one way or another.
Settle(s) == Serve(s) \/ Answer(s) \/ Retry(s) \/ ReportError(s)

Next ==
    \/ \E s \in Sessions :
         \/ Open(s) \/ CheckLimit(s) \/ Serve(s) \/ Answer(s) \/ Retry(s)
         \/ ReportError(s) \/ TimerFires(s) \/ CloseEvent(s)
    \/ Tick \/ Evict \/ Hibernate

\* A connection that the room closes is closed in the end.
ClosingEnds(s) == conn[s] = "closing" /\ CloseEvent(s)

\* Time passes, timers fire, fetches settle and a closing handshake ends.
Fairness ==
    /\ WF_vars(Tick)
    /\ \A s \in Sessions : /\ WF_vars(Settle(s))
                           /\ WF_vars(TimerFires(s))
                           /\ WF_vars(ClosingEnds(s))

Spec == Init /\ [][Next]_vars /\ Fairness

-----------------------------------------------------------------------------
(* Properties. *)

Connections == Cardinality(Sessions)

\* Every variable keeps its type: no cooldown is negative.
TypeOK ==
    /\ debt \in Nat
    /\ evictions \in 0..MaxEvictions
    /\ conn \in [Sessions -> {"new", "open", "closing", "closed"}]
    /\ inCooldown \in [Sessions -> BOOLEAN]
    /\ call \in [Sessions -> Steps]
    /\ wait \in [Sessions -> Nat]
    /\ level \in Nat

Bucket == INSTANCE LeakyBucket WITH
            Slack  <- Interval * Connections,
            level  <- level,
            bursts <- evictions + 1

\* The messages accepted from all the connections of an address fit a bucket
\* that leaks one interval for each message, holds the grace period and one
\* message more per connection: lost answers, repeated calls and the delay
\* between a message and its charge let no more through, and an eviction of
\* the limiter lets no more through than a second such bucket.
FitsTheBucket == Bucket!Spec

\* No connection is kept waiting for more than the actions that all of them
\* have under way, each charged twice at the worst: the limiter, which has
\* charged an action whose answer was lost, does not add up such charges.
WaitBounded == \A s \in Sessions : wait[s] <= 2 * Interval * Connections

\* A connection that is refused is served again, or is closed so that its
\* client can start over: it is never refused for ever.
CooldownEnds == \A s \in Sessions :
    inCooldown[s] ~> (~inCooldown[s] \/ conn[s] = "closed")
=============================================================================
