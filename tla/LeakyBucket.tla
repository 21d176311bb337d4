------------------------------ MODULE LeakyBucket ------------------------------
(***************************************************************************)
(* What the rate limiter promises of the messages it lets through from one *)
(* IP address: they fit a bucket that leaks one unit a second and that a   *)
(* message fills by the interval between two messages.                     *)
(***************************************************************************)
EXTENDS Naturals

CONSTANTS
    Interval,  \* seconds that a message takes up
    Grace,     \* seconds of messages that may come in a burst
    Slack      \* what the connections may add, as each is told too late

VARIABLES
    level,     \* what the bucket holds
    bursts     \* bursts granted

bucketVars == <<level, bursts>>

Capacity == bursts * (Grace + Slack)

BucketInit == level = 0 /\ bursts = 1

\* A message is let through only if it fits.
Pour ==
    /\ level + Interval <= Capacity
    /\ level' = level + Interval
    /\ UNCHANGED bursts

\* A second passes.
Leak ==
    /\ level > 0
    /\ level' = level - 1
    /\ UNCHANGED bursts

\* The limiter forgets what it has let through, and grants another burst.
Forget == bursts' = bursts + 1 /\ UNCHANGED level

BucketNext == Pour \/ Leak \/ Forget

Spec == BucketInit /\ [][BucketNext]_bucketVars
=============================================================================
