------------------------------- MODULE ChatLog -------------------------------
(***************************************************************************)
(* What a chat room promises about its messages: a log that only grows, in *)
(* the order of the timestamps, and readers that are given the end of the  *)
(* log when they come and every message after that, until they leave.      *)
(***************************************************************************)
EXTENDS Integers, Sequences

CONSTANTS
    Readers,
    Backlog  \* how much of the log a new reader is given

VARIABLES
    log,      \* messages, with their time in .ts
    reading,  \* the readers that are there
    view      \* what each of them has been given

Init ==
    /\ log = <<>>
    /\ reading = {}
    /\ view = [r \in Readers |-> <<>>]

End(n) == SubSeq(log, IF n < Len(log) THEN Len(log) - n + 1 ELSE 1, Len(log))

Come(r) ==
    /\ r \notin reading
    /\ reading' = reading \cup {r}
    /\ view' = [view EXCEPT ![r] = End(Backlog)]
    /\ UNCHANGED log

\* A message newer than all others, given to all readers at once.
Grow ==
    /\ Len(log') = Len(log) + 1
    /\ SubSeq(log', 1, Len(log)) = log
    /\ \A i \in DOMAIN log : log[i].ts < log'[Len(log')].ts
    /\ view' = [r \in Readers |->
                  IF r \in reading THEN Append(view[r], log'[Len(log')]) ELSE view[r]]
    /\ UNCHANGED reading

Leave(r) ==
    /\ r \in reading
    /\ reading' = reading \ {r}
    /\ view' = [view EXCEPT ![r] = <<>>]
    /\ UNCHANGED log

Next == Grow \/ \E r \in Readers : Come(r) \/ Leave(r)

Spec == Init /\ [][Next]_<<log, reading, view>>
=============================================================================
