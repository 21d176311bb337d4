---------------------------- MODULE MCRoomClient ----------------------------
(***************************************************************************)
(* A client with one reconnection and one peer.  States are told apart by  *)
(* what can still matter: of the frames sent, those that the client has    *)
(* yet to receive and the accounts that the others tell of, and of the     *)
(* sessions, those that are in the room.                                   *)
(***************************************************************************)
EXTENDS RoomSystem, TLC

Symmetry == Permutations(Users)

Underway == [s \in Own |-> IF ready[s] = "open"
                             THEN SubSeq(sent[s], read[s] + 1, Len(sent[s])) ELSE <<>>]

\* What is asked of the past, of the first connection only.
Heard == [s \in Own |-> IF First(s) THEN Accounts(s) ELSE {}]
Lost  == {m \in refused : First(m[1]) /\ m[2] \in {"login", "chat"}}

WhatMatters ==
    <<conn, sessions, [s \in sessions |-> session[s].address], logins, lastTimestamp,
      history, Underway, Heard, requests, verifiable, registration, known, acts,
      websocket, ready, room, savedSession, loginOnChallengeReceived, signing, outbox,
      reported, Lost, steady>>
=============================================================================
