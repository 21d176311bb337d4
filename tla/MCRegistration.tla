---------------------------- MODULE MCRegistration ----------------------------
(***************************************************************************)
(* Registration with a user who has two keys and another with one.         *)
(***************************************************************************)
EXTENDS Registration

CONSTANTS Alice, Bob, KeyA, KeyB

MCCredentials == {[address |-> Alice, key |-> KeyA], [address |-> Alice, key |-> KeyB],
                  [address |-> Bob, key |-> KeyB]}
MCOwnAccounts == {[address |-> Alice, key |-> KeyA], [address |-> Bob, key |-> KeyB]}
=============================================================================
