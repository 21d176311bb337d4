-------------------------- MODULE MCConversations --------------------------
(***************************************************************************)
(* Conversations on small instances: two users in one conversation.        *)
(***************************************************************************)
EXTENDS Conversations, TLC

CONSTANTS alice, bob, conv

MCUsers == {alice, bob}
MCConvs == {conv}

From(u, to) == [conv |-> conv, from |-> u, to |-> to]

\* What the client sends: to the other and to oneself.
Exchange == {From(alice, <<bob, alice>>), From(bob, <<alice, bob>>)}

\* What the API takes beside that: to the other alone, as the tests of the
\* server do, to nobody, and to oneself twice, as the client does in a
\* conversation with oneself.
MCAddressing == Exchange \cup {From(alice, <<bob>>), From(alice, <<>>),
                               From(alice, <<alice, alice>>)}
=============================================================================
