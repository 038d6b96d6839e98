--------------------------- MODULE MCSessionServer ---------------------------
(***************************************************************************)
(* SessionServer on small instances.  With max_gen 2 the chats give the    *)
(* prompts A, AE and AEA of the tokens A and E (the end token): a first    *)
(* turn, one with its answer, and one that goes on after the answer.       *)
(***************************************************************************)
EXTENDS SessionServer

CONSTANT tokA

System(content) == [role |-> "system", content |-> content]
User(content)   == [role |-> "user", content |-> content]

\* The first chat is pruned away and gets the default system prompt; the
\* system prompt of the second stays, however long.
Chats     == {<<User(<<EndToken, tokA>>)>>,
              <<System(<<tokA, EndToken>>), User(<<tokA>>)>>}
TurnChats == {<<User(<< >>)>>, <<User(<<EndToken, tokA>>)>>}

Prompted == <<tokA>>
=============================================================================
