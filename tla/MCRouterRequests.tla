-------------------------- MODULE MCRouterRequests --------------------------
(* Small instances of RouterRequests; one unit of tokens stands for 200.     *)
EXTENDS RouterRequests

CONSTANT c1

Msg(user, tokens) == [user |-> user, tokens |-> tokens]
Body(op, messages, query, selectors, reference) ==
    [op |-> op, messages |-> messages, query |-> query, selectors |-> selectors,
     reference |-> reference]

(* A long history, one that ends in a message of the assistant, an empty     *)
(* message, one that leaves no room for a history, and none of the user.     *)
SomeRequests ==
    {Body("chat", <<Msg(TRUE, 2), Msg(FALSE, 2), Msg(TRUE, 2)>>, TRUE, FALSE, TRUE),
     Body("chat", <<Msg(TRUE, 2), Msg(FALSE, 1)>>, TRUE, FALSE, FALSE),
     Body("chat", <<Msg(FALSE, 1)>>, TRUE, FALSE, FALSE),
     Body("chat", <<Msg(TRUE, 2), Msg(FALSE, 1), Msg(TRUE, 0)>>, FALSE, FALSE, TRUE),
     Body("chat", <<Msg(FALSE, 1), Msg(TRUE, 9)>>, TRUE, FALSE, FALSE),
     Body("context", <<>>, TRUE, FALSE, FALSE),
     Body("context", <<>>, FALSE, TRUE, FALSE),
     Body("context", <<>>, FALSE, FALSE, FALSE),
     Body("search", <<>>, TRUE, FALSE, FALSE),
     Body("glap", <<Msg(TRUE, 1)>>, FALSE, FALSE, FALSE),
     Body("get", <<>>, FALSE, FALSE, FALSE)}

(* Two that fill the larger budget, and of which one alone fits the smaller, *)
(* whichever comes first; a blank text.                                      *)
Lists == {<<>>, <<2, 1>>, <<0>>}
=============================================================================
