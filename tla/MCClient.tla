------------------------------ MODULE MCClient ------------------------------
EXTENDS Client

CONSTANTS raw, cli

MCConns == {raw, cli}
MCPrograms == {cli}

Admin == <<9>>
A == <<7>>
B == <<8>>

\* Another password, another name, a name in two parts, and one that is empty
\* for strlen.
X == <<6>>
C == <<5>>
Cut(n) == n \o <<0, 4>>
Empty == <<0, 7>>

Login == do_auth(Admin, Admin)

\* A client of its own make sends a list of messages in one go while the
\* terminal client makes one request.
Together(list, request) == raw :> list @@ cli :> <<Login, request>>

\* Commands that follow each other at once, longer than the buffer; NULs inside
\* fields; wrong credentials; malformed, incomplete and unknown messages.
MCScenarios ==
  LET adds     == <<Login, cmd_add_user(A, X), cmd_simple(LIST_USERS)>>
      replaces == <<Login, cmd_del_user(A), cmd_add_user(C, X)>>
      nuls     == <<do_auth(Cut(Admin), Admin), cmd_simple(9), cmd_add_user(Cut(A), X)>>
      breaks   == <<Login, cmd_add_user(Empty, X), Message(BAD, <<1, 1, 1, 7, 0>>)>>
      guesses  == <<do_auth(Admin, X), cmd_del_user(A)>>
  IN  {Together(adds, cmd_del_user(A)), Together(adds, cmd_add_user(B, X)),
       Together(replaces, cmd_add_user(B, X)),
       Together(replaces, cmd_simple(LIST_USERS)),
       Together(nuls, cmd_set_config(7, 1)), Together(nuls, cmd_add_user(<<>>, X)),
       Together(breaks, cmd_set_config(CFG_IO_BUFFER_SIZE, BYTE ^ 4 + 2)),
       Together(guesses, cmd_set_config(CFG_AUTH_REQUIRED, 0)),
       Together(<<Message(BAD, <<1, 0, 9>>)>>, cmd_simple(GET_CONFIG)),
       raw :> <<Login, cmd_set_config(7, 1), cmd_simple(GET_CONFIG)>>
         @@ cli :> <<do_auth(B, B), cmd_simple(METRICS)>>,
       raw :> <<Login, Message(BAD, <<1, 2, 1>>)>> @@ cli :> <<Login, cmd_simple(METRICS)>>,
       raw :> <<Login>> @@ cli :> <<Login, Message(BAD, <<>>)>>}

MCNames == {A, B, C}
MCPasswords == {A, B, X}

User(n, p) == [letter |-> "u", arg |-> n \o <<COLON>> \o p]
Flag == [letter |-> "N", arg |-> <<>>]
AdminIs(n, p) == [letter |-> "a", arg |-> n \o <<COLON>> \o p]

\* No users; two that fill the table; one too many; a malformed user.
MCCommandLines ==
  {<<Flag>>, <<User(A, B), AdminIs(B, B), User(B, A), AdminIs(Admin, Admin)>>,
   <<User(A, A), User(A, B), User(B, B)>>, <<User(<<>>, A)>>}
=============================================================================
