---------------------------- MODULE MCHandshake -----------------------------
EXTENDS Handshake

Admin == <<9>>
A == <<7>>
B == <<8>>

\* A dialogue by what it is about.
About(methods, user, pass, cmd, atyp, addr, payload) ==
  [methods |-> {methods[i] : i \in 1 .. Len(methods)}, hello |-> Greeting(methods),
   user |-> user, pass |-> pass, auth |-> Login(user, pass),
   cmd |-> cmd, atyp |-> atyp, addr |-> addr, port |-> 258,
   request |-> RequestFor(cmd, atyp, addr, 258), payload |-> payload, bad |-> "none"]

Both == About(<<NO_AUTH, USERPASS>>, A, B, CONNECT, IPV4, <<6, 6>>, <<3>>)
Auth == About(<<USERPASS>>, A, B, CONNECT, DOMAIN_NAME, <<6>>, <<3, 4>>)
Nul  == About(<<1, USERPASS>>, A \o <<0, 4>>, B, CONNECT, IPV6, <<6, 6, 6>>, <<>>)
Anon == About(<<NO_AUTH>>, <<1>>, <<1>>, CONNECT, DOMAIN_NAME, <<5, 0, 5>>, <<3, 3>>)
Bind == About(<<NO_AUTH>>, A, B, 2, IPV4, <<6, 6>>, <<>>)
Mute == About(<<>>, A, B, CONNECT, IPV4, <<6, 6>>, <<>>)

MCDialogues ==
  {Both, Auth, Nul, Anon, Bind, Mute,
   [Anon EXCEPT !.hello = <<4, 1, 0>>, !.bad = "hello"],
   [Auth EXCEPT !.auth = <<1, 1, 7, 0>>, !.bad = "auth"],
   [Both EXCEPT !.request = <<5, 1, 0, 9, 6, 6>>, !.bad = "request"]}

User(n, p) == [letter |-> "u", arg |-> n \o <<COLON>> \o p]

\* Open to all; a user given twice, with two passwords; one user too many.
MCCommandLines ==
  {<<>>, <<User(A, A), User(A, B)>>, <<User(B, A), User(<<6>>, B), User(A, B)>>}

MCChanges == {[name |-> A, pass |-> B]}
=============================================================================
