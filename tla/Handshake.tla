----------------------------- MODULE Handshake ------------------------------
(***************************************************************************)
(* The handshake of a SOCKS5 connection, byte by byte: the incremental     *)
(* parsers of src/socks5_parsers.c, the states HELLO_READ to REQUEST_WRITE *)
(* of src/socks5.c that feed them, and the replies they send, while the    *)
(* management side changes the users and the need to authenticate.         *)
(*                                                                         *)
(* A client either waits for each reply before it goes on or is eager: it  *)
(* has sent everything at once.  recv and send may stop short of all there *)
(* is at RecvCuts and SendCuts.  Socks5 models the descriptors, the pool   *)
(* and the resolver; here REQUEST_CONNECTING stands for the wait for them. *)
(***************************************************************************)
EXTENDS Buffer, Startup

CONSTANTS
  IPV4_LEN, IPV6_LEN,  \* how many bytes an address has
  BOUND,               \* a byte of the address the proxy connects from
  RecvCuts, SendCuts,  \* where recv and send may stop short of all there is
  Failures,            \* the replies for a request that failed
  MaxChanges,          \* how often the management side changes something
  Changes,             \* the users it may add or remove
  CommandLines,        \* the ways the daemon is started
  Dialogues            \* what a client may want to say

NO_AUTH == 0
USERPASS == 2
NONE == 255

CONNECT == 1

IPV4 == 1
DOMAIN_NAME == 3
IPV6 == 4

SUCCESS == 0
GENERAL_FAILURE == 1
COMMAND_NOT_SUPPORTED == 7

-----------------------------------------------------------------------------
(* What a client says, message by message: RFC 1928 and RFC 1929.          *)

Field(f) == <<Len(f)>> \o f

Greeting(methods) == <<5>> \o Field(methods)

Login(user, pass) == <<1>> \o Field(user) \o Field(pass)

RequestFor(cmd, atyp, addr, port) ==
  <<5, cmd, 0, atyp>> \o (IF atyp = DOMAIN_NAME THEN Field(addr) ELSE addr)
    \o <<port \div 256, port % 256>>

\* What makes a message malformed: a wrong version, an empty field, a reserved
\* byte that is not 0, an unknown kind of address.
NotGreeting(q) == Len(q) > 0 /\ q[1] # 5

NotLogin(q) ==
  \/ Len(q) > 0 /\ q[1] # 1
  \/ Len(q) > 1 /\ (q[2] = 0 \/ (Len(q) > q[2] + 2 /\ q[q[2] + 3] = 0))

NotRequest(q) ==
  \/ Len(q) > 0 /\ q[1] # 5
  \/ Len(q) > 2 /\ q[3] # 0
  \/ Len(q) > 3 /\ q[4] \notin {IPV4, DOMAIN_NAME, IPV6}
  \/ Len(q) > 4 /\ q[4] = DOMAIN_NAME /\ q[5] = 0

\* The messages of a dialogue, what they are about, and which of them is bad.
Dialogue ==
  [methods : SUBSET Nat, hello : Seq(Nat), user : Seq(Nat), pass : Seq(Nat),
   auth : Seq(Nat), cmd : Nat, atyp : Nat, addr : Seq(Nat), port : Nat,
   request : Seq(Nat), payload : Seq(Nat), bad : {"none", "hello", "auth", "request"}]

SaysWhatItMeans(d) ==
  /\ IF d.bad = "hello" THEN NotGreeting(d.hello)
     ELSE LET methods == SubSeq(d.hello, 3, Len(d.hello))
          IN  d.hello = Greeting(methods)
                /\ d.methods = {methods[i] : i \in 1 .. Len(methods)}
  /\ IF d.bad = "auth" THEN NotLogin(d.auth)
     ELSE d.auth = Login(d.user, d.pass) /\ Len(d.user) > 0 /\ Len(d.pass) > 0
  /\ IF d.bad = "request" THEN NotRequest(d.request)
     ELSE /\ d.request = RequestFor(d.cmd, d.atyp, d.addr, d.port)
          /\ d.atyp \in {IPV4, DOMAIN_NAME, IPV6}
          /\ d.atyp = IPV4 => Len(d.addr) = IPV4_LEN
          /\ d.atyp = IPV6 => Len(d.addr) = IPV6_LEN
          /\ d.atyp = DOMAIN_NAME => Len(d.addr) > 0

\* The longest reply fits the write buffer.
ASSUME HandshakeAssumption ==
  /\ IPV4_LEN \in Nat \ {0} /\ IPV6_LEN \in Nat \ {0} /\ BOUND \in Nat
  /\ IPV4_LEN + 6 <= DEFAULT_BUFFER /\ IPV6_LEN + 6 <= DEFAULT_BUFFER
  /\ CommandLines \subseteq Seq(Option)
  /\ Dialogues \subseteq Dialogue /\ \A d \in Dialogues : SaysWhatItMeans(d)
  /\ Changes \subseteq [name : Seq(Nat), pass : Seq(Nat)]
  /\ Failures \subseteq Nat \ {SUCCESS}
  /\ RecvCuts \subseteq Nat \ {0} /\ SendCuts \subseteq Nat \ {0}
  /\ MaxChanges \in Nat

-----------------------------------------------------------------------------
VARIABLES
  db,        \* the user table
  cfg,       \* the configuration
  past,      \* the users and the configuration there have been, the last one current
  conn,      \* the fields of struct socks5 the handshake uses
  dialogue,  \* what the client wants to say
  eager,     \* whether it says everything at once
  turn,      \* what it has said last
  sent,      \* the bytes it has sent
  pos,       \* how many of them were received
  out,       \* the bytes sent to it
  gone       \* whether it has gone away

vars == <<db, cfg, past, conn, dialogue, eager, turn, sent, pos, out, gone>>

-----------------------------------------------------------------------------
(* The parsers: what one byte does.                                        *)

hello_parser_init == [state |-> "VERSION", remaining |-> 0,
                      has_noauth |-> FALSE, has_userpass |-> FALSE]

hello_parser_feed(p, b) ==
  CASE p.state = "VERSION"  -> [p EXCEPT !.state = IF b = 5 THEN "NMETHODS" ELSE "ERROR"]
    [] p.state = "NMETHODS" -> [p EXCEPT !.remaining = b,
                                         !.state = IF b = 0 THEN "DONE" ELSE "METHODS"]
    [] p.state = "METHODS"  -> [p EXCEPT !.remaining = @ - 1,
                                         !.has_noauth = @ \/ b = NO_AUTH,
                                         !.has_userpass = @ \/ b = USERPASS,
                                         !.state = IF p.remaining = 1 THEN "DONE" ELSE @]
    [] OTHER                -> p

\* idx is the length of the field that is being read.
auth_parser_init == [state |-> "VERSION", len |-> 0, username |-> <<>>, password |-> <<>>]

auth_parser_feed(p, b) ==
  CASE p.state = "VERSION" -> [p EXCEPT !.state = IF b = 1 THEN "ULEN" ELSE "ERROR"]
    [] p.state = "ULEN"    -> [p EXCEPT !.len = b,
                                        !.state = IF b = 0 THEN "ERROR" ELSE "UNAME"]
    [] p.state = "UNAME"   -> [p EXCEPT !.username = Append(@, b),
                                        !.state = IF Len(p.username) + 1 = p.len
                                                  THEN "PLEN" ELSE @]
    [] p.state = "PLEN"    -> [p EXCEPT !.len = b,
                                        !.state = IF b = 0 THEN "ERROR" ELSE "PASSWD"]
    [] p.state = "PASSWD"  -> [p EXCEPT !.password = Append(@, b),
                                        !.state = IF Len(p.password) + 1 = p.len
                                                  THEN "DONE" ELSE @]
    [] OTHER               -> p

request_parser_init == [state |-> "VERSION", cmd |-> 0, atyp |-> 0, addr_len |-> 0,
                        addr |-> <<>>, port |-> 0, port_idx |-> 0]

\* Mutant: the length of a name counts itself.
AddressByte_CountsItself(p, b) ==
  [p EXCEPT !.addr = Append(@, b),
            !.state = IF Len(p.addr) + 2 >= p.addr_len THEN "DPORT" ELSE @]

AddressByte(p, b) ==
  [p EXCEPT !.addr = Append(@, b),
            !.state = IF Len(p.addr) + 1 = p.addr_len THEN "DPORT" ELSE @]

request_parser_feed(p, b) ==
  CASE p.state = "VERSION" -> [p EXCEPT !.state = IF b = 5 THEN "CMD" ELSE "ERROR"]
    [] p.state = "CMD"     -> [p EXCEPT !.cmd = b, !.state = "RSV"]
    [] p.state = "RSV"     -> [p EXCEPT !.state = IF b = 0 THEN "ATYP" ELSE "ERROR"]
    [] p.state = "ATYP"    ->
         [p EXCEPT !.atyp = b,
                   !.addr_len = CASE b = IPV4 -> IPV4_LEN [] b = IPV6 -> IPV6_LEN
                                  [] OTHER -> @,
                   !.state = CASE b \in {IPV4, IPV6} -> "DADDR"
                               [] b = DOMAIN_NAME -> "DOMAIN_LEN" [] OTHER -> "ERROR"]
    [] p.state = "DOMAIN_LEN" -> [p EXCEPT !.addr_len = b,
                                           !.state = IF b = 0 THEN "ERROR" ELSE "DADDR"]
    [] p.state = "DADDR"   -> AddressByte(p, b)
    [] p.state = "DPORT"   -> [p EXCEPT !.port = @ * 256 + b, !.port_idx = @ + 1,
                                        !.state = IF p.port_idx = 1 THEN "DONE" ELSE @]
    [] OTHER               -> p

\* The bytes of a buffer are fed to a parser until it has ended, no further.
Consume(Feed(_, _), p, buf) ==
  LET fed[i \in 0 .. Len(buf.bytes)] ==
        IF i = 0 THEN p ELSE Feed(fed[i - 1], buf.bytes[i])
      ended == {i \in 1 .. Len(buf.bytes) : fed[i].state \in {"DONE", "ERROR"}}
      last  == IF ended = {} THEN Len(buf.bytes)
               ELSE CHOOSE i \in ended : \A j \in ended : i <= j
  IN  [parser |-> fed[last], buf |-> buffer_read_adv(buf, last)]

hello_parser_consume(p, buf) == Consume(hello_parser_feed, p, buf)
auth_parser_consume(p, buf) == Consume(auth_parser_feed, p, buf)
request_parser_consume(p, buf) == Consume(request_parser_feed, p, buf)

-----------------------------------------------------------------------------
(* The handlers.  Each gives what the connection may become.               *)

NewConn(size) ==
  [st |-> "HELLO_READ", interest |-> "OP_READ", hello |-> hello_parser_init,
   auth |-> auth_parser_init, request |-> request_parser_init,
   method |-> NO_AUTH, auth_ok |-> FALSE, reply |-> SUCCESS,
   read_buffer |-> buffer_init(size), write_buffer |-> buffer_init(size)]

Ended(c, st) == [c EXCEPT !.st = st, !.interest = "OP_NOOP"]

\* Mutant: no authentication is asked for if the client would rather not.
choose_method_ClientChooses(hello) ==
  IF hello.has_noauth THEN NO_AUTH
  ELSE IF hello.has_userpass THEN USERPASS ELSE NONE

choose_method(hello) ==
  IF cfg.auth_required THEN IF hello.has_userpass THEN USERPASS ELSE NONE
  ELSE IF hello.has_noauth THEN NO_AUTH
  ELSE IF hello.has_userpass THEN USERPASS ELSE NONE

\* A reply takes the place of whatever is in the write buffer.
Replies(c, bytes, st) ==
  [c EXCEPT !.write_buffer = buffer_write(buffer_reset(@), bytes),
            !.st = st, !.interest = "OP_WRITE"]

hello_read(c) ==
  LET r == hello_parser_consume(c.hello, c.read_buffer)
      d == [c EXCEPT !.hello = r.parser, !.read_buffer = r.buf]
      m == choose_method(r.parser)
  IN  {CASE r.parser.state = "DONE"  ->
              Replies([d EXCEPT !.method = m], <<5, m>>, "HELLO_WRITE")
         [] r.parser.state = "ERROR" -> Ended(d, "ERROR_STATE")
         [] OTHER                    -> d}

auth_read(c) ==
  LET r  == auth_parser_consume(c.auth, c.read_buffer)
      d  == [c EXCEPT !.auth = r.parser, !.read_buffer = r.buf]
      ok == users_check(db, CString(r.parser.username), CString(r.parser.password))
  IN  {CASE r.parser.state = "DONE"  ->
              Replies([d EXCEPT !.auth_ok = ok], <<1, IF ok THEN 0 ELSE 1>>, "AUTH_WRITE")
         [] r.parser.state = "ERROR" -> Ended(d, "ERROR_STATE")
         [] OTHER                    -> d}

\* The family of the address connected from, if it is known.
Family == {IPV4, IPV6, NONE}

AddressBytes(family) ==
  CASE family = IPV6 -> <<IPV6>> \o [i \in 1 .. IPV6_LEN + 2 |-> BOUND]
    [] family = IPV4 -> <<IPV4>> \o [i \in 1 .. IPV4_LEN + 2 |-> BOUND]
    [] OTHER         -> <<IPV4>> \o [i \in 1 .. IPV4_LEN + 2 |-> 0]

\* build_reply, called on arrival in REQUEST_WRITE.
build_reply(c, rep, family) ==
  Replies([c EXCEPT !.reply = rep], <<5, rep, 0>> \o AddressBytes(family), "REQUEST_WRITE")

\* How resolving and connecting may end.
ConnectionAttempt(c) ==
  {build_reply(c, rep, NONE) : rep \in Failures}
    \cup {build_reply(c, SUCCESS, family) : family \in Family}

\* Mutant: a command that is not supported is not answered.
process_request_Silent(c) ==
  IF c.request.cmd # CONNECT THEN {[c EXCEPT !.interest = "OP_NOOP"]}
  ELSE ConnectionAttempt(c)
         \cup {[c EXCEPT !.st = "REQUEST_CONNECTING", !.interest = "OP_NOOP"]}

\* At once, or while the client is not listened to.
process_request(c) ==
  IF c.request.cmd # CONNECT THEN {build_reply(c, COMMAND_NOT_SUPPORTED, NONE)}
  ELSE ConnectionAttempt(c)
         \cup {[c EXCEPT !.st = "REQUEST_CONNECTING", !.interest = "OP_NOOP"]}

request_read(c) ==
  LET r == request_parser_consume(c.request, c.read_buffer)
      d == [c EXCEPT !.request = r.parser, !.read_buffer = r.buf]
  IN  CASE r.parser.state = "DONE"  -> process_request(d)
        [] r.parser.state = "ERROR" -> {build_reply(d, GENERAL_FAILURE, NONE)}
        [] OTHER                    -> {d}

Listens(c, st) == [c EXCEPT !.st = st, !.interest = "OP_READ"]

\* Mutant: send is taken to have sent everything.
Sent_All(c, w) == [c EXCEPT !.write_buffer = buffer_reset(@)]

\* send took w bytes.
Sent(c, w) == [c EXCEPT !.write_buffer = buffer_read_adv(@, w)]

\* What follows the last byte of a reply.
hello_write(c) ==
  CASE c.method = NONE     -> Ended(c, "DONE")
    [] c.method = USERPASS -> Listens(c, "AUTH_READ")
    [] c.method = NO_AUTH  -> Listens(c, "REQUEST_READ")

auth_write(c) == IF c.auth_ok THEN Listens(c, "REQUEST_READ") ELSE Ended(c, "DONE")

\* Mutant: the relay starts with an empty buffer.
request_write_Fresh(c) ==
  Ended([c EXCEPT !.read_buffer = buffer_reset(@)],
        IF c.reply = SUCCESS THEN "COPY" ELSE "DONE")

request_write(c) == Ended(c, IF c.reply = SUCCESS THEN "COPY" ELSE "DONE")

-----------------------------------------------------------------------------
(* The steps.                                                              *)

Space == WriteSpace(conn.read_buffer)
Unreceived == Len(sent) - pos

\* A buffer without room has recv return 0, which is taken for the end.
socksv5_read ==
  /\ conn.interest = "OP_READ" /\ Unreceived > 0
  /\ \/ /\ Space = 0
        /\ conn' = Ended(conn, "ERROR_STATE") /\ UNCHANGED pos
     \/ \E n \in RecvCuts \cup {Unreceived, Space} :
          /\ n > 0 /\ n <= Unreceived /\ n <= Space
          /\ pos' = pos + n
          /\ LET c == [conn EXCEPT !.read_buffer =
                         buffer_write_adv(@, SubSeq(sent, pos + 1, pos + n))]
             IN  conn' \in CASE conn.st = "HELLO_READ"   -> hello_read(c)
                             [] conn.st = "AUTH_READ"    -> auth_read(c)
                             [] conn.st = "REQUEST_READ" -> request_read(c)
  /\ UNCHANGED <<db, cfg, past, dialogue, eager, turn, sent, out, gone>>

socksv5_write ==
  /\ conn.interest = "OP_WRITE"
  /\ \E w \in SendCuts \cup {Len(conn.write_buffer.bytes)} :
       /\ w <= Len(conn.write_buffer.bytes)
       /\ out' = out \o SubSeq(conn.write_buffer.bytes, 1, w)
       /\ LET c == Sent(conn, w)
          IN  conn' = IF buffer_can_read(c.write_buffer) THEN c
                      ELSE CASE conn.st = "HELLO_WRITE"   -> hello_write(c)
                             [] conn.st = "AUTH_WRITE"    -> auth_write(c)
                             [] conn.st = "REQUEST_WRITE" -> request_write(c)
  /\ UNCHANGED <<db, cfg, past, dialogue, eager, turn, sent, pos, gone>>

\* resolv_block and connecting_write, in the end.
ConnectionDecided ==
  /\ conn.st = "REQUEST_CONNECTING"
  /\ conn' \in ConnectionAttempt(conn)
  /\ UNCHANGED <<db, cfg, past, dialogue, eager, turn, sent, pos, out, gone>>

\* The client closed its side and nothing is left, or recv or send fails.
ConnectionLost ==
  /\ gone /\ conn.interest \in {"OP_READ", "OP_WRITE"}
  /\ conn' = Ended(conn, "ERROR_STATE")
  /\ UNCHANGED <<db, cfg, past, dialogue, eager, turn, sent, pos, out, gone>>

\* The client says the next thing.
Says(bytes, t) == sent' = sent \o bytes /\ turn' = t

\* A client that waits goes by the replies; the last one says how long it is.
HasReply(from) ==
  /\ Len(out) >= from + 3
  /\ Len(out) = from + 5 + IF out[from + 3] = IPV6 THEN IPV6_LEN ELSE IPV4_LEN

ClientSays ==
  /\ ~eager /\ ~gone
  /\ \/ turn = "start" /\ Says(dialogue.hello, "hello")
     \/ /\ turn = "hello" /\ Len(out) = 2
        /\ \/ out[2] = USERPASS /\ Says(dialogue.auth, "auth")
           \/ out[2] = NO_AUTH /\ Says(dialogue.request, "request")
     \/ turn = "auth" /\ Len(out) = 4 /\ out[4] = 0 /\ Says(dialogue.request, "request")
     \/ /\ turn = "request"
        /\ LET from == IF out[2] = USERPASS THEN 5 ELSE 3
           IN  HasReply(from) /\ out[from + 1] = SUCCESS
        /\ Says(dialogue.payload, "payload")
  /\ UNCHANGED <<db, cfg, past, conn, dialogue, eager, pos, out, gone>>

ClientGoes ==
  /\ ~gone /\ gone' = TRUE
  /\ UNCHANGED <<db, cfg, past, conn, dialogue, eager, turn, sent, pos, out>>

\* A request on a management connection: see Mgmt.
Administered ==
  /\ Len(past) <= MaxChanges
  /\ \/ cfg' = [cfg EXCEPT !.auth_required = ~@] /\ UNCHANGED db
     \/ /\ \E u \in Changes : \/ db' = users_add(db, u.name, u.pass).db
                              \/ db' = users_del(db, u.name).db
        /\ UNCHANGED cfg
  /\ past' = Append(past, [users |-> AsMap(db'), required |-> cfg'.auth_required])
  /\ UNCHANGED <<conn, dialogue, eager, turn, sent, pos, out, gone>>

-----------------------------------------------------------------------------
\* An eager client has settled for the one method it offers.
Whole(d) == d.hello \o (IF d.methods = {USERPASS} THEN d.auth ELSE <<>>)
              \o d.request \o d.payload

\* The users of a command line: the password given last for each name.
Given(args) ==
  LET last(n) == CHOOSE i \in 1 .. Len(args.users) :
                   /\ args.users[i].name = n
                   /\ \A j \in i + 1 .. Len(args.users) : args.users[j].name # n
  IN  [n \in {args.users[i].name : i \in 1 .. Len(args.users)} |-> args.users[last(n)].pass]

HandshakeInit ==
  /\ \E line \in CommandLines :
       LET args == args_parse(line)
       IN  /\ args.ok /\ db = StartUsers(args) /\ cfg = StartConfig(args)
           /\ past = <<[users |-> Given(args), required |-> cfg.auth_required]>>
  /\ conn = NewConn(cfg.io_buffer_size)
  /\ dialogue \in Dialogues
  /\ eager \in {FALSE} \cup (IF Cardinality(dialogue.methods) = 1 THEN {TRUE} ELSE {})
  /\ turn = (IF eager THEN "payload" ELSE "start")
  /\ sent = (IF eager THEN Whole(dialogue) ELSE <<>>)
  /\ pos = 0 /\ out = <<>> /\ gone = FALSE

Serve == socksv5_read \/ socksv5_write \/ ConnectionDecided \/ ConnectionLost

HandshakeNext == Serve \/ ClientSays \/ ClientGoes \/ Administered

\* There is something to do for the proxy.
Ready ==
  \/ conn.interest = "OP_READ" /\ (Unreceived > 0 \/ gone)
  \/ conn.interest = "OP_WRITE" \/ conn.st = "REQUEST_CONNECTING"

\* The selector serves every ready descriptor, a connection attempt ends, and
\* a client that got its reply goes on.  The first is weak fairness of Serve,
\* with what enables it written out: it is what changes conn.
HandshakeSpec ==
  /\ HandshakeInit /\ [][HandshakeNext]_vars
  /\ (<>[]Ready => []<><<conn' # conn>>_conn)
  /\ WF_vars(ClientSays)
-----------------------------------------------------------------------------
(* Properties.                                                             *)

\* All that was said to the client, sent or not.
Output == out \o conn.write_buffer.bytes

\* How many bytes the parsers have taken.
Consumed == pos - Len(conn.read_buffer.bytes)

\* The messages of the client up to and including the request.
Handshake == dialogue.hello \o (IF conn.method = USERPASS THEN dialogue.auth ELSE <<>>)
               \o dialogue.request

\* However the bytes are cut: what the parsers make of a well-formed message is
\* what the client put in it, no byte of it is left in the buffer and none of
\* the next one is taken.
NothingIsMisread ==
  dialogue.bad = "none" =>
    LET d == dialogue
        request == conn.st \in {"REQUEST_CONNECTING", "REQUEST_WRITE"}
    IN  /\ conn.st = "HELLO_WRITE" =>
             /\ conn.hello.has_noauth = (NO_AUTH \in d.methods)
             /\ conn.hello.has_userpass = (USERPASS \in d.methods)
             /\ Consumed = Len(d.hello)
        /\ conn.st = "AUTH_WRITE" =>
             /\ conn.auth.username = d.user /\ conn.auth.password = d.pass
             /\ Consumed = Len(d.hello \o d.auth)
        /\ request =>
             /\ conn.request.cmd = d.cmd /\ conn.request.atyp = d.atyp
             /\ conn.request.addr = d.addr /\ conn.request.port = d.port
             /\ Consumed = Len(Handshake)

\* The client gets, in the order of its messages and however they are cut, one
\* whole reply to each message that was taken: the write buffer, reset for each
\* reply, never holds anything of the one before.
RepliesAreWhole ==
  LET hello == IF conn.hello.state = "DONE" THEN <<5, conn.method>> ELSE <<>>
      auth  == IF conn.auth.state = "DONE"
               THEN <<1, IF conn.auth_ok THEN 0 ELSE 1>> ELSE <<>>
      decided == \/ conn.st \in {"REQUEST_WRITE", "COPY"}
                 \/ conn.st \in {"DONE", "ERROR_STATE"} /\ conn.request.state \in {"DONE", "ERROR"}
      replies == IF decided
                 THEN {<<5, conn.reply, 0>> \o AddressBytes(f) : f \in Family} ELSE {<<>>}
  IN  /\ \E r \in replies : Output = hello \o auth \o r
      /\ conn.method # USERPASS => auth = <<>>

\* What the client sent behind its request, and nothing else, is what the relay
\* finds in its buffer, and nothing is left to say to the client.
PayloadIsHandedOver ==
  conn.st = "COPY" =>
    /\ conn.read_buffer.bytes = SubSeq(sent, Len(Handshake) + 1, pos)
    /\ ~buffer_can_read(conn.write_buffer)

Known(e) ==
  LET name == CString(dialogue.user)
  IN  name \in DOMAIN e.users /\ e.users[name] = CString(dialogue.pass)

\* While users come and go and the need to authenticate is switched: a request
\* is listened to only if at some time no authentication was needed, or the
\* credentials of the client were those of a user; and a client is turned away
\* only if at some time it had no right to be served.
AccessFollowsTheDirectory ==
  LET Ever(P(_)) == \E i \in 1 .. Len(past) : P(past[i])
      Open(e)    == ~e.required
      Closed(e)  == e.required
      Unknown(e) == ~Known(e)
      knows == USERPASS \in dialogue.methods
  IN  dialogue.bad = "none" =>
        /\ conn.st \in {"REQUEST_READ", "REQUEST_CONNECTING", "REQUEST_WRITE", "COPY"} =>
             (NO_AUTH \in dialogue.methods /\ Ever(Open)) \/ (knows /\ Ever(Known))
        /\ conn.st = "DONE" /\ conn.request.state # "DONE" =>
             \/ ~knows /\ (Ever(Closed) \/ NO_AUTH \notin dialogue.methods)
             \/ knows /\ Ever(Unknown)

\* The proxy breaks a handshake off only if its client is gone or sent a
\* malformed greeting or login, or if it sent so much at once that the buffer
\* has no room left.
BrokenOffForCause ==
  conn.st = "ERROR_STATE" =>
    gone \/ dialogue.bad \in {"hello", "auth"} \/ (eager /\ Space = 0)

Settled == gone \/ conn.st \in {"COPY", "DONE", "ERROR_STATE"}

\* The proxy and a client that waits for each reply never wait for each other.
WaitingClientIsServed == ~eager ~> Settled

\* A client that has sent its whole handshake gets it served, as mgmt_write does
\* with a request that "may have been left pipelined in rbuf": the parsers "are
\* fed with the bytes available" and "never assume to have the whole message".
CompleteHandshakeIsServed == <>Settled
=============================================================================
