------------------------------- MODULE Client -------------------------------
(***************************************************************************)
(* The management clients together with the server of Mgmt.  A connection  *)
(* in Programs belongs to a run of the terminal client of src/client.c,    *)
(* which waits for the answer to what it sent; on any other a client has   *)
(* sent all its messages at once.                                          *)
(***************************************************************************)
EXTENDS Mgmt, SequencesExt

CONSTANTS
  Programs,    \* the connections of the terminal client
  Names,       \* the names the messages and command lines are about
  Passwords    \* and the passwords

VARIABLE prog       \* where each program is, and what it exits with

clientVars == <<mgmtVars, prog>>

-----------------------------------------------------------------------------
(* The messages, as the client builds them.  The fields say what a message *)
(* is about; cmd is AUTH for the handshake and BAD for anything malformed. *)

AUTH == -1
BAD  == -2

Message(cmd, bytes) == [cmd |-> cmd, bytes |-> bytes, user |-> <<>>,
                        pass |-> <<>>, key |-> 0, value |-> 0]

Field(f) == <<Len(f)>> \o f

do_auth(user, pass) ==
  [Message(AUTH, <<SMP_VERSION>> \o Field(user) \o Field(pass))
     EXCEPT !.user = user, !.pass = pass]

cmd_simple(cmd) == Message(cmd, <<SMP_VERSION, cmd>>)

cmd_add_user(user, pass) ==
  [Message(ADD_USER, <<SMP_VERSION, ADD_USER>> \o Field(user) \o Field(pass))
     EXCEPT !.user = user, !.pass = pass]

cmd_del_user(user) ==
  [Message(DEL_USER, <<SMP_VERSION, DEL_USER>> \o Field(user)) EXCEPT !.user = user]

\* The value went through strtoul and a cast to uint32_t or to a flag.
cmd_set_config(key, value) ==
  LET v == IF key = CFG_AUTH_REQUIRED THEN IF value # 0 THEN 1 ELSE 0
           ELSE value % BYTE ^ 4
      w == IF key = CFG_AUTH_REQUIRED THEN 1 ELSE 4
  IN  [Message(SET_CONFIG, <<SMP_VERSION, SET_CONFIG, key>> \o put(v, w))
         EXCEPT !.key = key, !.value = v]

\* What a client may send, and the two messages of the terminal client.
Messages == [cmd : Int, bytes : Seq(0 .. BYTE - 1), user : Seq(Nat), pass : Seq(Nat),
             key : Nat, value : Nat]

Bytes(messages) == FlattenSeq([i \in 1 .. Len(messages) |-> messages[i].bytes])

-----------------------------------------------------------------------------
(* The terminal client: connect, authenticate, one request, exit.          *)

\* An empty or overlong name or password, an unknown key of set-config and an
\* unknown subcommand (BAD) are refused before anything is sent.
Refused(m) ==
  \/ m.cmd \in {AUTH, ADD_USER} /\ ~(Len(m.user) \in 1 .. BYTE - 1
                                     /\ Len(m.pass) \in 1 .. BYTE - 1)
  \/ m.cmd = DEL_USER /\ Len(m.user) \notin 1 .. BYTE - 1
  \/ m.cmd = SET_CONFIG /\ m.key \notin {CFG_IO_BUFFER_SIZE, CFG_CONN_TIMEOUT,
                                         CFG_AUTH_REQUIRED}
  \/ m.cmd = BAD

\* The fields of the i-th message say what its bytes are: of the first one,
\* credentials.  The last one may be incomplete.
SaysWhatItIs(messages, i) ==
  LET m == messages[i]
      r == IF i = 1 THEN parse_auth(m.bytes) ELSE parse_request(m.bytes)
  IN  \/ m.cmd = BAD /\ (r.rc = -1 \/ (r.rc = 0 /\ i = Len(messages)))
      \/ /\ m.cmd = (IF i = 1 THEN AUTH ELSE r.cmd)
         /\ r.rc # 0 /\ r.rc = (IF r.rc = -2 THEN -Len(m.bytes) ELSE Len(m.bytes))
         /\ r.user = CString(m.user) /\ r.pass = CString(m.pass)
         /\ r.key = m.key /\ r.value = m.value

ASSUME ClientAssumption ==
  /\ Programs \subseteq MConns
  /\ \A s \in Scenarios :
       /\ s \in [MConns -> Seq(Messages)]
       /\ \A k \in MConns : Len(s[k]) > 0
       /\ \A k \in Programs :
            Len(s[k]) = 2 /\ \A i \in {1, 2} : Len(s[k][i].bytes) <= MGMT_RBUF
       /\ \A k \in MConns : \A i \in 1 .. Len(s[k]) :
            SaysWhatItIs(s[k], i) \/ (k \in Programs /\ Refused(s[k][i]))

Exits(k, rc) ==
  /\ prog' = [prog EXCEPT ![k] = [at |-> "exit", rc |-> rc]]
  /\ gone' = [gone EXCEPT ![k] = TRUE]

\* A send that fails because the server has closed the connection ends the
\* program with an exit code other than 0, which is what PrematureEnd does.
Sends(k, m, at) ==
  IF Refused(m) THEN Exits(k, 1) /\ UNCHANGED sent
  ELSE /\ sent' = [sent EXCEPT ![k] = @ \o m.bytes]
       /\ prog' = [prog EXCEPT ![k].at = at]
       /\ UNCHANGED gone

Running(k, at) == prog[k].at = at /\ ~gone[k]

\* The auth message is sent as soon as the connection is up.
StartsAuth(k) ==
  /\ Running(k, "start")
  /\ Sends(k, script[k][1], "auth")
  /\ UNCHANGED <<db, cfg, mc, script, pos, out>>

\* recv_exact has got the two bytes of the auth response.
AuthAnswered(k) ==
  /\ Running(k, "auth") /\ Len(out[k]) >= 2
  /\ IF out[k][1] = SMP_VERSION /\ out[k][2] = OK
     THEN Sends(k, script[k][2], "request")
     ELSE Exits(k, 1) /\ UNCHANGED sent
  /\ UNCHANGED <<db, cfg, mc, script, pos, out>>

\* The data of a response, its header behind the first o bytes.
DataLen(q, o) == q[o + 4] * BYTE + q[o + 5]

LeastData(cmd) == CASE cmd = METRICS -> 7 * U64 [] cmd = GET_CONFIG -> 9
                    [] cmd = LIST_USERS -> 2 [] OTHER -> 0

\* Mutant: the data is not waited for.
ResponseIsIn_HeaderOnly(k) == Len(out[k]) >= 7

\* recv_exact has got a header and the data it announces.
ResponseIsIn(k) == Len(out[k]) >= 7 /\ Len(out[k]) >= 7 + DataLen(out[k], 2)

\* malloc of the data may fail.
RequestAnswered(k) ==
  /\ Running(k, "request") /\ ResponseIsIn(k)
  /\ LET enough == DataLen(out[k], 2) >= LeastData(script[k][2].cmd)
         rc == IF out[k][5] = OK /\ enough THEN 0 ELSE 1
     IN  Exits(k, rc) \/ (DataLen(out[k], 2) > 0 /\ Exits(k, 1))
  /\ UNCHANGED <<db, cfg, mc, script, sent, pos, out>>

\* Mutant: the client does not notice that the server has closed.
ServerEnded_Unnoticed(k) == FALSE

\* The server closed before all that was waited for had come.
ServerEnded(k) ==
  /\ mc[k].state = "closed"
  /\ \/ Running(k, "auth") /\ Len(out[k]) < 2
     \/ Running(k, "request") /\ ~ResponseIsIn(k)

PrematureEnd(k) ==
  /\ ServerEnded(k) /\ Exits(k, 1)
  /\ UNCHANGED <<db, cfg, mc, script, sent, pos, out>>

-----------------------------------------------------------------------------
ClientInit ==
  /\ \E line \in CommandLines :
       LET args == args_parse(line)
       IN  args.ok /\ db = StartUsers(args) /\ cfg = StartConfig(args)
  /\ script \in Scenarios
  /\ sent = [k \in MConns |-> IF k \in Programs THEN <<>> ELSE Bytes(script[k])]
  /\ mc = [k \in MConns |-> Waiting]
  /\ pos = [k \in MConns |-> 0] /\ out = [k \in MConns |-> <<>>]
  /\ gone = [k \in MConns |-> FALSE]
  /\ prog = [k \in Programs |-> [at |-> "start", rc |-> 1]]

Server(k) == mgmt_passive_accept(k) \/ mgmt_read(k) \/ mgmt_write(k) \/ mgmt_lost(k)

Program(k) ==
  StartsAuth(k) \/ AuthAnswered(k) \/ RequestAnswered(k) \/ PrematureEnd(k)

ClientNext ==
  \/ \E k \in MConns : (Server(k) \/ ClientLeaves(k)) /\ UNCHANGED prog
  \/ \E k \in Programs : Program(k)

\* There is something to do for the handlers of connection k.
Ready(k) ==
  \/ mc[k].state = "backlog" \/ "OP_WRITE" \in mc[k].interest
  \/ "OP_READ" \in mc[k].interest /\ (Unreceived(k) > 0 \/ gone[k])

\* The selector serves every ready descriptor, and the programs run.  The first
\* is weak fairness of Server(k), with what enables it written out: it is what
\* changes mc[k], and it does so whenever it is called.
ClientSpec ==
  /\ ClientInit /\ [][ClientNext]_clientVars
  /\ \A k \in MConns : <>[]Ready(k) => []<><<mc'[k] # mc[k]>>_mc
  /\ \A k \in Programs : WF_clientVars(Program(k))

-----------------------------------------------------------------------------
(* Properties.                                                             *)

\* All that the server of connection k has answered, sent or not.
Output(k) == out[k] \o mc[k].wbuf.bytes

\* The responses in q behind the two bytes of the auth reply, and how many
\* bytes are left over behind the last whole one.
Responses(q) ==
  LET from[i \in 1 .. Len(q) + 1] ==
        LET next == i + 5 + DataLen(q, i - 1)
        IN  IF i + 4 > Len(q) \/ next > Len(q) + 1
            THEN [list |-> <<>>, rest |-> Len(q) + 1 - i]
            ELSE [list |-> <<[cmd |-> q[i + 1], status |-> q[i + 2],
                              data |-> SubSeq(q, i + 5, next - 1)]>> \o from[next].list,
                  rest |-> from[next].rest]
  IN  IF Len(q) < 3 THEN [list |-> <<>>, rest |-> 0] ELSE from[3]

Answered(k) == Len(Responses(Output(k)).list)

Consumed(k) == pos[k] - Len(mc[k].rbuf.bytes)

IsAdmin(k) ==
  LET m == Head(script[k])
  IN  m.cmd = AUTH /\ CString(m.user) = cfg.admin.name
        /\ CString(m.pass) = cfg.admin.pass

\* However the bytes are cut on their way in and out: the responses on a
\* connection are well framed and answer its requests one by one, in order,
\* and only whole messages that were answered have left the request buffer.
AnswersFollowRequests ==
  \A k \in MConns :
    LET rs == Responses(Output(k)) IN
      /\ \A i \in 1 .. Len(rs.list) : rs.list[i].cmd = script[k][i + 1].cmd
      /\ mc[k].state # "closed" => rs.rest = 0
      /\ mc[k].state \in {"AUTH_REPLY", "REQUEST", "RESPONSE"} =>
           Consumed(k) = Len(Bytes(SubSeq(script[k], 1, Len(rs.list) + 1)))

\* Nothing changes the users or the configuration, and nothing is told about
\* them, but requests on connections that began with the credentials of the
\* administrator.
OnlyTheAdministrator ==
  /\ [][<<db, cfg>>' # <<db, cfg>> =>
          \E k \in MConns : IsAdmin(k) /\ Consumed(k)' > Consumed(k)]_clientVars
  /\ [](\A k \in MConns : Len(Output(k)) > 2 => IsAdmin(k))

\* What a response of LIST_USERS shows, by the loop of cmd_list_users.
Shown(data) ==
  LET from[i \in 1 .. Len(data) + 1] ==
        IF i > Len(data) \/ i + data[i] > Len(data) THEN <<>>
        ELSE <<SubSeq(data, i + 1, i + data[i])>> \o from[i + 1 + data[i]]
  IN  from[3]

\* What the responses r of each kind tell, to a message m that left the users v
\* of the users u, or the configuration h of the configuration g.
AddTold(m, r, u, v) ==
  LET name == CString(m.user)
      pass == CString(m.pass)
  IN  CASE r.status = OK ->
             v = [n \in DOMAIN u \cup {name} |-> IF n = name THEN pass ELSE u[n]]
        [] r.status = USER_LIMIT_REACHED ->
             Cardinality(DOMAIN u) = USERS_MAX /\ name \notin DOMAIN u /\ v = u
        [] r.status = INVALID_ARGUMENTS ->
             v = u /\ ~(Len(name) \in 1 .. USERS_MAX_NAME
                        /\ Len(pass) \in 1 .. USERS_MAX_PASS)
        [] OTHER -> FALSE

DelTold(m, r, u, v) ==
  LET name == CString(m.user)
  IN  /\ r.status = (IF name \in DOMAIN u THEN OK ELSE USER_NOT_FOUND)
      /\ v = [n \in DOMAIN u \ {name} |-> u[n]]

ListTold(r, u) ==
  /\ Number(SubSeq(r.data, 1, 2)) = Cardinality(DOMAIN u)
  /\ IsInjective(Shown(r.data)) /\ ToSet(Shown(r.data)) = DOMAIN u

ConfigTold(r, g) ==
  r.data = put(g.io_buffer_size, 4) \o put(g.conn_timeout_secs, 4)
             \o <<IF g.auth_required THEN 1 ELSE 0>>

SetTold(m, r, g, h) ==
  /\ h.admin = g.admin
  /\ m.key = CFG_IO_BUFFER_SIZE =>
       /\ h.io_buffer_size \in CONFIG_MIN_BUFFER .. CONFIG_MAX_BUFFER
       /\ m.value \in CONFIG_MIN_BUFFER .. CONFIG_MAX_BUFFER
            => h.io_buffer_size = m.value
  /\ m.key = CFG_AUTH_REQUIRED => h.auth_required = (m.value # 0)
  /\ m.key = CFG_CONN_TIMEOUT => h.conn_timeout_secs = m.value
  /\ m.key \notin {CFG_IO_BUFFER_SIZE, CFG_CONN_TIMEOUT, CFG_AUTH_REQUIRED}
       => h = g /\ r.status = INVALID_ARGUMENTS

\* The response r to message m tells what it did: from the users u and the
\* configuration g, to the users v and the configuration h.
Truthful(m, r, u, g, v, h) ==
  CASE m.cmd = ADD_USER   -> AddTold(m, r, u, v) /\ h = g
    [] m.cmd = DEL_USER   -> DelTold(m, r, u, v) /\ h = g
    [] m.cmd = LIST_USERS -> ListTold(r, u) /\ v = u /\ h = g
    [] m.cmd = GET_CONFIG -> ConfigTold(r, g) /\ v = u /\ h = g
    [] m.cmd = SET_CONFIG -> SetTold(m, r, g, h) /\ v = u
    [] OTHER -> v = u /\ h = g

\* A response says what the request did to the users and the configuration,
\* whichever other connections changed them before: a status other than OK
\* means that nothing was changed and why, and what is read is what is there.
RepliesAreTruthful ==
  [][\A k \in MConns : Answered(k)' > Answered(k) =>
       Truthful(script[k][Answered(k)' + 1], Responses(Output(k)').list[Answered(k)'],
                AsMap(db), cfg, AsMap(db'), cfg')]_clientVars

UserDirectory == INSTANCE Directory WITH
  Name <- Names, Password <- Passwords, dir <- AsMap(db)

\* The slots of the table, reused and updated in place by several connections,
\* are a map from names to passwords.
TableIsADirectory == UserDirectory!DirectorySpec

\* The server ends a connection only if its client is gone or failed to
\* authenticate, if the next message is malformed, or if the request buffer,
\* which is not compacted, has no room left at its end; and that needs a
\* client that does not wait for its answers.
EndedForCause ==
  [][\A k \in MConns :
       mc[k].state \notin {"backlog", "closed"} /\ mc'[k].state = "closed" =>
         \/ gone[k] \/ ~IsAdmin(k)
         \/ LET n == Answered(k) + IF mc[k].state = "AUTH" THEN 1 ELSE 2
            IN  n <= Len(script[k]) /\ script[k][n].cmd = BAD
         \/ k \notin Programs /\ WriteSpace(mc[k].rbuf) = 0]_clientVars

\* A program exits with 0 only if its own request was carried out, and the
\* whole answer was read.
ExitCodeIsTrue ==
  \A k \in Programs : prog[k].at = "exit" /\ prog[k].rc = 0 =>
    LET rs == Responses(out[k]).list
    IN  Len(rs) = 1 /\ rs[1].status = OK /\ rs[1].cmd = script[k][2].cmd

\* The client and the server never wait for each other: every program exits.
ProgramsExit == \A k \in Programs : <>(prog[k].at = "exit" \/ gone[k])

\* Requests sent in one go are not left in the buffer: a client that sent only
\* well-formed messages, as the administrator, has them all answered unless it
\* leaves or the connection is ended.
PipelinedAreAnswered ==
  \A k \in MConns \ Programs :
    (IsAdmin(k) /\ \A i \in 1 .. Len(script[k]) : script[k][i].cmd # BAD)
      ~> (gone[k] \/ mc[k].state = "closed" \/ Answered(k) = Len(script[k]) - 1)
=============================================================================
