-------------------------------- MODULE Mgmt --------------------------------
(***************************************************************************)
(* The management protocol of src/mgmt.c: connections over which an        *)
(* administrator authenticates and then changes the users and the          *)
(* configuration the proxy works with, byte by byte.                       *)
(*                                                                         *)
(* recv hands over all that the client sent and the server has room for,   *)
(* or a part in RecvCuts; send takes all that is pending, or a part in     *)
(* SendCuts.  A recv or send that only answers EAGAIN changes nothing and  *)
(* is left out.                                                            *)
(* Bytes are numbers with BYTE values, so that a number of several bytes   *)
(* keeps its width.                                                        *)
(***************************************************************************)
EXTENDS Integers, Buffer, Startup

CONSTANTS
  BYTE,               \* how many values a byte has
  U64,                \* how many bytes a 64-bit counter takes
  MGMT_RBUF,          \* the size of the request buffer
  MGMT_WBUF,          \* the size of the response buffer
  CONFIG_MIN_BUFFER,  \* the least io_buffer_size
  CONFIG_MAX_BUFFER,  \* and the greatest
  RecvCuts,           \* where recv may stop short of all there is
  SendCuts,           \* where send may
  MConns,             \* management connections
  Scenarios,          \* what the clients may want to send, each a list per connection
  MaxGone,            \* how many connections clients may abandon
  CommandLines        \* the ways the daemon is started

\* A table full of the longest names fits a response.
LongestResponse == 5 + 2 + USERS_MAX * (1 + USERS_MAX_NAME)

ASSUME MgmtAssumption ==
  /\ CommandLines \subseteq Seq(Option)
  /\ SendCuts \subseteq Nat \ {0} /\ RecvCuts \subseteq Nat \ {0}
  /\ BYTE \in Nat /\ BYTE > 6 /\ U64 \in Nat \ {0}
  /\ MGMT_RBUF \in Nat \ {0} /\ MGMT_WBUF \in Nat
  /\ MGMT_WBUF >= LongestResponse /\ LongestResponse < BYTE * BYTE
  /\ MGMT_WBUF >= 5 + 7 * U64 /\ 7 * U64 < BYTE * BYTE /\ MGMT_WBUF >= 5 + 9
  /\ USERS_MAX_NAME < BYTE /\ USERS_MAX_PASS < BYTE
  /\ CONFIG_MIN_BUFFER \in Nat /\ CONFIG_MAX_BUFFER \in Nat
  /\ CONFIG_MIN_BUFFER <= DEFAULT_BUFFER /\ DEFAULT_BUFFER <= CONFIG_MAX_BUFFER

VARIABLES
  db,      \* the user table
  cfg,     \* the configuration
  mc,      \* struct mgmt_conn of each connection
  script,  \* the messages the client of each connection wants to send
  sent,    \* the bytes it has sent
  pos,     \* how many of them the server has received
  out,     \* the bytes the server has sent
  gone     \* whether the client has closed or reset the connection

mgmtVars == <<db, cfg, mc, script, sent, pos, out, gone>>

SMP_VERSION == 1
METRICS == 0
ADD_USER == 1
DEL_USER == 2
LIST_USERS == 3
GET_CONFIG == 4
SET_CONFIG == 5

OK == 0
UNKNOWN_COMMAND == 2
INVALID_ARGUMENTS == 3
USER_NOT_FOUND == 5
USER_LIMIT_REACHED == 6

CFG_IO_BUFFER_SIZE == 1
CFG_CONN_TIMEOUT == 2
CFG_AUTH_REQUIRED == 3

\* put_u16, put_u32, put_u64: w bytes, the most significant first.
put(v, w) ==
  LET shifted[i \in 1 .. w] == IF i = w THEN v ELSE shifted[i + 1] \div BYTE
  IN  [i \in 1 .. w |-> shifted[i] % BYTE]

Number(digits) ==
  LET n[i \in 0 .. Len(digits)] ==
        IF i = 0 THEN 0 ELSE n[i - 1] * BYTE + digits[i]
  IN  n[Len(digits)]

-----------------------------------------------------------------------------
(* Parsing: rc is the number of bytes consumed, 0 if more are needed, -1   *)
(* for a malformed message, -2 for an unknown command.                     *)

NoRequest == [rc |-> 0, cmd |-> 0, user |-> <<>>, pass |-> <<>>,
              key |-> 0, value |-> 0]
NeedMore  == NoRequest
Malformed == [NoRequest EXCEPT !.rc = -1]

\* Mutant: the length of the password is read before it is there.
ParsePair_NoLengthCheck(p, o) ==
  LET ulen == p[o + 1]
      plen == IF Len(p) < o + ulen + 2 THEN 0 ELSE p[o + ulen + 2]
      need == o + 2 + ulen + plen
  IN  IF Len(p) < o + 1 THEN NeedMore
      ELSE IF ulen = 0 \/ plen = 0 THEN Malformed
      ELSE IF Len(p) < need THEN NeedMore
      ELSE [NoRequest EXCEPT !.rc = need,
              !.user = CString(SubSeq(p, o + 2, o + 1 + ulen)),
              !.pass = CString(SubSeq(p, o + 3 + ulen, need))]

\* ULEN | UNAME | PLEN | PASSWD behind the first o bytes.
ParsePair(p, o) ==
  LET ulen == p[o + 1]
      plen == p[o + ulen + 2]
      need == o + 2 + ulen + plen
  IN  IF Len(p) < o + 1 THEN NeedMore
      ELSE IF ulen = 0 THEN Malformed
      ELSE IF Len(p) < o + ulen + 2 THEN NeedMore
      ELSE IF plen = 0 THEN Malformed
      ELSE IF Len(p) < need THEN NeedMore
      ELSE [NoRequest EXCEPT !.rc = need,
              !.user = CString(SubSeq(p, o + 2, o + 1 + ulen)),
              !.pass = CString(SubSeq(p, o + 3 + ulen, need))]

parse_auth(p) ==
  IF Len(p) < 2 THEN NeedMore
  ELSE IF p[1] # SMP_VERSION THEN Malformed
  ELSE ParsePair(p, 1)

ParseName(p) ==
  IF Len(p) < 3 THEN NeedMore
  ELSE IF p[3] = 0 THEN Malformed
  ELSE IF Len(p) < 3 + p[3] THEN NeedMore
  ELSE [NoRequest EXCEPT !.rc = 3 + p[3],
          !.user = CString(SubSeq(p, 4, 3 + p[3]))]

\* auth_required takes a value of one byte, any other key one of four.
ParseSetting(p) ==
  LET width == IF p[3] = CFG_AUTH_REQUIRED THEN 1 ELSE 4
  IN  IF Len(p) < 3 \/ Len(p) < 3 + width THEN NeedMore
      ELSE [NoRequest EXCEPT !.rc = 3 + width, !.key = p[3],
              !.value = Number(SubSeq(p, 4, 3 + width))]

parse_request(p) ==
  LET args == CASE p[2] \in {METRICS, LIST_USERS, GET_CONFIG} ->
                     [NoRequest EXCEPT !.rc = 2]
                [] p[2] = ADD_USER   -> ParsePair(p, 2)
                [] p[2] = DEL_USER   -> ParseName(p)
                [] p[2] = SET_CONFIG -> ParseSetting(p)
                [] OTHER             -> [NoRequest EXCEPT !.rc = -2]
  IN  IF Len(p) < 2 THEN NeedMore
      ELSE IF p[1] # SMP_VERSION THEN Malformed
      ELSE [args EXCEPT !.cmd = p[2]]

-----------------------------------------------------------------------------
(* Responses.                                                              *)

resp_header(cmd, status, datalen) ==
  <<SMP_VERSION, cmd, status>> \o put(datalen, 2)

resp_simple(cmd, status) == resp_header(cmd, status, 0)

\* Of the seven counters only the number of users is known here.
resp_metrics(d) ==
  resp_header(METRICS, OK, 7 * U64)
    \o put(0, 4 * U64) \o put(users_count(d), U64) \o put(0, 2 * U64)

resp_get_config(g) ==
  resp_header(GET_CONFIG, OK, 9)
    \o put(g.io_buffer_size, 4) \o put(g.conn_timeout_secs, 4)
    \o <<IF g.auth_required THEN 1 ELSE 0>>

resp_list_users(d) ==
  LET count == users_count(d)
      list[i \in 0 .. count] ==
        IF i = 0 THEN <<>>
        ELSE LET n == users_name_at(d, i - 1) IN list[i - 1] \o <<Len(n)>> \o n
  IN  resp_header(LIST_USERS, OK, 2 + Len(list[count]))
        \o put(count, 2) \o list[count]

\* A response with the table and the configuration it leaves behind.
Reply(resp, d, g) == [resp |-> resp, db |-> d, cfg |-> g]

AddUser(r, d, g) ==
  LET ur == users_add(d, r.user, r.pass)
      st == CASE ur.result = "FULL"    -> USER_LIMIT_REACHED
              [] ur.result = "INVALID" -> INVALID_ARGUMENTS
              [] OTHER                 -> OK
  IN  Reply(resp_simple(r.cmd, st), ur.db, g)

\* Mutant: deleting always succeeds.
DelUser_AlwaysOK(r, d, g) ==
  Reply(resp_simple(r.cmd, OK), users_del(d, r.user).db, g)

DelUser(r, d, g) ==
  LET ur == users_del(d, r.user)
      st == IF ur.result = "OK" THEN OK ELSE USER_NOT_FOUND
  IN  Reply(resp_simple(r.cmd, st), ur.db, g)

Clamped(v) == IF v < CONFIG_MIN_BUFFER THEN CONFIG_MIN_BUFFER
              ELSE IF v > CONFIG_MAX_BUFFER THEN CONFIG_MAX_BUFFER ELSE v

SetConfig(r, d, g) ==
  LET set == CASE r.key = CFG_IO_BUFFER_SIZE ->
                    [g EXCEPT !.io_buffer_size = Clamped(r.value)]
               [] r.key = CFG_CONN_TIMEOUT ->
                    [g EXCEPT !.conn_timeout_secs = r.value]
               [] r.key = CFG_AUTH_REQUIRED ->
                    [g EXCEPT !.auth_required = (r.value # 0)]
               [] OTHER -> g
      st  == IF r.key \in {CFG_IO_BUFFER_SIZE, CFG_CONN_TIMEOUT, CFG_AUTH_REQUIRED}
             THEN OK ELSE INVALID_ARGUMENTS
  IN  Reply(resp_simple(r.cmd, st), d, set)

process_request(r, d, g) ==
  CASE r.cmd = METRICS    -> Reply(resp_metrics(d), d, g)
    [] r.cmd = GET_CONFIG -> Reply(resp_get_config(g), d, g)
    [] r.cmd = LIST_USERS -> Reply(resp_list_users(d), d, g)
    [] r.cmd = ADD_USER   -> AddUser(r, d, g)
    [] r.cmd = DEL_USER   -> DelUser(r, d, g)
    [] r.cmd = SET_CONFIG -> SetConfig(r, d, g)
    [] OTHER              -> Reply(resp_simple(r.cmd, UNKNOWN_COMMAND), d, g)

-----------------------------------------------------------------------------
(* The handlers.                                                           *)

NewConn == [state |-> "AUTH", auth_ok |-> FALSE, close_after_write |-> FALSE,
            rbuf |-> buffer_init(MGMT_RBUF), wbuf |-> buffer_init(MGMT_WBUF),
            interest |-> {"OP_READ"}]

Waiting == [NewConn EXCEPT !.state = "backlog", !.interest = {}]
Closed  == [NewConn EXCEPT !.state = "closed", !.interest = {}]

\* What a handler leaves: the connection, the users and the configuration.
Left(c, d, g) == [conn |-> c, db |-> d, cfg |-> g]

Leaves(k, left) ==
  mc' = [mc EXCEPT ![k] = left.conn] /\ db' = left.db /\ cfg' = left.cfg

\* The descriptor is unregistered, which closes it and frees the connection.
mgmt_done == Left(Closed, db, cfg)

Answers(c, consumed, resp, st) ==
  [c EXCEPT !.rbuf = buffer_read_adv(@, consumed),
            !.wbuf = buffer_write(buffer_reset(@), resp),
            !.state = st, !.interest = {"OP_WRITE"}]

\* Mutant: a connection that failed to authenticate is kept.
ProcessAuth_KeepsConnection(c) ==
  LET r  == parse_auth(c.rbuf.bytes)
      ok == r.user = cfg.admin.name /\ r.pass = cfg.admin.pass
      answered == Answers(c, r.rc, <<SMP_VERSION, IF ok THEN 0 ELSE 1>>, "AUTH_REPLY")
  IN  CASE r.rc = 0 -> Left(c, db, cfg)
        [] r.rc < 0 -> mgmt_done
        [] r.rc > 0 -> Left([answered EXCEPT !.auth_ok = ok], db, cfg)

ProcessAuth(c) ==
  LET r  == parse_auth(c.rbuf.bytes)
      ok == r.user = cfg.admin.name /\ r.pass = cfg.admin.pass
      answered == Answers(c, r.rc, <<SMP_VERSION, IF ok THEN 0 ELSE 1>>, "AUTH_REPLY")
  IN  CASE r.rc = 0 -> Left(c, db, cfg)
        [] r.rc < 0 -> mgmt_done
        [] r.rc > 0 -> Left([answered EXCEPT !.auth_ok = ok,
                                             !.close_after_write = ~ok], db, cfg)

\* Mutant: the bytes of an unknown command are not consumed.
ProcessRequest_LeavesUnknown(c) ==
  LET r == parse_request(c.rbuf.bytes)
      p == process_request(r, db, cfg)
  IN  CASE r.rc = 0  -> Left(c, db, cfg)
        [] r.rc = -1 -> mgmt_done
        [] r.rc = -2 -> Left(Answers(c, 0, p.resp, "RESPONSE"), db, cfg)
        [] r.rc > 0  -> Left(Answers(c, r.rc, p.resp, "RESPONSE"), p.db, p.cfg)

ProcessRequest(c) ==
  LET r == parse_request(c.rbuf.bytes)
      p == process_request(r, db, cfg)
  IN  CASE r.rc = 0  -> Left(c, db, cfg)
        [] r.rc = -1 -> mgmt_done
        [] r.rc = -2 -> Left(Answers(c, 2, resp_simple(r.cmd, UNKNOWN_COMMAND),
                                     "RESPONSE"), db, cfg)
        [] r.rc > 0  -> Left(Answers(c, r.rc, p.resp, "RESPONSE"), p.db, p.cfg)

\* One message at most is taken from the buffer; nothing while writing.
mgmt_try_process(c) ==
  CASE c.state = "AUTH"    -> ProcessAuth(c)
    [] c.state = "REQUEST" -> ProcessRequest(c)
    [] OTHER               -> Left(c, db, cfg)

\* accept, calloc or selector_register may fail: the client is cut off.
mgmt_passive_accept(k) ==
  /\ mc[k].state = "backlog"
  /\ \E c \in {NewConn, Closed} : Leaves(k, Left(c, db, cfg))
  /\ UNCHANGED <<script, sent, pos, out, gone>>

\* What send may take of a buffer: all of it, or less.
Sendable(b) == {w \in SendCuts : w < Len(b.bytes)} \cup {Len(b.bytes)}

Unreceived(k) == Len(sent[k]) - pos[k]

\* How many bytes recv may hand over into the room there is.
Receivable(k) ==
  LET space == WriteSpace(mc[k].rbuf)
  IN  {n \in RecvCuts \cup {Unreceived(k), space} :
         n > 0 /\ n <= Unreceived(k) /\ n <= space}

\* recv returned n bytes.
Received(k, n) ==
  mgmt_try_process(
    [mc[k] EXCEPT !.rbuf =
       buffer_write_adv(@, SubSeq(sent[k], pos[k] + 1, pos[k] + n))])

\* A buffer without room has recv return 0, which ends the connection.
mgmt_read(k) ==
  /\ "OP_READ" \in mc[k].interest /\ Unreceived(k) > 0
  /\ \/ /\ WriteSpace(mc[k].rbuf) = 0
        /\ Leaves(k, mgmt_done) /\ UNCHANGED pos
     \/ \E n \in Receivable(k) : \E left \in {Received(k, n)} :
          Leaves(k, left) /\ pos' = [pos EXCEPT ![k] = @ + n]
  /\ UNCHANGED <<script, sent, out, gone>>

\* Mutant: the next request is not looked for in the buffer.
Written_ForgetsPipelined(k, w) ==
  LET c == [mc[k] EXCEPT !.wbuf = buffer_read_adv(@, w)]
  IN  IF buffer_can_read(c.wbuf) THEN Left(c, db, cfg)
      ELSE IF c.close_after_write THEN mgmt_done
      ELSE Left([c EXCEPT !.state = "REQUEST", !.interest = {"OP_READ"}], db, cfg)

\* send took w bytes.  Behind the last one the next request may be there already.
Written(k, w) ==
  LET c == [mc[k] EXCEPT !.wbuf = buffer_read_adv(@, w)]
  IN  IF buffer_can_read(c.wbuf) THEN Left(c, db, cfg)
      ELSE IF c.close_after_write THEN mgmt_done
      ELSE mgmt_try_process([c EXCEPT !.state = "REQUEST",
                                      !.interest = {"OP_READ"}])

mgmt_write(k) ==
  /\ "OP_WRITE" \in mc[k].interest
  /\ \E w \in Sendable(mc[k].wbuf) : \E left \in {Written(k, w)} :
       /\ Leaves(k, left)
       /\ out' = [out EXCEPT ![k] = @ \o SubSeq(mc[k].wbuf.bytes, 1, w)]
  /\ UNCHANGED <<script, sent, pos, gone>>

\* The client closed its side and nothing is left, or recv or send fails.
mgmt_lost(k) ==
  /\ gone[k] /\ mc[k].interest # {}
  /\ Leaves(k, mgmt_done)
  /\ UNCHANGED <<script, sent, pos, out, gone>>

-----------------------------------------------------------------------------
(* The clients.                                                            *)

\* A client ends or is killed, MaxGone of them at most.
ClientLeaves(k) ==
  /\ ~gone[k] /\ Cardinality({j \in MConns : gone[j]}) < MaxGone
  /\ gone' = [gone EXCEPT ![k] = TRUE]
  /\ UNCHANGED <<db, cfg, mc, script, sent, pos, out>>
=============================================================================
