---------------------------- MODULE ClientProofs -----------------------------
(* Theorems about the management server of Mgmt and its clients, for any   *)
(* number of connections, any messages and any way they are cut.           *)
EXTENDS Client, StartupProofs

-----------------------------------------------------------------------------
(* The invariant: the slots are a table, every connection has a request    *)
(* buffer within its bounds, and it lets nobody in but the administrator.  *)

GoodMgmt(c) ==
  /\ c = [state |-> c.state, auth_ok |-> c.auth_ok,
          close_after_write |-> c.close_after_write,
          rbuf |-> c.rbuf, wbuf |-> c.wbuf, interest |-> c.interest]
  /\ c.rbuf \in BufferOf(Nat, MGMT_RBUF)

ConnsGood == mc = [k \in MConns |-> mc[k]] /\ \A k \in MConns : GoodMgmt(mc[k])

StreamsGood ==
  /\ sent \in [MConns -> Seq(Nat)] /\ pos \in [MConns -> Nat]
  /\ out = [k \in MConns |-> out[k]]
  /\ \A k \in MConns : pos[k] <= Len(sent[k])

GoodConfig(g) ==
  /\ g = [io_buffer_size |-> g.io_buffer_size, conn_timeout_secs |-> g.conn_timeout_secs,
          auth_required |-> g.auth_required, admin |-> g.admin]
  /\ g.io_buffer_size \in Nat /\ g.conn_timeout_secs \in Nat

\* The bytes q begin with the credentials of the administrator.
AuthBytes(q, admin) ==
  LET r == parse_auth(q) IN r.rc > 0 /\ r.user = admin.name /\ r.pass = admin.pass

\* What the selector is asked for, in each state.
Mode(c) ==
  \/ c.state \in {"backlog", "closed"} /\ c.interest = {}
  \/ c.state \in {"AUTH", "REQUEST"} /\ c.interest = {"OP_READ"}
  \/ c.state \in {"AUTH_REPLY", "RESPONSE"} /\ c.interest = {"OP_WRITE"}

\* What a connection c has answered, the bytes o and those in its buffer, when
\* it has received the first n of the bytes q: no more than the reply to the
\* authentication, unless q begins with the credentials of the administrator.
Access(c, q, n, o, admin) ==
  /\ Mode(c)
  /\ c.state = "backlog" => n = 0
  /\ c.state \in {"backlog", "AUTH"} =>
       /\ o = <<>> /\ c.rbuf.bytes = SubSeq(q, 1, n)
       /\ c.wbuf \in BufferOf(Nat, MGMT_WBUF) /\ c.wbuf.bytes = <<>>
  /\ \/ AuthBytes(q, admin)
     \/ /\ \/ c.state \in {"backlog", "AUTH", "closed"}
           \/ c.state = "AUTH_REPLY" /\ c.close_after_write = TRUE
        /\ o \in Seq(Nat) /\ c.wbuf \in BufferOf(Nat, MGMT_WBUF)
        /\ Len(o) + Len(c.wbuf.bytes) <= 2

AccessGood == \A k \in MConns : Access(mc[k], sent[k], pos[k], out[k], cfg.admin)

ClientInv == IsTable(db) /\ GoodConfig(cfg) /\ ConnsGood /\ StreamsGood /\ AccessGood

\* A step of a directory from the map m to the map w, or none.
DirectoryStep(m, w) ==
  \/ w = m
  \/ \E n \in NameField : n \in DOMAIN m /\ w = Deleted(m, n)
  \/ \E n \in NameField, p \in PassField :
       /\ n \in DOMAIN m \/ Cardinality(DOMAIN m) < USERS_MAX
       /\ w = Added(m, n, p)

\* What the handlers may leave of the connection c: when it changed the users
\* or the configuration, it consumed something for that.
GoodLeft(left, c) ==
  /\ GoodMgmt(left.conn) /\ IsTable(left.db)
  /\ DirectoryStep(AsMap(db), AsMap(left.db))
  /\ GoodConfig(left.cfg) /\ left.cfg.admin = cfg.admin
  /\ \/ left.db = db /\ left.cfg = cfg
     \/ c.state = "REQUEST" /\ Len(left.conn.rbuf.bytes) < Len(c.rbuf.bytes)

-----------------------------------------------------------------------------
(* Parsing: no more is consumed than there is, and the fields are strings. *)
GoodRequest(r, p) ==
  /\ r.rc \in Int /\ -2 <= r.rc /\ r.rc <= Len(p) /\ r.user \in Seq(Nat) /\ r.pass \in Seq(Nat)
  /\ r.cmd \in Nat /\ r.key \in Nat /\ r.value \in Nat
  /\ r = [rc |-> r.rc, cmd |-> r.cmd, user |-> r.user, pass |-> r.pass,
          key |-> r.key, value |-> r.value]

LEMMA FieldsGood ==
  ASSUME NEW p \in Seq(Nat), NEW rc \in Int, -2 <= rc, rc <= Len(p), NEW cmd \in Nat,
         NEW user \in Seq(Nat), NEW pass \in Seq(Nat), NEW key \in Nat, NEW value \in Nat
  PROVE  GoodRequest([rc |-> rc, cmd |-> cmd, user |-> user, pass |-> pass,
                      key |-> key, value |-> value], p)
BY DEF GoodRequest

LEMMA SetFields ==
  ASSUME NEW q, NEW rc, NEW user, NEW pass, NEW key, NEW value,
         q = [rc |-> q.rc, cmd |-> q.cmd, user |-> q.user, pass |-> q.pass,
              key |-> q.key, value |-> q.value]
  PROVE  /\ [q EXCEPT !.rc = rc, !.user = user] =
              [rc |-> rc, cmd |-> q.cmd, user |-> user, pass |-> q.pass,
               key |-> q.key, value |-> q.value]
         /\ [q EXCEPT !.rc = rc, !.key = key, !.value = value] =
              [rc |-> rc, cmd |-> q.cmd, user |-> q.user, pass |-> q.pass,
               key |-> key, value |-> value]
         /\ [q EXCEPT !.rc = rc, !.user = user, !.pass = pass] =
              [rc |-> rc, cmd |-> q.cmd, user |-> user, pass |-> pass,
               key |-> q.key, value |-> q.value]
<1> DEFINE q1 == [q EXCEPT !.rc = rc]
           q2 == [q1 EXCEPT !.key = key]
           q3 == [q1 EXCEPT !.user = user]
<1>1. q1 = [rc |-> rc, cmd |-> q.cmd, user |-> q.user, pass |-> q.pass,
            key |-> q.key, value |-> q.value]
  OBVIOUS
<1> HIDE DEF q1
<1>2. q3 =
        [rc |-> rc, cmd |-> q.cmd, user |-> user, pass |-> q.pass,
         key |-> q.key, value |-> q.value]
  BY ONLY <1>1
<1>3. q2 = [rc |-> rc, cmd |-> q.cmd, user |-> q.user, pass |-> q.pass,
            key |-> key, value |-> q.value]
  BY ONLY <1>1
<1> HIDE DEF q2, q3
<1>4. [q2 EXCEPT !.value = value] =
        [rc |-> rc, cmd |-> q.cmd, user |-> q.user, pass |-> q.pass,
         key |-> key, value |-> value]
  BY ONLY <1>3
<1>5. [q3 EXCEPT !.pass = pass] =
        [rc |-> rc, cmd |-> q.cmd, user |-> user, pass |-> pass,
         key |-> q.key, value |-> q.value]
  BY ONLY <1>2
<1> QED
  BY ONLY <1>2, <1>4, <1>5 DEF q1, q2, q3

LEMMA NoRequestFields ==
  /\ NoRequest = [rc |-> NoRequest.rc, cmd |-> NoRequest.cmd, user |-> NoRequest.user,
                  pass |-> NoRequest.pass, key |-> NoRequest.key,
                  value |-> NoRequest.value]
  /\ NoRequest.user \in Seq(Nat) /\ NoRequest.pass \in Seq(Nat)
  /\ NoRequest.cmd \in Nat /\ NoRequest.key \in Nat /\ NoRequest.value \in Nat
BY DEF NoRequest

LEMMA NoRequestGood ==
  ASSUME NEW p \in Seq(Nat)
  PROVE  /\ GoodRequest(NeedMore, p) /\ GoodRequest(Malformed, p)
         /\ \A rc \in Int : -2 <= rc /\ rc <= Len(p) => GoodRequest([NoRequest EXCEPT !.rc = rc], p)
<1>1. <<>> \in Seq(Nat) /\ Len(p) \in Nat
  OBVIOUS
<1> QED
  BY <1>1 DEF GoodRequest, NeedMore, Malformed, NoRequest

LEMMA FieldIsString ==
  ASSUME NEW p \in Seq(Nat), NEW i \in Nat, NEW j \in Nat, i >= 1, j <= Len(p)
  PROVE  CString(SubSeq(p, i, j)) \in Seq(Nat)
<1>1. \A x \in i .. j : p[x] \in Nat
  OBVIOUS
<1>2. SubSeq(p, i, j) \in Seq(Nat)
  BY <1>1, SubSeqProperties
<1> QED
  BY <1>2, CStringIsSeq

LEMMA ParsePairGood ==
  ASSUME NEW p \in Seq(Nat), NEW o \in {1, 2}
  PROVE  GoodRequest(ParsePair(p, o), p)
<1> DEFINE ulen == p[o + 1]
           plen == p[o + ulen + 2]
           need == o + 2 + ulen + plen
           user == CString(SubSeq(p, o + 2, o + 1 + ulen))
           pass == CString(SubSeq(p, o + 3 + ulen, need))
           r == [NoRequest EXCEPT !.rc = need, !.user = user, !.pass = pass]
<1>1. CASE Len(p) >= o + 1 /\ ulen # 0 /\ Len(p) >= o + ulen + 2 /\ plen # 0
           /\ Len(p) >= need
  <2>1. ulen \in Nat /\ plen \in Nat
    <3>1. ulen \in Nat
      BY <1>1, SMTT(30)
    <3> HIDE DEF ulen
    <3> QED
      BY <1>1, <3>1
  <2> HIDE DEF ulen, plen
  <2>2. user \in Seq(Nat) /\ pass \in Seq(Nat)
    <3>1. /\ o + 2 \in Nat /\ o + 1 + ulen \in Nat /\ o + 2 >= 1 /\ o + 1 + ulen <= Len(p)
          /\ o + 3 + ulen \in Nat /\ need \in Nat /\ o + 3 + ulen >= 1 /\ need <= Len(p)
      BY <1>1, <2>1
    <3> HIDE DEF need
    <3> QED
      BY <3>1, FieldIsString
  <2>3. need \in Int /\ -2 <= need /\ need <= Len(p)
    BY <1>1, <2>1
  <2>4. ParsePair(p, o) = r
    BY <1>1, SMTT(30) DEF ParsePair, ulen, plen
  <2> HIDE DEF user, pass, need
  <2>5. r = [rc |-> need, cmd |-> NoRequest.cmd, user |-> user, pass |-> pass,
             key |-> NoRequest.key, value |-> NoRequest.value]
    <3> DEFINE q == NoRequest
    <3>1. q = [rc |-> q.rc, cmd |-> q.cmd, user |-> q.user, pass |-> q.pass,
               key |-> q.key, value |-> q.value]
      BY NoRequestFields
    <3>2. r = [q EXCEPT !.rc = need, !.user = user, !.pass = pass]
      OBVIOUS
    <3> HIDE DEF q, r
    <3>3. r = [rc |-> need, cmd |-> q.cmd, user |-> user, pass |-> pass,
               key |-> q.key, value |-> q.value]
      BY <3>1, <3>2, SetFields, Zenon
    <3> QED
      BY <3>3 DEF q
  <2> HIDE DEF r
  <2> QED
    BY <2>2, <2>3, <2>4, <2>5, NoRequestFields, FieldsGood
<1>2. CASE ~(Len(p) >= o + 1 /\ ulen # 0 /\ Len(p) >= o + ulen + 2 /\ plen # 0
             /\ Len(p) >= need)
  <2>1. CASE Len(p) < o + 1
    BY <2>1, NoRequestGood DEF ParsePair
  <2>2. CASE ~(Len(p) < o + 1)
    <3>1. ulen \in Nat /\ Len(p) >= o + 1
      BY <2>2
    <3>2. CASE ulen = 0 \/ Len(p) < o + ulen + 2
      BY <2>2, <3>2, NoRequestGood DEF ParsePair
    <3>3. CASE ~(ulen = 0 \/ Len(p) < o + ulen + 2)
      <4>1. plen \in Nat
        <5> HIDE DEF ulen
        <5> QED
          BY <3>1, <3>3
      <4>2. plen = 0 \/ Len(p) < need
        <5> HIDE DEF ulen, plen
        <5> QED
          BY <1>2, <3>1, <3>3, <4>1
      <4> QED
        BY <2>2, <3>3, <4>2, NoRequestGood DEF ParsePair
    <3> QED
      BY <3>2, <3>3
  <2> QED
    BY <2>1, <2>2
<1> QED
  BY <1>1, <1>2

LEMMA ParseNameGood ==
  ASSUME NEW p \in Seq(Nat)
  PROVE  GoodRequest(ParseName(p), p)
<1> DEFINE user == CString(SubSeq(p, 4, 3 + p[3]))
<1>1. CASE Len(p) >= 3 /\ p[3] # 0 /\ Len(p) >= 3 + p[3]
  <2>1. p[3] \in Nat /\ 3 + p[3] \in Nat /\ 3 + p[3] <= Len(p)
    BY <1>1
  <2>2. user \in Seq(Nat)
    BY <2>1, FieldIsString
  <2>3. ParseName(p) = [NoRequest EXCEPT !.rc = 3 + p[3], !.user = user]
    BY <1>1, <2>1 DEF ParseName
  <2> DEFINE rc == 3 + p[3]
  <2>4. rc \in Int /\ -2 <= rc /\ rc <= Len(p) /\ <<>> \in Seq(Nat)
    BY <2>1
  <2>5. ParseName(p) = [NoRequest EXCEPT !.rc = rc, !.user = user]
    BY <2>3
  <2> HIDE DEF user, rc
  <2>6. ParseName(p) =
          [rc |-> rc, cmd |-> NoRequest.cmd, user |-> user, pass |-> NoRequest.pass,
           key |-> NoRequest.key, value |-> NoRequest.value]
    BY <2>5, NoRequestFields, SetFields
  <2> QED
    BY <2>2, <2>4, <2>6, NoRequestFields, FieldsGood
<1>2. CASE Len(p) < 3 \/ p[3] = 0 \/ Len(p) < 3 + p[3]
  BY <1>2, NoRequestGood DEF ParseName
<1>3. Len(p) \in Nat /\ (Len(p) >= 3 => p[3] \in Nat)
  OBVIOUS
<1> QED
  BY <1>1, <1>2, <1>3

(* A number of several bytes is a number.                                  *)
LEMMA NumberIsNat ==
  ASSUME NEW digits \in Seq(Nat)
  PROVE  Number(digits) \in Nat
<1> DEFINE l == Len(digits)
           g == [i \in 1 .. l |-> [x \in Nat |-> x * BYTE + digits[i]]]
           n[i \in 0 .. Len(digits)] ==
             IF i = 0 THEN 0 ELSE n[i - 1] * BYTE + digits[i]
<1>1. BYTE \in Nat /\ l \in Nat /\ \A i \in 1 .. l : digits[i] \in Nat
  BY MgmtAssumption
<1>2. Steps(l, Nat, g)
  <2>1. \A i \in 1 .. l : \A x \in Nat : x * BYTE + digits[i] \in Nat
    BY <1>1
  <2> QED
    BY <2>1 DEF Steps
<1>3. Number(digits) = n[l]
  BY DEF Number
<1> HIDE DEF g
<1>4. PICK t : Iterates(t, l, Nat, 0, g)
  BY <1>1, <1>2, RecursionExists
<1>5. t \in [0 .. l -> Nat] /\ t[0] = 0 /\ \A i \in 1 .. l : t[i] = g[i][t[i - 1]]
  BY <1>4 DEF Iterates
<1>6. \A i \in 1 .. l : t[i] = t[i - 1] * BYTE + digits[i]
  <2>1. \A i \in 1 .. l : t[i - 1] \in Nat
    BY <1>5
  <2> QED
    BY <1>5, <2>1 DEF g
<1>7. t = [i \in 0 .. Len(digits) |-> IF i = 0 THEN 0 ELSE t[i - 1] * BYTE + digits[i]]
  BY <1>5, <1>6
<1>8. n = [i \in 0 .. Len(digits) |-> IF i = 0 THEN 0 ELSE n[i - 1] * BYTE + digits[i]]
  BY <1>7
<1> DEFINE P == {i \in 0 .. l : n[i] \in Nat}
<1> HIDE DEF n
<1>9. 0 \in P
  BY <1>1, <1>8
<1>10. ASSUME NEW i \in 0 .. l - 1, i \in P PROVE i + 1 \in P
  <2>1. i + 1 \in 1 .. l /\ i + 1 \in 0 .. l /\ i + 1 # 0 /\ (i + 1) - 1 = i
    BY <1>1
  <2>2. n[i + 1] = n[i] * BYTE + digits[i + 1]
    BY <1>8, <2>1
  <2>3. n[i] * BYTE + digits[i + 1] \in Nat
    <3> DEFINE x == n[i]
               y == digits[i + 1]
    <3>1. x \in Nat /\ y \in Nat
      BY <1>1, <1>10, <2>1
    <3> HIDE DEF x, y
    <3>2. x * BYTE + y \in Nat
      BY <1>1, <3>1
    <3> QED
      BY <3>2 DEF x, y
  <2> QED
    BY <2>1, <2>2, <2>3
<1>11. \A i \in 0 .. l : i \in P
  <2> HIDE DEF P
  <2> QED
    BY <1>1, <1>9, <1>10, Induction
<1> QED
  BY <1>1, <1>3, <1>11

LEMMA ParseSettingGood ==
  ASSUME NEW p \in Seq(Nat)
  PROVE  GoodRequest(ParseSetting(p), p)
<1> DEFINE width == IF p[3] = CFG_AUTH_REQUIRED THEN 1 ELSE 4
           value == Number(SubSeq(p, 4, 3 + width))
<1>1. Len(p) \in Nat /\ width \in {1, 4}
  OBVIOUS
<1>2. CASE Len(p) < 3 \/ Len(p) < 3 + width
  BY <1>2, NoRequestGood DEF ParseSetting
<1>3. CASE ~(Len(p) < 3 \/ Len(p) < 3 + width)
  <2> DEFINE rc == 3 + width
             key == p[3]
  <2>1. ParseSetting(p) = [NoRequest EXCEPT !.rc = rc, !.key = key, !.value = value]
    BY <1>3 DEF ParseSetting
  <2>2. rc \in Int /\ -2 <= rc /\ rc <= Len(p) /\ <<>> \in Seq(Nat)
    <3> HIDE DEF width
    <3> QED
      BY <1>1, <1>3
  <2>2a. key \in Nat
    BY <1>1, <1>3
  <2>2b. value \in Nat
    <3> DEFINE s == SubSeq(p, 4, 3 + width)
    <3>1. \A x \in 4 .. 3 + width : p[x] \in Nat
      <4>1. 3 + width \in Nat /\ 3 + width <= Len(p)
        <5> HIDE DEF width
        <5> QED
          BY <1>1, <1>3
      <4> HIDE DEF width
      <4> QED
        BY <4>1
    <3>2. 3 + width \in Nat
      BY <1>1
    <3> HIDE DEF width
    <3>3. s \in Seq(Nat)
      BY <3>1, <3>2, SubSeqProperties
    <3> HIDE DEF s
    <3> QED
      BY <3>3, NumberIsNat DEF s
  <2> HIDE DEF value, rc, key
  <2>3. ParseSetting(p) =
          [rc |-> rc, cmd |-> NoRequest.cmd, user |-> NoRequest.user,
           pass |-> NoRequest.pass, key |-> key, value |-> value]
    BY <2>1, NoRequestFields, SetFields
  <2> QED
    BY <2>2, <2>2a, <2>2b, <2>3, NoRequestFields, FieldsGood
<1> QED
  BY <1>2, <1>3

(* parse_request consumes two bytes of an unknown command, no more than    *)
(* there is of any other, and gives C strings.                             *)
LEMMA ParseRequestGood ==
  ASSUME NEW p \in Seq(Nat)
  PROVE  /\ GoodRequest(parse_request(p), p)
         /\ parse_request(p).rc = -2 => Len(p) >= 2
<1> DEFINE args == CASE p[2] \in {METRICS, LIST_USERS, GET_CONFIG} ->
                     [NoRequest EXCEPT !.rc = 2]
                     [] p[2] = ADD_USER   -> ParsePair(p, 2)
                     [] p[2] = DEL_USER   -> ParseName(p)
                     [] p[2] = SET_CONFIG -> ParseSetting(p)
                     [] OTHER             -> [NoRequest EXCEPT !.rc = -2]
           r == parse_request(p)
<1>0. Len(p) \in Nat
  OBVIOUS
<1>1. CASE Len(p) < 2 \/ p[1] # SMP_VERSION
  <2>1. r \in {NeedMore, Malformed}
    BY <1>1 DEF parse_request
  <2>2. r.rc # -2
    BY <2>1 DEF NeedMore, Malformed, NoRequest
  <2> QED
    BY <2>1, <2>2, NoRequestGood
<1>2. CASE ~(Len(p) < 2 \/ p[1] # SMP_VERSION)
  <2>1. r = [args EXCEPT !.cmd = p[2]]
    BY <1>2 DEF parse_request
  <2>2. GoodRequest(args, p)
    <3>1. GoodRequest([NoRequest EXCEPT !.rc = 2], p)
          /\ GoodRequest([NoRequest EXCEPT !.rc = -2], p)
      <4>1. /\ 2 \in Int /\ -2 <= 2 /\ 2 <= Len(p)
            /\ -2 \in Int /\ -2 <= -2 /\ -2 <= Len(p)
        BY <1>0, <1>2
      <4> QED
        BY <4>1, NoRequestGood
    <3>2. GoodRequest(ParsePair(p, 2), p) /\ GoodRequest(ParseName(p), p)
          /\ GoodRequest(ParseSetting(p), p)
      BY ParsePairGood, ParseNameGood, ParseSettingGood
    <3> QED
      BY <3>1, <3>2 DEF METRICS, LIST_USERS, GET_CONFIG, ADD_USER, DEL_USER, SET_CONFIG
  <2> HIDE DEF args
  <2> DEFINE cmd == p[2]
  <2>2a. cmd \in Nat
    BY <1>0, <1>2
  <2> HIDE DEF cmd
  <2>3. GoodRequest([args EXCEPT !.cmd = cmd], p)
    <3>1. args = [rc |-> args.rc, cmd |-> args.cmd, user |-> args.user,
                  pass |-> args.pass, key |-> args.key, value |-> args.value]
      BY <2>2 DEF GoodRequest
    <3>2. [args EXCEPT !.cmd = cmd] =
            [rc |-> args.rc, cmd |-> cmd, user |-> args.user, pass |-> args.pass,
             key |-> args.key, value |-> args.value]
      BY ONLY <3>1
    <3> QED
      BY <2>2, <2>2a, <3>2, FieldsGood DEF GoodRequest
  <2> QED
    BY <1>0, <1>2, <2>1, <2>3 DEF cmd
<1> QED
  BY <1>1, <1>2

-----------------------------------------------------------------------------
(* The handlers.                                                           *)

\* No setting is about the administrator.
LEMMA SetConfigGood ==
  ASSUME NEW d, NEW g, GoodConfig(g), NEW r, r.value \in Nat
  PROVE  LET w == SetConfig(r, d, g).cfg
         IN  GoodConfig(w) /\ w.admin = g.admin
<1> DEFINE v == Clamped(r.value)
           w == SetConfig(r, d, g).cfg
           t == r.value
           on == (r.value # 0)
<1>1. w \in {g, [g EXCEPT !.io_buffer_size = v], [g EXCEPT !.conn_timeout_secs = t],
             [g EXCEPT !.auth_required = on]}
  BY DEF SetConfig, Reply, CFG_IO_BUFFER_SIZE, CFG_CONN_TIMEOUT, CFG_AUTH_REQUIRED
<1>1a. v \in Nat /\ t \in Nat
  BY MgmtAssumption DEF Clamped
<1> HIDE DEF w, v, t, on
<1>2. ASSUME NEW x
      PROVE  /\ x \in Nat => GoodConfig([g EXCEPT !.io_buffer_size = x])
             /\ x \in Nat => GoodConfig([g EXCEPT !.conn_timeout_secs = x])
             /\ GoodConfig([g EXCEPT !.auth_required = x])
             /\ [g EXCEPT !.io_buffer_size = x].admin = g.admin
             /\ [g EXCEPT !.conn_timeout_secs = x].admin = g.admin
             /\ [g EXCEPT !.auth_required = x].admin = g.admin
  BY DEF GoodConfig
<1> QED
  BY <1>1, <1>1a, <1>2 DEF w

(* Whatever a request asks for, the table takes a step of a directory.     *)
LEMMA ProcessRequestGood ==
  ASSUME NEW d, IsTable(d), NEW g, GoodConfig(g),
         NEW r, r.user \in Seq(Nat), r.pass \in Seq(Nat), r.value \in Nat
  PROVE  LET w == process_request(r, d, g)
         IN  /\ IsTable(w.db) /\ DirectoryStep(AsMap(d), AsMap(w.db))
             /\ GoodConfig(w.cfg) /\ w.cfg.admin = g.admin
<1> DEFINE w == process_request(r, d, g).db
           add == users_add(d, r.user, r.pass)
           del == users_del(d, r.user)
<1>1. w \in {d, add.db, del.db}
  BY DEF process_request, Reply, AddUser, DelUser, SetConfig,
         METRICS, LIST_USERS, GET_CONFIG, ADD_USER, DEL_USER, SET_CONFIG
<1>2. IsTable(add.db) /\ DirectoryStep(AsMap(d), AsMap(add.db))
  <2>1. CASE add.db = d
    BY <2>1 DEF DirectoryStep
  <2>2. CASE add.db # d
    <3> DEFINE n == r.user
               p == r.pass
    <3>1. /\ IsTable(add.db) /\ n \in NameField /\ p \in PassField
          /\ n \in DOMAIN AsMap(d) \/ Cardinality(DOMAIN AsMap(d)) < USERS_MAX
          /\ AsMap(add.db) = Added(AsMap(d), n, p)
      BY <2>2, UsersAdd
    <3> HIDE DEF add, n, p
    <3> QED
      BY <3>1 DEF DirectoryStep
  <2> QED
    BY <2>1, <2>2
<1>3. IsTable(del.db) /\ DirectoryStep(AsMap(d), AsMap(del.db))
  <2>1. /\ IsTable(del.db) /\ AsMap(del.db) = Deleted(AsMap(d), r.user)
        /\ r.user \in DOMAIN AsMap(d) \/ del.db = d
    BY UsersDel
  <2>2. DOMAIN AsMap(d) \subseteq NameField
    BY MapIsDirectory
  <2> HIDE DEF del
  <2> QED
    BY <2>1, <2>2 DEF DirectoryStep
<1>4. DirectoryStep(AsMap(d), AsMap(d))
  BY DEF DirectoryStep
<1>5. IsTable(w) /\ DirectoryStep(AsMap(d), AsMap(w))
  <2> HIDE DEF w, add, del
  <2> QED
    BY <1>1, <1>2, <1>3, <1>4
<1> DEFINE v == process_request(r, d, g).cfg
<1>6. v \in {g, SetConfig(r, d, g).cfg}
  BY DEF process_request, Reply, AddUser, DelUser,
         METRICS, LIST_USERS, GET_CONFIG, ADD_USER, DEL_USER, SET_CONFIG
<1>7. GoodConfig(v) /\ v.admin = g.admin
  <2> HIDE DEF v
  <2> QED
    BY <1>6, SetConfigGood
<1> HIDE DEF w, v, add, del
<1> QED
  BY <1>5, <1>7 DEF w, v

LEMMA MgmtSizes == MGMT_RBUF \in Nat
BY MgmtAssumption

LEMMA GoodExcept ==
  ASSUME NEW c, GoodMgmt(c), NEW v
  PROVE  /\ GoodMgmt([c EXCEPT !.state = v]) /\ GoodMgmt([c EXCEPT !.interest = v])
         /\ GoodMgmt([c EXCEPT !.auth_ok = v]) /\ GoodMgmt([c EXCEPT !.wbuf = v])
         /\ GoodMgmt([c EXCEPT !.close_after_write = v])
         /\ v \in BufferOf(Nat, MGMT_RBUF) => GoodMgmt([c EXCEPT !.rbuf = v])
BY DEF GoodMgmt

LEMMA ClosedGood == GoodMgmt(Closed) /\ GoodMgmt(NewConn) /\ GoodMgmt(Waiting)
<1>1. buffer_init(MGMT_RBUF) \in BufferOf(Nat, MGMT_RBUF)
  <2>1. <<>> \in Seq(Nat) /\ Len(<<>>) = 0
    OBVIOUS
  <2> QED
    BY <2>1, MgmtSizes DEF buffer_init, BufferOf
<1> HIDE DEF buffer_init
<1>2. GoodMgmt(NewConn)
  BY <1>1 DEF GoodMgmt, NewConn
<1>3. ASSUME NEW n, NEW st, NEW i, GoodMgmt(n)
      PROVE  GoodMgmt([n EXCEPT !.state = st, !.interest = i])
  <2> DEFINE m == [n EXCEPT !.state = st]
  <2>1. GoodMgmt(m)
    BY <1>3, GoodExcept
  <2> HIDE DEF m
  <2>2. GoodMgmt([m EXCEPT !.interest = i])
    BY <2>1, GoodExcept
  <2> QED
    BY <2>2 DEF m
<1> HIDE DEF NewConn
<1> QED
  BY <1>2, <1>3 DEF Closed, Waiting

(* An answer takes the place of a request.                                 *)
LEMMA AnswersGood ==
  ASSUME NEW c, GoodMgmt(c), NEW n \in 0 .. Len(c.rbuf.bytes), NEW resp, NEW st
  PROVE  LET a == Answers(c, n, resp, st)
         IN  /\ GoodMgmt(a) /\ Len(a.rbuf.bytes) = Len(c.rbuf.bytes) - n
             /\ a.state = st /\ a.interest = {"OP_WRITE"}
             /\ a.wbuf = buffer_write(buffer_reset(c.wbuf), resp)
<1> DEFINE b == buffer_read_adv(c.rbuf, n)
           w == buffer_write(buffer_reset(c.wbuf), resp)
           q == c.rbuf.bytes
           a == Answers(c, n, resp, st)
<1>1. b \in BufferOf(Nat, MGMT_RBUF) /\ Len(b.bytes) = Len(q) - n
  <2> DEFINE front == SubSeq(q, 1, n)
  <2>1. /\ b \in BufferOf(Nat, MGMT_RBUF) /\ front \o b.bytes = q
        /\ front \in Seq(Nat) /\ Len(front) = n
    BY MgmtSizes, ReadAdvDrops, SMTT(30) DEF GoodMgmt
  <2>2. b.bytes \in Seq(Nat)
    BY <2>1, MgmtSizes, BufferFields
  <2> DEFINE rest == b.bytes
  <2> HIDE DEF b, q, front
  <2>3. Len(front \o rest) = Len(front) + Len(rest) /\ Len(rest) \in Nat
    <3>1. rest \in Seq(Nat) /\ front \in Seq(Nat)
      BY <2>1, <2>2
    <3> HIDE DEF rest
    <3> QED
      BY <3>1
  <2> QED
    BY <2>1, <2>3
<1>2. a = [c EXCEPT !.rbuf = b, !.wbuf = w, !.state = st, !.interest = {"OP_WRITE"}]
  BY DEF Answers
<1> HIDE DEF b, w, q
<1>3. GoodMgmt(a)
  <2> HIDE DEF a
  <2> QED
    BY <1>1, <1>2 DEF GoodMgmt
<1>4. a.rbuf = b /\ a.state = st /\ a.interest = {"OP_WRITE"} /\ a.wbuf = w
  <2> HIDE DEF a
  <2> QED
    BY <1>2 DEF GoodMgmt
<1> HIDE DEF a
<1> QED
  BY <1>1, <1>3, <1>4 DEF a, w, q

\* What a handler leaves that changed neither users nor configuration.
LEMMA LeftAlone ==
  ASSUME NEW c, NEW e, GoodMgmt(e), IsTable(db), GoodConfig(cfg)
  PROVE  GoodLeft(Left(e, db, cfg), c)
BY DEF GoodLeft, Left, DirectoryStep

LEMMA DoneGood ==
  ASSUME NEW c, IsTable(db), GoodConfig(cfg)
  PROVE  GoodLeft(mgmt_done, c)
BY LeftAlone, ClosedGood DEF mgmt_done

LEMMA ProcessAuthGood ==
  ASSUME NEW c, GoodMgmt(c), IsTable(db), GoodConfig(cfg)
  PROVE  GoodLeft(ProcessAuth(c), c)
<1> DEFINE p == c.rbuf.bytes
           r == parse_auth(p)
           ok == r.user = cfg.admin.name /\ r.pass = cfg.admin.pass
           nok == ~ok
           resp == <<SMP_VERSION, IF ok THEN 0 ELSE 1>>
           a == Answers(c, r.rc, resp, "AUTH_REPLY")
           a1 == [a EXCEPT !.auth_ok = ok]
           a2 == [a1 EXCEPT !.close_after_write = nok]
<1>1. p \in Seq(Nat)
  BY DEF GoodMgmt, BufferOf
<1> HIDE DEF p
<1>2. GoodRequest(r, p)
  BY <1>1, NoRequestGood, ParsePairGood DEF parse_auth
<1>3. r.rc \in Int /\ r.rc <= Len(p)
  BY <1>2 DEF GoodRequest
<1>4. ProcessAuth(c) = CASE r.rc = 0 -> Left(c, db, cfg)
                         [] r.rc < 0 -> mgmt_done
                         [] r.rc > 0 -> Left(a2, db, cfg)
  BY DEF ProcessAuth, p
<1>5. ASSUME r.rc > 0 PROVE GoodLeft(Left(a2, db, cfg), c)
  <2>1. r.rc \in 0 .. Len(c.rbuf.bytes)
    BY <1>1, <1>3, <1>5 DEF p
  <2> HIDE DEF r, ok, nok, resp
  <2>2. GoodMgmt(a)
    BY <2>1, AnswersGood
  <2> HIDE DEF a
  <2>3. GoodMgmt(a1)
    BY <2>2, GoodExcept
  <2> HIDE DEF a1
  <2>4. GoodMgmt(a2)
    BY <2>3, GoodExcept
  <2> HIDE DEF a2
  <2> QED
    BY <2>4, LeftAlone
<1> HIDE DEF r, a2
<1>6. r.rc = 0 \/ r.rc < 0 \/ r.rc > 0
  BY <1>3
<1> QED
  BY <1>3, <1>4, <1>5, <1>6, LeftAlone, DoneGood

LEMMA ProcessReqGood ==
  ASSUME NEW c, GoodMgmt(c), IsTable(db), GoodConfig(cfg), c.state = "REQUEST"
  PROVE  GoodLeft(ProcessRequest(c), c)
<1> DEFINE p == c.rbuf.bytes
           r == parse_request(p)
           w == process_request(r, db, cfg)
           u == Answers(c, 2, resp_simple(r.cmd, UNKNOWN_COMMAND), "RESPONSE")
           a == Answers(c, r.rc, w.resp, "RESPONSE")
<1>1. p \in Seq(Nat) /\ Len(p) \in Nat
  BY DEF GoodMgmt, BufferOf
<1> HIDE DEF p
<1>2. GoodRequest(r, p) /\ (r.rc = -2 => Len(p) >= 2)
  BY <1>1, ParseRequestGood
<1>3. /\ r.rc \in Int /\ -2 <= r.rc /\ r.rc <= Len(p)
      /\ r.user \in Seq(Nat) /\ r.pass \in Seq(Nat) /\ r.value \in Nat
  BY <1>2 DEF GoodRequest
<1>4. ProcessRequest(c) = CASE r.rc = 0  -> Left(c, db, cfg)
                            [] r.rc = -1 -> mgmt_done
                            [] r.rc = -2 -> Left(u, db, cfg)
                            [] r.rc > 0  -> Left(a, w.db, w.cfg)
  BY DEF ProcessRequest, p
<1>5. ASSUME r.rc = -2 PROVE GoodLeft(Left(u, db, cfg), c)
  <2>1. 2 \in 0 .. Len(c.rbuf.bytes)
    BY <1>1, <1>2, <1>5 DEF p
  <2> DEFINE resp == resp_simple(r.cmd, UNKNOWN_COMMAND)
  <2> HIDE DEF resp
  <2>2. GoodMgmt(u)
    BY <2>1, AnswersGood DEF resp
  <2> HIDE DEF u
  <2> QED
    BY <2>2, LeftAlone
<1>6. ASSUME r.rc > 0 PROVE GoodLeft(Left(a, w.db, w.cfg), c)
  <2>1. r.rc \in 0 .. Len(c.rbuf.bytes)
    BY <1>1, <1>3, <1>6 DEF p
  <2>2. /\ IsTable(w.db) /\ DirectoryStep(AsMap(db), AsMap(w.db))
        /\ GoodConfig(w.cfg) /\ w.cfg.admin = cfg.admin
    <3> HIDE DEF r
    <3> QED
      BY <1>3, ProcessRequestGood
  <2> HIDE DEF r, w
  <2>3. GoodMgmt(a) /\ Len(a.rbuf.bytes) < Len(c.rbuf.bytes)
    <3>1. GoodMgmt(a) /\ Len(a.rbuf.bytes) = Len(c.rbuf.bytes) - r.rc
      BY <2>1, AnswersGood
    <3> HIDE DEF a
    <3> QED
      BY <1>3, <1>6, <2>1, <3>1
  <2> HIDE DEF a
  <2> QED
    BY <2>2, <2>3 DEF GoodLeft, Left
<1>7. r.rc \in {0, -1, -2} \/ r.rc > 0
  BY <1>3
<1> HIDE DEF r, a, u
<1> QED
  BY <1>3, <1>4, <1>5, <1>6, <1>7, LeftAlone, DoneGood

LEMMA TryProcessGood ==
  ASSUME NEW c, GoodMgmt(c), IsTable(db), GoodConfig(cfg)
  PROVE  GoodLeft(mgmt_try_process(c), c)
BY ProcessAuthGood, ProcessReqGood, LeftAlone DEF mgmt_try_process

-----------------------------------------------------------------------------
(* The bytes of a list of messages.                                        *)
Associate(a, b, c) == (a \o b) \o c = a \o (b \o c)

LEMMA JoinsAssociate ==
  ASSUME NEW S, NEW a \in Seq(S), NEW b \in Seq(S), NEW c \in Seq(S)
  PROVE  Associate(a, b, c)
BY ConcatAssociative, SMTT(30) DEF Associate

LEMMA Assoc ==
  ASSUME NEW a \in Seq(Nat), NEW b \in Seq(Nat), NEW c \in Seq(Nat)
  PROVE  (a \o b) \o c = a \o (b \o c)
<1>1. Associate(a, b, c)
  BY JoinsAssociate
<1> QED
  BY <1>1 DEF Associate

LEMMA MessageBytes ==
  ASSUME NEW m \in Seq(Messages), NEW i \in 1 .. Len(m)
  PROVE  m[i].bytes \in Seq(Nat)
<1> DEFINE q == m[i].bytes
           Byte == 0 .. BYTE - 1
<1>1. Byte \subseteq Nat
  BY MgmtAssumption
<1>2. m[i] \in Messages
  OBVIOUS
<1>3. q \in Seq(Byte)
  BY <1>2 DEF Messages
<1> HIDE DEF q, Byte
<1>4. Len(q) \in Nat /\ q = [j \in 1 .. Len(q) |-> q[j]] /\ \A j \in 1 .. Len(q) : q[j] \in Byte
  BY <1>3
<1>5. q \in Seq(Nat)
  BY <1>1, <1>4
<1> QED
  BY <1>5 DEF q

\* b[i] holds the bytes of the first i messages of m.
BytesUpTo(m, b) ==
  /\ b \in [0 .. Len(m) -> Seq(Nat)] /\ b[0] = <<>>
  /\ \A i \in 1 .. Len(m) : b[i] = b[i - 1] \o m[i].bytes

LEMMA BytesUpToExists ==
  ASSUME NEW m \in Seq(Messages)
  PROVE  \E b : BytesUpTo(m, b)
<1> DEFINE n == Len(m)
           g == [i \in 1 .. n |-> [q \in Seq(Nat) |-> q \o m[i].bytes]]
<1>1. n \in Nat /\ <<>> \in Seq(Nat)
  OBVIOUS
<1>2. \A i \in 1 .. n : m[i].bytes \in Seq(Nat)
  BY MessageBytes
<1>3. Steps(n, Seq(Nat), g)
  <2>1. \A i \in 1 .. n : \A q \in Seq(Nat) : q \o m[i].bytes \in Seq(Nat)
    <3>1. ASSUME NEW i \in 1 .. n, NEW q \in Seq(Nat) PROVE q \o m[i].bytes \in Seq(Nat)
      <4> DEFINE x == m[i].bytes
      <4>1. x \in Seq(Nat)
        BY <1>2
      <4> HIDE DEF x
      <4>2. q \o x \in Seq(Nat)
        BY <4>1
      <4> QED
        BY <4>2 DEF x
    <3> QED
      BY <3>1
  <2> HIDE DEF n
  <2> QED
    BY <2>1 DEF Steps
<1>4. PICK b : Iterates(b, n, Seq(Nat), <<>>, g)
  <2> HIDE DEF g, n
  <2> QED
    BY <1>1, <1>3, RecursionExists
<1>5. /\ b \in [0 .. n -> Seq(Nat)] /\ b[0] = <<>>
      /\ \A i \in 1 .. n : b[i] = g[i][b[i - 1]]
  BY <1>4 DEF Iterates
<1>6. ASSUME NEW i \in 1 .. n PROVE b[i] = b[i - 1] \o m[i].bytes
  <2>1. b[i - 1] \in Seq(Nat)
    BY <1>1, <1>5
  <2> HIDE DEF n
  <2> QED
    BY <1>5, <2>1
<1> QED
  BY <1>5, <1>6 DEF BytesUpTo

LEMMA BytesAreUpTo ==
  ASSUME NEW m \in Seq(Messages), NEW b, BytesUpTo(m, b)
  PROVE  Bytes(m) = b[Len(m)]
<1> DEFINE n == Len(m)
           s == [i \in 1 .. Len(m) |-> m[i].bytes]
           flatten[i \in 1 .. Len(s)] ==
             IF i = 1 THEN s[i] ELSE flatten[i - 1] \o s[i]
           u == [i \in 1 .. n |-> b[i]]
           P == {i \in 0 .. n : i = 0 \/ flatten[i] = b[i]}
<1>1. n \in Nat /\ Len(s) = n /\ Bytes(m) = FlattenSeq(s)
  BY DEF Bytes
<1>2. \A i \in 1 .. n : s[i] = m[i].bytes /\ s[i] \in Seq(Nat)
  BY MessageBytes
<1>3. /\ b \in [0 .. n -> Seq(Nat)] /\ b[0] = <<>>
      /\ \A i \in 1 .. n : b[i] = b[i - 1] \o s[i]
  BY <1>2 DEF BytesUpTo
<1>4. CASE n = 0
  <2>1. s = <<>>
    BY <1>4
  <2>2. FlattenSeq(s) = s
    BY <1>1, <1>4 DEF FlattenSeq
  <2> QED
    BY <1>1, <1>3, <1>4, <2>1, <2>2
<1>5. CASE n # 0
  <2>1. FlattenSeq(s) = flatten[n]
    BY <1>1, <1>5 DEF FlattenSeq
  <2> HIDE DEF s, n
  <2>2. b[1] = s[1]
    <3>1. 1 \in 1 .. n /\ 1 - 1 = 0
      BY <1>1, <1>5
    <3>2. b[1] = <<>> \o s[1] /\ s[1] \in Seq(Nat)
      BY <1>2, <1>3, <3>1
    <3> QED
      BY <3>2
  <2>3. u = [i \in 1 .. Len(s) |-> IF i = 1 THEN s[i] ELSE u[i - 1] \o s[i]]
    <3>1. ASSUME NEW i \in 1 .. n
          PROVE  u[i] = IF i = 1 THEN s[i] ELSE u[i - 1] \o s[i]
      <4>1. CASE i = 1
        BY <2>2, <4>1
      <4>2. CASE i # 1
        <5>1. i - 1 \in 1 .. n
          BY <1>1, <4>2
        <5>2. u[i - 1] = b[i - 1] /\ u[i] = b[i]
          BY <5>1
        <5> HIDE DEF u
        <5> QED
          BY <1>3, <4>2, <5>2
      <4> QED
        BY <4>1, <4>2
    <3>2. u = [i \in 1 .. n |-> u[i]]
      OBVIOUS
    <3> HIDE DEF u
    <3> QED
      BY <1>1, <3>1, <3>2
  <2>4. flatten = [i \in 1 .. Len(s) |-> IF i = 1 THEN s[i] ELSE flatten[i - 1] \o s[i]]
    <3> HIDE DEF u
    <3> QED
      BY <2>3
  <2> HIDE DEF flatten, u
  <2>5. 0 \in P
    BY <1>1
  <2>6. ASSUME NEW i \in 0 .. n - 1, i \in P PROVE i + 1 \in P
    <3>1. i + 1 \in 1 .. n /\ i + 1 \in 0 .. n /\ (i + 1) - 1 = i
      BY <1>1
    <3>2. flatten[i + 1] = IF i + 1 = 1 THEN s[i + 1] ELSE flatten[i] \o s[i + 1]
      BY <1>1, <2>4, <3>1
    <3>3. b[i + 1] = b[i] \o s[i + 1]
      BY <1>3, <3>1
    <3>4. CASE i = 0
      BY <2>2, <3>1, <3>2, <3>4
    <3>5. CASE i # 0
      <4>1. flatten[i] = b[i] /\ i + 1 # 1
        BY <2>6, <3>5
      <4>2. flatten[i + 1] = b[i + 1]
        BY <3>2, <3>3, <4>1
      <4> QED
        BY <3>1, <4>2
    <3> QED
      BY <3>4, <3>5
  <2>7. \A i \in 0 .. n : i \in P
    <3> HIDE DEF P
    <3> QED
      BY <1>1, <2>5, <2>6, Induction
  <2>8. n \in P /\ n # 0
    BY <1>1, <1>5, <2>7
  <2>9. flatten[n] = b[n]
    BY <2>8
  <2> QED
    BY <1>1, <2>1, <2>9 DEF n
<1> QED
  BY <1>4, <1>5

(* The bytes of the first messages are extended by those of the next one.  *)
LEMMA BytesOfFirst ==
  ASSUME NEW m \in Seq(Messages), NEW b, BytesUpTo(m, b), NEW i \in 0 .. Len(m)
  PROVE  Bytes(SubSeq(m, 1, i)) = b[i]
<1> DEFINE s == SubSeq(m, 1, i)
           c == [j \in 0 .. i |-> b[j]]
<1>1. Len(m) \in Nat /\ i \in Nat /\ i <= Len(m)
  OBVIOUS
<1>2. s \in Seq(Messages) /\ Len(s) = i /\ \A j \in 1 .. i : s[j] = m[j]
  <2>1. \A j \in 1 .. i : m[j] \in Messages
    OBVIOUS
  <2>2. /\ s \in Seq(Messages) /\ Len(s) = IF 1 <= i THEN i - 1 + 1 ELSE 0
        /\ \A j \in 1 .. i - 1 + 1 : s[j] = m[1 + j - 1]
    <3> HIDE DEF s
    <3> QED
      BY <1>1, <2>1, SubSeqProperties, SMTT(30) DEF s
  <2> HIDE DEF s
  <2>3. \A j \in 1 .. i : j \in 1 .. i - 1 + 1 /\ 1 + j - 1 = j
    BY <1>1
  <2>4. Len(s) = i
    BY <1>1, <2>2
  <2> QED
    BY <2>2, <2>3, <2>4
<1>3. /\ b \in [0 .. Len(m) -> Seq(Nat)] /\ b[0] = <<>>
      /\ \A j \in 1 .. Len(m) : b[j] = b[j - 1] \o m[j].bytes
  BY DEF BytesUpTo
<1> HIDE DEF s
<1>4. BytesUpTo(s, c)
  <2>1. c \in [0 .. i -> Seq(Nat)] /\ c[0] = <<>>
    BY <1>1, <1>3
  <2>2. ASSUME NEW j \in 1 .. i PROVE c[j] = c[j - 1] \o s[j].bytes
    <3>1. j \in 1 .. Len(m) /\ j \in 0 .. i /\ j - 1 \in 0 .. i
      BY <1>1
    <3>2. c[j] = b[j] /\ c[j - 1] = b[j - 1] /\ s[j] = m[j]
      BY <1>2, <3>1
    <3> HIDE DEF c
    <3> QED
      BY <1>3, <3>1, <3>2
  <2> HIDE DEF c
  <2> QED
    BY <1>2, <2>1, <2>2 DEF BytesUpTo
<1>5. Bytes(s) = c[i]
  <2> HIDE DEF c
  <2> QED
    BY <1>2, <1>4, BytesAreUpTo
<1> QED
  BY <1>1, <1>5 DEF s

LEMMA BytesGrow ==
  ASSUME NEW m \in Seq(Messages), NEW i \in 1 .. Len(m)
  PROVE  /\ Bytes(SubSeq(m, 1, i)) = Bytes(SubSeq(m, 1, i - 1)) \o m[i].bytes
         /\ Bytes(SubSeq(m, 1, i)) \in Seq(Nat) /\ Bytes(SubSeq(m, 1, i - 1)) \in Seq(Nat)
<1>1. PICK b : BytesUpTo(m, b)
  BY BytesUpToExists
<1>2. i \in 0 .. Len(m) /\ i - 1 \in 0 .. Len(m)
  OBVIOUS
<1>3. Bytes(SubSeq(m, 1, i)) = b[i] /\ Bytes(SubSeq(m, 1, i - 1)) = b[i - 1]
  BY <1>1, <1>2, BytesOfFirst
<1>4. b[i] = b[i - 1] \o m[i].bytes /\ b[i] \in Seq(Nat) /\ b[i - 1] \in Seq(Nat)
  BY <1>1, <1>2 DEF BytesUpTo
<1> QED
  BY <1>3, <1>4

LEMMA BytesAll ==
  ASSUME NEW m \in Seq(Messages)
  PROVE  /\ SubSeq(m, 1, Len(m)) = m /\ Bytes(m) \in Seq(Nat)
         /\ Bytes(SubSeq(m, 1, 0)) = <<>>
<1>1. PICK b : BytesUpTo(m, b)
  BY BytesUpToExists
<1>2. 0 \in 0 .. Len(m) /\ Len(m) \in 0 .. Len(m)
  OBVIOUS
<1>3. Bytes(SubSeq(m, 1, 0)) = b[0] /\ Bytes(m) = b[Len(m)]
  BY <1>1, <1>2, BytesOfFirst, BytesAreUpTo
<1>4. b[0] = <<>> /\ b[Len(m)] \in Seq(Nat)
  BY <1>1, <1>2 DEF BytesUpTo
<1> QED
  BY <1>3, <1>4

(* The bytes of the first messages begin those of more messages.           *)
LEMMA BytesBegin ==
  ASSUME NEW m \in Seq(Messages), NEW i \in 0 .. Len(m), NEW j \in i .. Len(m)
  PROVE  \E x \in Seq(Nat) : Bytes(SubSeq(m, 1, j)) = Bytes(SubSeq(m, 1, i)) \o x
<1>1. PICK b : BytesUpTo(m, b)
  BY BytesUpToExists
<1>2. /\ b \in [0 .. Len(m) -> Seq(Nat)]
      /\ \A k \in 1 .. Len(m) : b[k] = b[k - 1] \o m[k].bytes
  BY <1>1 DEF BytesUpTo
<1> DEFINE d == Len(m) - i
           P == {e \in 0 .. d : \E x \in Seq(Nat) : b[i + e] = b[i] \o x}
<1>3. Len(m) \in Nat /\ i \in Nat /\ d \in Nat /\ j - i \in 0 .. d /\ i + (j - i) = j
  OBVIOUS
<1>4. 0 \in P
  <2>1. b[i] \in Seq(Nat) /\ i + 0 = i
    BY <1>2, <1>3
  <2>2. b[i + 0] = b[i] \o <<>> /\ <<>> \in Seq(Nat)
    <3> DEFINE y == b[i]
    <3>1. y \in Seq(Nat) /\ b[i + 0] = y
      BY <2>1
    <3> HIDE DEF y
    <3>2. y = y \o <<>> /\ <<>> \in Seq(Nat)
      BY <3>1
    <3> QED
      BY <3>1, <3>2 DEF y
  <2>3. \E x \in Seq(Nat) : b[i + 0] = b[i] \o x
    BY <2>2
  <2>4. 0 \in 0 .. d
    BY <1>3
  <2> HIDE DEF d
  <2> QED
    BY <2>3, <2>4
<1>5. ASSUME NEW e \in 0 .. d - 1, e \in P PROVE e + 1 \in P
  <2>1. PICK x \in Seq(Nat) : b[i + e] = b[i] \o x
    BY <1>5
  <2>2. i + (e + 1) \in 1 .. Len(m) /\ (i + (e + 1)) - 1 = i + e /\ e + 1 \in 0 .. d
    BY <1>3
  <2> DEFINE k == i + (e + 1)
             z == m[k].bytes
             y == b[i]
  <2>3. b[k] = (y \o x) \o z
    BY <1>2, <2>1, <2>2
  <2>4. z \in Seq(Nat) /\ y \in Seq(Nat)
    BY <1>2, <1>3, <2>2, MessageBytes
  <2> HIDE DEF z, y, k, d
  <2>5. (y \o x) \o z = y \o (x \o z) /\ x \o z \in Seq(Nat)
    <3>1. Associate(y, x, z) /\ x \o z \in Seq(Nat)
      BY <2>4, JoinsAssociate
    <3> QED
      BY <3>1 DEF Associate
  <2> QED
    BY <2>2, <2>3, <2>5 DEF k, y
<1>6. \A e \in 0 .. d : e \in P
  <2> HIDE DEF P, d
  <2> QED
    BY <1>3, <1>4, <1>5, Induction
<1>7. PICK x \in Seq(Nat) : b[j] = b[i] \o x
  BY <1>3, <1>6
<1>8. j \in 0 .. Len(m)
  BY <1>3
<1>9. Bytes(SubSeq(m, 1, j)) = b[j] /\ Bytes(SubSeq(m, 1, i)) = b[i]
  BY <1>1, <1>8, BytesOfFirst
<1> QED
  BY <1>7, <1>9

-----------------------------------------------------------------------------
(* Who is let in.                                                          *)

LEMMA SubSeqOfPrefix ==
  ASSUME NEW p \in Seq(Nat), NEW q \in Seq(Nat), NEW i \in Nat, NEW j \in Nat,
         i >= 1, j <= Len(p)
  PROVE  SubSeq(p \o q, i, j) = SubSeq(p, i, j)
<1> DEFINE c == p \o q
<1>1. c \in Seq(Nat) /\ Len(c) = Len(p) + Len(q) /\ \A x \in 1 .. Len(p) : c[x] = p[x]
  OBVIOUS
<1> HIDE DEF c
<1>2. Len(p) \in Nat /\ Len(q) \in Nat
  OBVIOUS
<1>3. \A x \in i .. j : x \in 1 .. Len(p) /\ c[x] \in Nat /\ p[x] \in Nat
  BY <1>1, <1>2, SMTT(30)
<1> DEFINE a == SubSeq(c, i, j)
           b == SubSeq(p, i, j)
<1>4. /\ a \in Seq(Nat) /\ Len(a) = IF i <= j THEN j - i + 1 ELSE 0
      /\ \A x \in 1 .. j - i + 1 : a[x] = c[i + x - 1]
  BY <1>3, SubSeqProperties
<1>5. /\ b \in Seq(Nat) /\ Len(b) = IF i <= j THEN j - i + 1 ELSE 0
      /\ \A x \in 1 .. j - i + 1 : b[x] = p[i + x - 1]
  BY <1>3, SubSeqProperties
<1> HIDE DEF a, b
<1>6. Len(a) = Len(b)
  BY <1>4, <1>5
<1>7. \A x \in 1 .. Len(a) : x \in 1 .. j - i + 1 /\ i + x - 1 \in 1 .. Len(p)
  BY <1>3, <1>4
<1>8. \A x \in 1 .. Len(a) : a[x] = b[x]
  BY <1>1, <1>4, <1>5, <1>7
<1>9. a = b
  BY <1>4, <1>5, <1>6, <1>8, SeqEqual
<1> QED
  BY <1>9 DEF a, b, c

(* What was recognised, or found malformed, in the bytes of a message is   *)
(* found when more bytes follow.                                           *)
LEMMA NoCodes == NeedMore.rc = 0 /\ Malformed.rc = -1
BY DEF NeedMore, Malformed, NoRequest

LEMMA JoinFacts ==
  ASSUME NEW p \in Seq(Nat), NEW q \in Seq(Nat)
  PROVE  /\ p \o q \in Seq(Nat) /\ Len(p) \in Nat /\ Len(q) \in Nat
         /\ Len(p \o q) = Len(p) + Len(q)
         /\ \A x \in 1 .. Len(p) : (p \o q)[x] = p[x] /\ p[x] \in Nat
         /\ \A i, j \in Nat : i >= 1 /\ j <= Len(p) => SubSeq(p \o q, i, j) = SubSeq(p, i, j)
<1>1. \A i, j \in Nat : i >= 1 /\ j <= Len(p) => SubSeq(p \o q, i, j) = SubSeq(p, i, j)
  BY SubSeqOfPrefix
<1> QED
  BY <1>1

LEMMA PairPrefix ==
  ASSUME NEW p \in Seq(Nat), NEW q \in Seq(Nat), NEW o \in {1, 2},
         ParsePair(p, o).rc # 0
  PROVE  ParsePair(p \o q, o) = ParsePair(p, o)
<1> DEFINE c == p \o q
           u == p[o + 1]
           v == p[o + u + 2]
           l == Len(p)
           lc == Len(c)
<1>1. /\ c \in Seq(Nat) /\ l \in Nat /\ Len(q) \in Nat /\ lc = l + Len(q)
      /\ \A x \in 1 .. l : c[x] = p[x] /\ p[x] \in Nat
      /\ \A i, j \in Nat : i >= 1 /\ j <= l => SubSeq(c, i, j) = SubSeq(p, i, j)
  BY JoinFacts
<1> HIDE DEF c, u, v, l, lc
<1>2. ParsePair(p, o) =
        IF l < o + 1 THEN NeedMore
        ELSE IF u = 0 THEN Malformed
        ELSE IF l < o + u + 2 THEN NeedMore
        ELSE IF v = 0 THEN Malformed
        ELSE IF l < o + 2 + u + v THEN NeedMore
        ELSE [NoRequest EXCEPT !.rc = o + 2 + u + v,
                !.user = CString(SubSeq(p, o + 2, o + 1 + u)),
                !.pass = CString(SubSeq(p, o + 3 + u, o + 2 + u + v))]
  <2>1. p[o + 1] = u /\ p[o + u + 2] = v
    BY DEF u, v
  <2> QED
    BY <2>1 DEF ParsePair, l
<1>3. ~(l < o + 1)
  BY <1>2, NoCodes
<1>4. o + 1 \in 1 .. l /\ u \in Nat /\ c[o + 1] = u
  <2>1. o + 1 \in 1 .. l
    BY <1>1, <1>3
  <2> QED
    BY <1>1, <2>1 DEF u
<1>5. lc \in Nat /\ l <= lc
  BY <1>1
<1>6. CASE u = 0
  <2>1. c[o + u + 2] = c[o + u + 2]
    OBVIOUS
  <2>2. ~(lc < o + 1)
    BY <1>1, <1>3, <1>5
  <2>3. ParsePair(c, o) = Malformed
    <3> DEFINE w == c[o + u + 2]
    <3>1. c[o + u + 2] = w
      OBVIOUS
    <3> HIDE DEF w
    <3> QED
      BY <1>4, <1>6, <2>2, <3>1 DEF ParsePair, lc
  <2> QED
    BY <1>2, <1>3, <1>6, <2>3 DEF c
<1>7. CASE u # 0
  <2>1. ~(l < o + u + 2)
    BY <1>2, <1>3, <1>7, NoCodes
  <2>2. o + u + 2 \in 1 .. l
    BY <1>1, <1>4, <2>1
  <2>3. v \in Nat /\ c[o + u + 2] = v
    BY <1>1, <2>2 DEF v
  <2>4. ParsePair(c, o) =
        IF lc < o + 1 THEN NeedMore
        ELSE IF u = 0 THEN Malformed
        ELSE IF lc < o + u + 2 THEN NeedMore
        ELSE IF v = 0 THEN Malformed
        ELSE IF lc < o + 2 + u + v THEN NeedMore
        ELSE [NoRequest EXCEPT !.rc = o + 2 + u + v,
                !.user = CString(SubSeq(c, o + 2, o + 1 + u)),
                !.pass = CString(SubSeq(c, o + 3 + u, o + 2 + u + v))]
    BY <1>4, <2>3 DEF ParsePair, lc
  <2>5. ~(lc < o + 1) /\ ~(lc < o + u + 2)
    BY <1>1, <1>3, <1>4, <1>5, <2>1
  <2>6. CASE v = 0
    BY <1>2, <1>3, <1>7, <2>1, <2>4, <2>5, <2>6 DEF c
  <2>7. CASE v # 0
    <3>1. ~(l < o + 2 + u + v)
      BY <1>2, <1>3, <1>7, <2>1, <2>7, NoCodes
    <3>2. ~(lc < o + 2 + u + v)
      BY <1>1, <1>4, <1>5, <2>3, <3>1
    <3>3. /\ o + 2 \in Nat /\ o + 2 >= 1 /\ o + 1 + u \in Nat /\ o + 1 + u <= l
          /\ o + 3 + u \in Nat /\ o + 3 + u >= 1 /\ o + 2 + u + v \in Nat /\ o + 2 + u + v <= l
      BY <1>1, <1>4, <2>2, <2>3, <3>1
    <3>4. SubSeq(c, o + 2, o + 1 + u) = SubSeq(p, o + 2, o + 1 + u)
      BY <1>1, <3>3
    <3>5. SubSeq(c, o + 3 + u, o + 2 + u + v) = SubSeq(p, o + 3 + u, o + 2 + u + v)
      BY <1>1, <3>3
    <3> QED
      BY <1>2, <1>3, <1>7, <2>1, <2>4, <2>5, <2>7, <3>1, <3>2, <3>4, <3>5 DEF c
  <2> QED
    BY <2>6, <2>7
<1> QED
  BY <1>6, <1>7

LEMMA AuthPrefix ==
  ASSUME NEW p \in Seq(Nat), NEW q \in Seq(Nat), parse_auth(p).rc # 0
  PROVE  parse_auth(p \o q) = parse_auth(p)
<1> DEFINE c == p \o q
<1>1. Len(p) \in Nat /\ Len(q) \in Nat /\ Len(c) = Len(p) + Len(q)
      /\ \A x \in 1 .. Len(p) : c[x] = p[x]
  BY JoinFacts
<1>2. ~(Len(p) < 2)
  BY NoCodes DEF parse_auth
<1>3. ~(Len(c) < 2) /\ c[1] = p[1]
  <2> HIDE DEF c
  <2>1. 1 \in 1 .. Len(p)
    BY <1>1, <1>2
  <2> QED
    BY <1>1, <1>2, <2>1
<1>4. CASE p[1] # SMP_VERSION
  <2> HIDE DEF c
  <2>1. parse_auth(c) = parse_auth(p)
    BY <1>2, <1>3, <1>4 DEF parse_auth
  <2> QED
    BY <2>1 DEF c
<1>5. CASE p[1] = SMP_VERSION
  <2>1. ParsePair(c, 1) = ParsePair(p, 1)
    <3>1. ParsePair(p, 1).rc # 0
      BY <1>2, <1>5 DEF parse_auth
    <3> QED
      BY <3>1, PairPrefix
  <2> HIDE DEF c
  <2>2. parse_auth(c) = parse_auth(p)
    BY <1>2, <1>3, <1>5, <2>1 DEF parse_auth
  <2> QED
    BY <2>2 DEF c
<1> QED
  BY <1>4, <1>5

LEMMA NamePrefix ==
  ASSUME NEW p \in Seq(Nat), NEW q \in Seq(Nat), ParseName(p).rc # 0
  PROVE  ParseName(p \o q) = ParseName(p)
<1> DEFINE c == p \o q
           u == p[3]
           l == Len(p)
           lc == Len(c)
<1>1. /\ l \in Nat /\ Len(q) \in Nat /\ lc = l + Len(q)
      /\ \A x \in 1 .. l : c[x] = p[x] /\ p[x] \in Nat
      /\ \A i, j \in Nat : i >= 1 /\ j <= l => SubSeq(c, i, j) = SubSeq(p, i, j)
  BY JoinFacts
<1> HIDE DEF c, u, l, lc
<1>2. ~(l < 3)
  BY NoCodes DEF ParseName, l
<1>3. u \in Nat /\ c[3] = u /\ ~(lc < 3)
  <2>1. 3 \in 1 .. l
    BY <1>1, <1>2
  <2> QED
    BY <1>1, <1>2, <2>1 DEF u
<1>4. ASSUME NEW s \in {p, c}, NEW x \in Nat, x = Len(s), ~(x < 3), s[3] = u
      PROVE  ParseName(s) = IF u = 0 THEN Malformed
                            ELSE IF x < 3 + u THEN NeedMore
                            ELSE [NoRequest EXCEPT !.rc = 3 + u,
                                    !.user = CString(SubSeq(s, 4, 3 + u))]
  BY <1>4 DEF ParseName
<1>5. /\ ParseName(p) = IF u = 0 THEN Malformed
                        ELSE IF l < 3 + u THEN NeedMore
                        ELSE [NoRequest EXCEPT !.rc = 3 + u,
                                !.user = CString(SubSeq(p, 4, 3 + u))]
      /\ ParseName(c) = IF u = 0 THEN Malformed
                        ELSE IF lc < 3 + u THEN NeedMore
                        ELSE [NoRequest EXCEPT !.rc = 3 + u,
                                !.user = CString(SubSeq(c, 4, 3 + u))]
  <2>1. p \in {p, c} /\ l \in Nat /\ l = Len(p) /\ p[3] = u
    BY <1>1 DEF l, u
  <2>2. c \in {p, c} /\ lc \in Nat /\ lc = Len(c)
    BY <1>1 DEF lc
  <2> QED
    BY <1>2, <1>3, <1>4, <2>1, <2>2
<1>6. CASE u = 0
  BY <1>5, <1>6 DEF c
<1>7. CASE u # 0
  <2>1. ~(l < 3 + u)
    BY <1>5, <1>7, NoCodes
  <2>2. ~(lc < 3 + u) /\ 4 \in Nat /\ 4 >= 1 /\ 3 + u \in Nat /\ 3 + u <= l
    BY <1>1, <1>3, <2>1
  <2>3. SubSeq(c, 4, 3 + u) = SubSeq(p, 4, 3 + u)
    BY <1>1, <2>2
  <2> QED
    BY <1>5, <1>7, <2>1, <2>2, <2>3 DEF c
<1> QED
  BY <1>6, <1>7

LEMMA SettingPrefix ==
  ASSUME NEW p \in Seq(Nat), NEW q \in Seq(Nat), ParseSetting(p).rc # 0
  PROVE  ParseSetting(p \o q) = ParseSetting(p)
<1> DEFINE c == p \o q
           width == IF p[3] = CFG_AUTH_REQUIRED THEN 1 ELSE 4
           l == Len(p)
           lc == Len(c)
<1>1. /\ l \in Nat /\ Len(q) \in Nat /\ lc = l + Len(q)
      /\ \A x \in 1 .. l : c[x] = p[x] /\ p[x] \in Nat
      /\ \A i, j \in Nat : i >= 1 /\ j <= l => SubSeq(c, i, j) = SubSeq(p, i, j)
  BY JoinFacts
<1>2. width \in {1, 4}
  OBVIOUS
<1>3. ~(l < 3 \/ l < 3 + width)
  BY NoCodes DEF ParseSetting
<1> HIDE DEF c, l, lc
<1>4. c[3] = p[3]
  <2>1. 3 \in 1 .. l
    BY <1>1, <1>3
  <2> QED
    BY <1>1, <2>1
<1>5. ParseSetting(p) = [NoRequest EXCEPT !.rc = 3 + width, !.key = p[3],
                           !.value = Number(SubSeq(p, 4, 3 + width))]
  BY <1>3 DEF ParseSetting, l
<1>6. ~(lc < 3 \/ lc < 3 + width)
  <2> HIDE DEF width
  <2> QED
    BY <1>1, <1>2, <1>3
<1>7. ParseSetting(c) = [NoRequest EXCEPT !.rc = 3 + width, !.key = c[3],
                           !.value = Number(SubSeq(c, 4, 3 + width))]
  BY <1>4, <1>6 DEF ParseSetting, lc
<1>8. SubSeq(c, 4, 3 + width) = SubSeq(p, 4, 3 + width)
  <2>1. 4 \in Nat /\ 4 >= 1 /\ 3 + width \in Nat /\ 3 + width <= l
    <3> HIDE DEF width
    <3> QED
      BY <1>1, <1>2, <1>3
  <2> HIDE DEF width
  <2> QED
    BY <1>1, <2>1
<1> DEFINE v == Number(SubSeq(p, 4, 3 + width))
<1>9. Number(SubSeq(c, 4, 3 + width)) = v
  BY <1>8
<1>10. /\ ParseSetting(p) = [NoRequest EXCEPT !.rc = 3 + width, !.key = p[3], !.value = v]
       /\ ParseSetting(c) = [NoRequest EXCEPT !.rc = 3 + width, !.key = p[3], !.value = v]
  <2> HIDE DEF width
  <2> QED
    BY <1>4, <1>5, <1>7, <1>9
<1> HIDE DEF v, width
<1> QED
  BY <1>10 DEF c

LEMMA RequestPrefix ==
  ASSUME NEW p \in Seq(Nat), NEW q \in Seq(Nat), parse_request(p).rc # 0
  PROVE  parse_request(p \o q) = parse_request(p)
<1> DEFINE c == p \o q
           args(s) == CASE p[2] \in {METRICS, LIST_USERS, GET_CONFIG} ->
                            [NoRequest EXCEPT !.rc = 2]
                        [] p[2] = ADD_USER   -> ParsePair(s, 2)
                        [] p[2] = DEL_USER   -> ParseName(s)
                        [] p[2] = SET_CONFIG -> ParseSetting(s)
                        [] OTHER             -> [NoRequest EXCEPT !.rc = -2]
           a == args(p)
           e == args(c)
<1>1. Len(p) \in Nat /\ Len(q) \in Nat /\ Len(c) = Len(p) + Len(q)
      /\ \A x \in 1 .. Len(p) : c[x] = p[x]
  BY JoinFacts
<1>2. ~(Len(p) < 2)
  BY NoCodes DEF parse_request
<1>3. ~(Len(c) < 2) /\ c[1] = p[1] /\ c[2] = p[2]
  <2> HIDE DEF c
  <2>1. 1 \in 1 .. Len(p) /\ 2 \in 1 .. Len(p)
    BY <1>1, <1>2
  <2> QED
    BY <1>1, <1>2, <2>1
<1>4. CASE p[1] # SMP_VERSION
  <2> HIDE DEF c
  <2>1. parse_request(c) = parse_request(p)
    BY <1>2, <1>3, <1>4 DEF parse_request
  <2> QED
    BY <2>1 DEF c
<1>5. CASE p[1] = SMP_VERSION
  <2>1. parse_request(p) = [a EXCEPT !.cmd = p[2]]
    BY <1>2, <1>5 DEF parse_request
  <2>2. parse_request(c) = [e EXCEPT !.cmd = p[2]]
    <3> HIDE DEF c
    <3> QED
      BY <1>3, <1>5 DEF parse_request
  <2>3. a.rc # 0
    <3>1. GoodRequest(a, p)
      <4>1. ParsePair(p, 2) = a \/ ParseName(p) = a \/ ParseSetting(p) = a
            \/ a = [NoRequest EXCEPT !.rc = 2] \/ a = [NoRequest EXCEPT !.rc = -2]
        BY DEF METRICS, LIST_USERS, GET_CONFIG, ADD_USER, DEL_USER, SET_CONFIG
      <4>2. /\ 2 \in Int /\ -2 <= 2 /\ 2 <= Len(p)
            /\ -2 \in Int /\ -2 <= -2 /\ -2 <= Len(p) /\ 2 \in {1, 2}
        BY <1>1, <1>2
      <4> HIDE DEF a
      <4> QED
        BY <4>1, <4>2, NoRequestGood, ParsePairGood, ParseNameGood, ParseSettingGood
    <3> HIDE DEF a
    <3>2. a = [rc |-> a.rc, cmd |-> a.cmd, user |-> a.user, pass |-> a.pass,
               key |-> a.key, value |-> a.value]
      BY <3>1 DEF GoodRequest
    <3> DEFINE z == p[2]
    <3> HIDE DEF z
    <3>3. [a EXCEPT !.cmd = z].rc = a.rc
      BY ONLY <3>2
    <3> QED
      BY <2>1, <3>3 DEF z
  <2>4. e = a
    <3>1. p[2] = ADD_USER => e = a
      <4>1. ASSUME p[2] = ADD_USER PROVE e = a
        <5>1. a = ParsePair(p, 2) /\ e = ParsePair(c, 2)
          BY <4>1 DEF METRICS, LIST_USERS, GET_CONFIG, ADD_USER, DEL_USER, SET_CONFIG
        <5> HIDE DEF a, e
        <5> QED
          BY <2>3, <5>1, PairPrefix
      <4> QED
        BY <4>1
    <3>2. p[2] = DEL_USER => e = a
      <4>1. ASSUME p[2] = DEL_USER PROVE e = a
        <5>1. a = ParseName(p) /\ e = ParseName(c)
          BY <4>1 DEF METRICS, LIST_USERS, GET_CONFIG, ADD_USER, DEL_USER, SET_CONFIG
        <5> HIDE DEF a, e
        <5> QED
          BY <2>3, <5>1, NamePrefix
      <4> QED
        BY <4>1
    <3>3. p[2] = SET_CONFIG => e = a
      <4>1. ASSUME p[2] = SET_CONFIG PROVE e = a
        <5>1. a = ParseSetting(p) /\ e = ParseSetting(c)
          BY <4>1 DEF METRICS, LIST_USERS, GET_CONFIG, ADD_USER, DEL_USER, SET_CONFIG
        <5> HIDE DEF a, e
        <5> QED
          BY <2>3, <5>1, SettingPrefix
      <4> QED
        BY <4>1
    <3>4. p[2] \notin {ADD_USER, DEL_USER, SET_CONFIG} => e = a
      BY DEF METRICS, LIST_USERS, GET_CONFIG, ADD_USER, DEL_USER, SET_CONFIG
    <3> QED
      BY <3>1, <3>2, <3>3, <3>4
  <2> QED
    BY <2>1, <2>2, <2>4
<1> QED
  BY <1>4, <1>5

LEMMA AuthBytesPrefix ==
  ASSUME NEW p \in Seq(Nat), NEW q \in Seq(Nat), NEW a, AuthBytes(p, a)
  PROVE  AuthBytes(p \o q, a)
<1>1. parse_auth(p).rc # 0
  BY DEF AuthBytes
<1> QED
  BY <1>1, AuthPrefix DEF AuthBytes

LEMMA ClosedAccess ==
  ASSUME NEW q, NEW n, NEW o, NEW a, AuthBytes(q, a) \/ (o \in Seq(Nat) /\ Len(o) <= 2)
  PROVE  Access(Closed, q, n, o, a)
<1> DEFINE w == buffer_init(MGMT_WBUF)
<1>1. w \in BufferOf(Nat, MGMT_WBUF) /\ w.bytes = <<>> /\ Len(w.bytes) = 0
  <2>1. <<>> \in Seq(Nat) /\ Len(<<>>) = 0
    OBVIOUS
  <2> QED
    BY <2>1, MgmtAssumption DEF buffer_init, BufferOf
<1> HIDE DEF w
<1>2. Closed.state = "closed" /\ Closed.interest = {} /\ Closed.wbuf = w
  BY DEF Closed, NewConn, w
<1>3. o \in Seq(Nat) => Len(o) \in Nat
  OBVIOUS
<1>4. o \in Seq(Nat) /\ Len(o) <= 2 => Len(o) + Len(w.bytes) <= 2
  BY <1>1, <1>3
<1> QED
  BY <1>1, <1>2, <1>4 DEF Access, Mode

LEMMA ReplyFits ==
  ASSUME NEW b \in BufferOf(Nat, MGMT_WBUF), NEW resp \in Seq(Nat), Len(resp) <= MGMT_WBUF
  PROVE  LET w == buffer_write(buffer_reset(b), resp)
         IN  w \in BufferOf(Nat, MGMT_WBUF) /\ w.bytes = resp
<1> DEFINE e == buffer_reset(b)
<1>1. MGMT_WBUF \in Nat
  BY MgmtAssumption
<1>2. e = [b EXCEPT !.read = 0, !.bytes = <<>>] /\ e.bytes = <<>>
  BY DEF buffer_reset, BufferOf
<1>3. b \in [size : {MGMT_WBUF}, read : Nat, bytes : Seq(Nat)]
  BY <1>1, BufferFields
<1>4. e \in [size : {MGMT_WBUF}, read : {0}, bytes : {<<>>}]
  <2> HIDE DEF e
  <2> QED
    BY <1>2, <1>3
<1> HIDE DEF e
<1>5. e \in [size : {MGMT_WBUF}, read : Nat, bytes : Seq(Nat)] /\ e.read + Len(e.bytes) <= MGMT_WBUF
  <2>1. <<>> \in Seq(Nat) /\ Len(<<>>) = 0
    OBVIOUS
  <2>2. e.read = 0 /\ e.bytes = <<>>
    BY <1>4
  <2>3. Len(e.bytes) = 0
    BY <2>1, <2>2
  <2>4. e \in [size : {MGMT_WBUF}, read : Nat, bytes : Seq(Nat)]
    <3> DEFINE S == {<<>>}
               T == Seq(Nat)
    <3>1. S \subseteq T /\ {0} \subseteq Nat
      BY <2>1
    <3>2. e \in [size : {MGMT_WBUF}, read : {0}, bytes : S]
      BY <1>4
    <3> HIDE DEF S, T
    <3>3. e \in [size : {MGMT_WBUF}, read : Nat, bytes : T]
      BY <3>1, <3>2
    <3> QED
      BY <3>3 DEF T
  <2>5. e.read + Len(e.bytes) <= MGMT_WBUF
    BY <1>1, <2>2, <2>3
  <2> QED
    BY <2>4, <2>5
<1>6. e \in BufferOf(Nat, MGMT_WBUF)
  BY <1>1, <1>5, BufferIn
<1>7. WriteSpace(e) = MGMT_WBUF
  <2>1. Len(<<>>) = 0
    OBVIOUS
  <2> QED
    BY <1>1, <1>4, <2>1 DEF WriteSpace
<1>8. Len(resp) <= WriteSpace(e)
  BY <1>7
<1>9. buffer_write(e, resp) = buffer_write_adv(e, resp)
  BY <1>8 DEF buffer_write
<1>10. <<>> \o resp = resp
  OBVIOUS
<1>11. /\ buffer_write_adv(e, resp) \in BufferOf(Nat, MGMT_WBUF)
       /\ buffer_write_adv(e, resp).bytes = e.bytes \o resp
  BY <1>1, <1>6, <1>8, WriteAdvFits
<1> QED
  BY <1>2, <1>9, <1>10, <1>11 DEF e

(* The answer to an authentication lets in whoever sent the credentials of *)
(* the administrator, and closes the connection of anybody else.           *)
LEMMA ProcessAuthAccess ==
  ASSUME NEW c, GoodMgmt(c), NEW q \in Seq(Nat), NEW n \in 0 .. Len(q), NEW o,
         c.state = "AUTH", Access(c, q, n, o, cfg.admin)
  PROVE  Access(ProcessAuth(c).conn, q, n, o, cfg.admin)
<1> DEFINE p == c.rbuf.bytes
           r == parse_auth(p)
           ok == r.user = cfg.admin.name /\ r.pass = cfg.admin.pass
           nok == ~ok
           resp == <<SMP_VERSION, IF ok THEN 0 ELSE 1>>
           a == Answers(c, r.rc, resp, "AUTH_REPLY")
           a1 == [a EXCEPT !.auth_ok = ok]
           a2 == [a1 EXCEPT !.close_after_write = nok]
<1>1. /\ p = SubSeq(q, 1, n) /\ p \in Seq(Nat) /\ o = <<>>
      /\ c.wbuf \in BufferOf(Nat, MGMT_WBUF)
  BY DEF Access, GoodMgmt, BufferOf
<1>2. o \in Seq(Nat) /\ Len(o) = 0
  BY <1>1
<1> HIDE DEF p
<1>3. GoodRequest(r, p)
  BY <1>1, NoRequestGood, ParsePairGood DEF parse_auth
<1>4. r.rc \in Int /\ r.rc <= Len(p)
  BY <1>3 DEF GoodRequest
<1>5. ProcessAuth(c) = CASE r.rc = 0 -> Left(c, db, cfg)
                         [] r.rc < 0 -> mgmt_done
                         [] r.rc > 0 -> Left(a2, db, cfg)
  BY DEF ProcessAuth, p
<1>6. ASSUME r.rc > 0 PROVE Access(a2, q, n, o, cfg.admin)
  <2>1. r.rc \in 0 .. Len(c.rbuf.bytes)
    BY <1>1, <1>4, <1>6 DEF p
  <2>2. resp \in Seq(Nat) /\ Len(resp) <= MGMT_WBUF /\ Len(resp) = 2
    BY MgmtAssumption DEF SMP_VERSION
  <2>3. ok => AuthBytes(q, cfg.admin)
    <3>1. AuthBytes(p, cfg.admin) => AuthBytes(q, cfg.admin)
      <4> DEFINE rest == SubSeq(q, n + 1, Len(q))
      <4>1. rest \in Seq(Nat) /\ p \o rest = q
        BY <1>1, CutSeq
      <4> HIDE DEF rest
      <4> QED
        BY <1>1, <4>1, AuthBytesPrefix
    <3> QED
      BY <1>6, <3>1 DEF AuthBytes
  <2>4. nok <=> ~ok
    OBVIOUS
  <2> HIDE DEF r, resp
  <2>5. /\ GoodMgmt(a) /\ a.state = "AUTH_REPLY" /\ a.interest = {"OP_WRITE"}
        /\ a.wbuf \in BufferOf(Nat, MGMT_WBUF) /\ Len(a.wbuf.bytes) = 2
    <3>1. /\ GoodMgmt(a) /\ a.state = "AUTH_REPLY" /\ a.interest = {"OP_WRITE"}
          /\ a.wbuf = buffer_write(buffer_reset(c.wbuf), resp)
      BY <2>1, AnswersGood
    <3> HIDE DEF a
    <3>2. resp \in Seq(Nat) /\ Len(resp) <= MGMT_WBUF /\ Len(resp) = 2
      BY <2>2
    <3>3. a.wbuf \in BufferOf(Nat, MGMT_WBUF) /\ a.wbuf.bytes = resp
      <4>1. c.wbuf \in BufferOf(Nat, MGMT_WBUF)
        BY <1>1
      <4> QED
        BY ONLY <3>1, <3>2, <4>1, ReplyFits, ZenonT(40)
    <3> QED
      BY <3>1, <3>2, <3>3
  <2> HIDE DEF a
  <2>6. ASSUME NEW x, NEW y
        PROVE  LET e == [[a EXCEPT !.auth_ok = x] EXCEPT !.close_after_write = y]
               IN  /\ e.state = "AUTH_REPLY" /\ e.interest = {"OP_WRITE"}
                   /\ e.wbuf = a.wbuf /\ e.close_after_write = y
    <3> DEFINE e1 == [a EXCEPT !.auth_ok = x]
    <3>1. /\ e1.state = "AUTH_REPLY" /\ e1.interest = {"OP_WRITE"} /\ e1.wbuf = a.wbuf
          /\ GoodMgmt(e1)
      BY <2>5 DEF GoodMgmt
    <3> HIDE DEF e1
    <3>2. LET e == [e1 EXCEPT !.close_after_write = y]
          IN  /\ e.state = "AUTH_REPLY" /\ e.interest = {"OP_WRITE"}
              /\ e.wbuf = a.wbuf /\ e.close_after_write = y
      BY <3>1 DEF GoodMgmt
    <3> QED
      BY <3>2 DEF e1
  <2>7. /\ a2.state = "AUTH_REPLY" /\ a2.interest = {"OP_WRITE"} /\ a2.wbuf = a.wbuf
        /\ ok \/ a2.close_after_write = TRUE
    <3>1. CASE ok
      <4> DEFINE x == ok
                 y == nok
      <4> HIDE DEF ok, nok
      <4> QED
        BY <2>6, <3>1
    <3>2. CASE ~ok
      <4>1. nok = TRUE
        BY <3>2
      <4> HIDE DEF ok, nok
      <4> QED
        BY <2>6, <4>1
    <3> QED
      BY <3>1, <3>2
  <2>8. Len(o) + Len(a2.wbuf.bytes) <= 2
    <3>1. a2.wbuf = a.wbuf
      BY <2>7
    <3>2. Len(a2.wbuf.bytes) = 2
      <4> HIDE DEF a2
      <4> QED
        BY <2>5, <3>1
    <3> HIDE DEF a2
    <3> QED
      BY <1>2, <3>2
  <2> HIDE DEF a2, ok, nok
  <2> QED
    BY <1>2, <2>3, <2>5, <2>7, <2>8 DEF Access, Mode
<1>7. Access(Closed, q, n, o, cfg.admin)
  <2>1. o \in Seq(Nat) /\ Len(o) <= 2
    BY <1>2
  <2> QED
    BY <2>1, ClosedAccess
<1> HIDE DEF r, a2
<1>8. r.rc = 0 \/ r.rc < 0 \/ r.rc > 0
  BY <1>4
<1> QED
  BY <1>4, <1>5, <1>6, <1>7, <1>8 DEF Left, mgmt_done

LEMMA ProcessReqAccess ==
  ASSUME NEW c, GoodMgmt(c), NEW q, NEW n, NEW o,
         c.state = "REQUEST", Access(c, q, n, o, cfg.admin)
  PROVE  Access(ProcessRequest(c).conn, q, n, o, cfg.admin)
<1> DEFINE p == c.rbuf.bytes
           r == parse_request(p)
           w == process_request(r, db, cfg)
           u == Answers(c, 2, resp_simple(r.cmd, UNKNOWN_COMMAND), "RESPONSE")
           a == Answers(c, r.rc, w.resp, "RESPONSE")
<1>0. AuthBytes(q, cfg.admin)
  BY DEF Access
<1>1. p \in Seq(Nat) /\ Len(p) \in Nat
  BY DEF GoodMgmt, BufferOf
<1> HIDE DEF p
<1>2. GoodRequest(r, p) /\ (r.rc = -2 => Len(p) >= 2)
  BY <1>1, ParseRequestGood
<1>3. r.rc \in Int /\ -2 <= r.rc /\ r.rc <= Len(p)
  BY <1>2 DEF GoodRequest
<1>4. ProcessRequest(c) = CASE r.rc = 0  -> Left(c, db, cfg)
                            [] r.rc = -1 -> mgmt_done
                            [] r.rc = -2 -> Left(u, db, cfg)
                            [] r.rc > 0  -> Left(a, w.db, w.cfg)
  BY DEF ProcessRequest, p
<1>5. ASSUME NEW e, e.state = "RESPONSE", e.interest = {"OP_WRITE"}
      PROVE  Access(e, q, n, o, cfg.admin)
  BY <1>0, <1>5 DEF Access, Mode
<1>6. r.rc = -2 => u.state = "RESPONSE" /\ u.interest = {"OP_WRITE"}
  <2> DEFINE resp == resp_simple(r.cmd, UNKNOWN_COMMAND)
  <2>1. r.rc = -2 => 2 \in 0 .. Len(c.rbuf.bytes)
    BY <1>1, <1>2 DEF p
  <2> HIDE DEF resp, r
  <2> QED
    BY <2>1, AnswersGood DEF resp
<1>7. r.rc > 0 => a.state = "RESPONSE" /\ a.interest = {"OP_WRITE"}
  <2>1. r.rc > 0 => r.rc \in 0 .. Len(c.rbuf.bytes)
    BY <1>1, <1>3 DEF p
  <2> HIDE DEF w, r
  <2> QED
    BY <2>1, AnswersGood
<1>8. r.rc \in {0, -1, -2} \/ r.rc > 0
  BY <1>3
<1>9. Access(Closed, q, n, o, cfg.admin)
  BY <1>0, ClosedAccess
<1> HIDE DEF r, a, u
<1> QED
  BY <1>3, <1>4, <1>5, <1>6, <1>7, <1>8, <1>9 DEF Left, mgmt_done

LEMMA TryProcessAccess ==
  ASSUME NEW c, GoodMgmt(c), NEW q \in Seq(Nat), NEW n \in 0 .. Len(q), NEW o,
         Access(c, q, n, o, cfg.admin)
  PROVE  Access(mgmt_try_process(c).conn, q, n, o, cfg.admin)
BY ProcessAuthAccess, ProcessReqAccess DEF mgmt_try_process, Left

-----------------------------------------------------------------------------
(* The steps of the server.                                                *)

\* What a step of connection k may do.
StepGood(k) ==
  /\ ClientInv' /\ DirectoryStep(AsMap(db), AsMap(db'))
  /\ <<db, cfg>>' # <<db, cfg>> =>
       AuthBytes(sent[k], cfg.admin) /\ Consumed(k)' > Consumed(k)

LEMMA LeavesGood ==
  ASSUME ClientInv, NEW k \in MConns, NEW left, NEW n, NEW o,
         Leaves(k, left), sent' = sent,
         pos' = [pos EXCEPT ![k] = n], out' = [out EXCEPT ![k] = o],
         n \in 0 .. Len(sent[k]), GoodMgmt(left.conn), IsTable(left.db),
         DirectoryStep(AsMap(db), AsMap(left.db)),
         GoodConfig(left.cfg), left.cfg.admin = cfg.admin,
         Access(left.conn, sent[k], n, o, cfg.admin)
  PROVE  /\ ClientInv' /\ DirectoryStep(AsMap(db), AsMap(db'))
         /\ mc'[k] = left.conn /\ pos'[k] = n
<1>1. mc = [i \in MConns |-> mc[i]] /\ \A i \in MConns : GoodMgmt(mc[i])
  BY DEF ClientInv, ConnsGood
<1>2. /\ sent \in [MConns -> Seq(Nat)] /\ pos \in [MConns -> Nat]
      /\ out = [i \in MConns |-> out[i]]
      /\ \A i \in MConns : pos[i] <= Len(sent[i])
  BY DEF ClientInv, StreamsGood
<1>3. \A i \in MConns : Access(mc[i], sent[i], pos[i], out[i], cfg.admin)
  BY DEF ClientInv, AccessGood
<1>4. mc' = [mc EXCEPT ![k] = left.conn] /\ db' = left.db /\ cfg' = left.cfg
  BY DEF Leaves
<1>5. /\ mc' = [i \in MConns |-> mc'[i]] /\ mc'[k] = left.conn
      /\ \A i \in MConns : i # k => mc'[i] = mc[i]
  BY <1>1, <1>4
<1>6. n \in Nat /\ n <= Len(sent[k])
  BY <1>2
<1>7. /\ pos' \in [MConns -> Nat] /\ pos'[k] = n
      /\ \A i \in MConns : i # k => pos'[i] = pos[i]
  BY <1>2, <1>6
<1>8. /\ out' = [i \in MConns |-> out'[i]] /\ out'[k] = o
      /\ \A i \in MConns : i # k => out'[i] = out[i]
  BY <1>2
<1>9. IsTable(db)' /\ GoodConfig(cfg)'
  BY <1>4 DEF IsTable, GoodConfig
<1>10. ConnsGood'
  <2>1. \A i \in MConns : GoodMgmt(mc'[i])
    BY <1>1, <1>5
  <2> QED
    BY <1>5, <2>1 DEF ConnsGood, GoodMgmt
<1>11. StreamsGood'
  <2>1. \A i \in MConns : pos'[i] <= Len(sent'[i])
    BY <1>2, <1>6, <1>7
  <2> QED
    BY <1>2, <1>7, <1>8, <2>1 DEF StreamsGood
<1>12. AccessGood'
  <2>1. ASSUME NEW i \in MConns
        PROVE  Access(mc'[i], sent'[i], pos'[i], out'[i], cfg'.admin)
    <3>1. CASE i = k
      BY <1>4, <1>5, <1>7, <1>8, <3>1
    <3>2. CASE i # k
      BY <1>3, <1>4, <1>5, <1>7, <1>8, <3>2
    <3> QED
      BY <3>1, <3>2
  <2> QED
    BY <2>1 DEF AccessGood
<1> QED
  BY <1>4, <1>5, <1>7, <1>9, <1>10, <1>11, <1>12 DEF ClientInv

\* A handler that changes neither users nor configuration, nor what was received.
LEMMA LeavesConn ==
  ASSUME ClientInv, NEW k \in MConns, NEW e,
         Leaves(k, Left(e, db, cfg)), UNCHANGED <<sent, pos, out>>,
         GoodMgmt(e), Access(e, sent[k], pos[k], out[k], cfg.admin)
  PROVE  StepGood(k)
<1> DEFINE left == Left(e, db, cfg)
<1>1. left.conn = e /\ left.db = db /\ left.cfg = cfg
  BY DEF Left
<1> HIDE DEF left
<1>2. IsTable(db) /\ GoodConfig(cfg) /\ DirectoryStep(AsMap(db), AsMap(db))
  BY DEF ClientInv, DirectoryStep
<1>3. pos \in [MConns -> Nat] /\ out = [i \in MConns |-> out[i]] /\ sent[k] \in Seq(Nat)
      /\ pos[k] <= Len(sent[k])
  BY DEF ClientInv, StreamsGood
<1>4. pos[k] \in 0 .. Len(sent[k])
  BY <1>3
<1>5. pos' = [pos EXCEPT ![k] = pos[k]]
  BY <1>3
<1>6. out' = out /\ Leaves(k, left)
  BY DEF left
<1>7. ClientInv' /\ DirectoryStep(AsMap(db), AsMap(db'))
  <2>1. out' = [out EXCEPT ![k] = out[k]]
    BY <1>3, <1>6
  <2> QED
    BY <1>1, <1>2, <1>4, <1>5, <1>6, <2>1, LeavesGood
<1>8. <<db, cfg>>' = <<db, cfg>>
  BY <1>1, <1>6 DEF Leaves
<1> QED
  BY <1>7, <1>8 DEF StepGood

LEMMA Here ==
  ASSUME ClientInv, NEW k \in MConns
  PROVE  /\ GoodMgmt(mc[k]) /\ Access(mc[k], sent[k], pos[k], out[k], cfg.admin)
         /\ sent[k] \in Seq(Nat) /\ Len(sent[k]) \in Nat /\ pos[k] \in 0 .. Len(sent[k])
         /\ IsTable(db) /\ GoodConfig(cfg)
         /\ AuthBytes(sent[k], cfg.admin) \/ (out[k] \in Seq(Nat) /\ Len(out[k]) <= 2)
<1>1. GoodMgmt(mc[k]) /\ Access(mc[k], sent[k], pos[k], out[k], cfg.admin)
  BY DEF ClientInv, ConnsGood, AccessGood
<1>2. /\ sent[k] \in Seq(Nat) /\ Len(sent[k]) \in Nat /\ pos[k] \in 0 .. Len(sent[k])
      /\ IsTable(db) /\ GoodConfig(cfg)
  BY DEF ClientInv, StreamsGood
<1>3. ASSUME ~AuthBytes(sent[k], cfg.admin)
      PROVE  out[k] \in Seq(Nat) /\ Len(out[k]) <= 2
  <2> DEFINE b == mc[k].wbuf
             o == out[k]
  <2>1. o \in Seq(Nat) /\ b \in BufferOf(Nat, MGMT_WBUF) /\ Len(o) + Len(b.bytes) <= 2
    BY <1>1, <1>3 DEF Access
  <2>2. MGMT_WBUF \in Nat
    BY MgmtAssumption
  <2> HIDE DEF b, o
  <2>3. Len(b.bytes) \in Nat
    BY <2>1, <2>2, BufferFields
  <2>4. Len(o) \in Nat
    BY <2>1
  <2>5. Len(o) <= 2
    BY <2>1, <2>3, <2>4
  <2> QED
    BY <2>1, <2>5 DEF o
<1> QED
  BY <1>1, <1>2, <1>3

LEMMA AcceptGood ==
  ASSUME ClientInv, NEW k \in MConns, mgmt_passive_accept(k)
  PROVE  StepGood(k)
<1> DEFINE w == buffer_init(MGMT_WBUF)
<1>1. mc[k].state = "backlog" /\ sent' = sent /\ UNCHANGED <<sent, pos, out>>
  BY DEF mgmt_passive_accept
<1>2. PICK e \in {NewConn, Closed} : Leaves(k, Left(e, db, cfg))
  BY DEF mgmt_passive_accept
<1>3. GoodMgmt(e)
  BY ClosedGood
<1>4. out[k] = <<>> /\ pos[k] = 0
  BY <1>1, Here DEF Access
<1>5. w \in BufferOf(Nat, MGMT_WBUF) /\ w.bytes = <<>>
  <2>1. <<>> \in Seq(Nat) /\ Len(<<>>) = 0
    OBVIOUS
  <2> QED
    BY <2>1, MgmtAssumption DEF buffer_init, BufferOf
<1> HIDE DEF w
<1>6. /\ NewConn.state = "AUTH" /\ NewConn.interest = {"OP_READ"} /\ NewConn.wbuf = w
      /\ NewConn.rbuf = buffer_init(MGMT_RBUF)
  BY DEF NewConn, w
<1>7. NewConn.rbuf.bytes = <<>>
  BY <1>6 DEF buffer_init
<1>8. SubSeq(sent[k], 1, 0) = <<>>
  BY Here
<1>9. <<>> \in Seq(Nat) /\ Len(<<>>) = 0 /\ Len(<<>>) + Len(<<>>) <= 2
  OBVIOUS
<1>10. Access(NewConn, sent[k], pos[k], out[k], cfg.admin)
  <2> DEFINE c == NewConn
             o == out[k]
             z == <<>>
             q == sent[k]
  <2>1. /\ c.state = "AUTH" /\ c.interest = {"OP_READ"} /\ o = z
        /\ c.rbuf.bytes = SubSeq(q, 1, pos[k]) /\ c.wbuf \in BufferOf(Nat, MGMT_WBUF)
        /\ c.wbuf.bytes = z /\ z = <<>>
    BY <1>4, <1>5, <1>6, <1>7, <1>8
  <2>2. o \in Seq(Nat) /\ Len(o) + Len(c.wbuf.bytes) <= 2
    BY <1>9, <2>1
  <2> HIDE DEF c, o, q
  <2>3. Access(c, q, pos[k], o, cfg.admin)
    BY <2>1, <2>2 DEF Access, Mode
  <2> QED
    BY <2>3 DEF c, o, q
<1>11. Access(Closed, sent[k], pos[k], out[k], cfg.admin)
  BY Here, ClosedAccess
<1> QED
  BY <1>1, <1>2, <1>3, <1>10, <1>11, LeavesConn

LEMMA LostGood ==
  ASSUME ClientInv, NEW k \in MConns, mgmt_lost(k)
  PROVE  StepGood(k)
<1>1. Leaves(k, Left(Closed, db, cfg)) /\ UNCHANGED <<sent, pos, out>>
  BY DEF mgmt_lost, mgmt_done
<1>2. Access(Closed, sent[k], pos[k], out[k], cfg.admin)
  BY Here, ClosedAccess
<1> QED
  BY <1>1, <1>2, ClosedGood, LeavesConn

LEMMA JoinLen ==
  ASSUME NEW a \in Seq(Nat), NEW b \in Seq(Nat)
  PROVE  Len(a \o b) = Len(a) + Len(b) /\ Len(a) \in Nat
OBVIOUS

\* The connection c is k with its next n bytes in the request buffer.
Gained(c, k, n) ==
  /\ n \in Nat /\ n > 0 /\ pos[k] + n \in 0 .. Len(sent[k])
  /\ GoodMgmt(c) /\ c.state = mc[k].state /\ c.interest = mc[k].interest
  /\ c.wbuf = mc[k].wbuf /\ c.close_after_write = mc[k].close_after_write
  /\ c.rbuf.read = mc[k].rbuf.read
  /\ SubSeq(sent[k], pos[k] + 1, pos[k] + n) \in Seq(Nat)
  /\ c.rbuf.bytes = mc[k].rbuf.bytes \o SubSeq(sent[k], pos[k] + 1, pos[k] + n)
  /\ SubSeq(sent[k], 1, pos[k] + n) =
       SubSeq(sent[k], 1, pos[k]) \o SubSeq(sent[k], pos[k] + 1, pos[k] + n)
  /\ Len(c.rbuf.bytes) = Len(mc[k].rbuf.bytes) + n /\ Len(mc[k].rbuf.bytes) \in Nat

\* A read that finds no room ends the connection, any other fills the buffer.
LEMMA ReadConn ==
  ASSUME ClientInv, NEW k \in MConns, mgmt_read(k)
  PROVE  \/ WriteSpace(mc[k].rbuf) = 0 /\ Leaves(k, mgmt_done) /\ UNCHANGED pos
         \/ \E n, c : /\ Gained(c, k, n) /\ Leaves(k, mgmt_try_process(c))
                     /\ pos' = [pos EXCEPT ![k] = @ + n]
<1> DEFINE q == sent[k]
<1>0. SUFFICES ASSUME ~(WriteSpace(mc[k].rbuf) = 0 /\ Leaves(k, mgmt_done) /\ UNCHANGED pos)
               PROVE  \E n, c : /\ Gained(c, k, n) /\ Leaves(k, mgmt_try_process(c))
                              /\ pos' = [pos EXCEPT ![k] = @ + n]
  OBVIOUS
<1>1. PICK n \in Receivable(k) : /\ Leaves(k, Received(k, n))
                                 /\ pos' = [pos EXCEPT ![k] = @ + n]
  BY <1>0 DEF mgmt_read
<1> DEFINE m == mc[k]
           b == m.rbuf
           got == SubSeq(q, pos[k] + 1, pos[k] + n)
           e == buffer_write_adv(b, got)
           c == [m EXCEPT !.rbuf = e]
           left == mgmt_try_process(c)
           p == pos[k] + n
<1>2. sent' = sent /\ out' = out /\ "OP_READ" \in m.interest
  BY DEF mgmt_read
<1>3. /\ GoodMgmt(m) /\ Access(m, q, pos[k], out[k], cfg.admin)
      /\ q \in Seq(Nat) /\ Len(q) \in Nat /\ pos[k] \in 0 .. Len(q)
      /\ IsTable(db) /\ GoodConfig(cfg)
  BY Here
<1>4. b \in BufferOf(Nat, MGMT_RBUF) /\ MGMT_RBUF \in Nat
  BY <1>3, MgmtSizes DEF GoodMgmt
<1>5. WriteSpace(b) \in Nat
  BY <1>4, BufferFields
<1>6. n \in Nat /\ n > 0 /\ n <= Len(q) - pos[k] /\ n <= WriteSpace(b)
  <2>1. RecvCuts \subseteq Nat
    BY MgmtAssumption
  <2>2. n \in RecvCuts \cup {Unreceived(k), WriteSpace(b)}
        /\ n > 0 /\ n <= Unreceived(k) /\ n <= WriteSpace(b)
    BY <1>1 DEF Receivable
  <2>3. Unreceived(k) \in Nat /\ Unreceived(k) = Len(q) - pos[k]
    BY <1>3 DEF Unreceived
  <2> HIDE DEF q, b
  <2> QED
    BY <1>5, <2>1, <2>2, <2>3
<1>7. p \in 0 .. Len(q) /\ pos[k] \in Nat
  BY <1>3, <1>6
<1>8. /\ got \in Seq(Nat) /\ Len(got) = n
      /\ SubSeq(q, 1, pos[k]) \o got = SubSeq(q, 1, p)
  <2> DEFINE x == pos[k]
             s == SubSeq(q, 1, p)
  <2>1. x \in 0 .. p /\ p \in 0 .. Len(q) /\ p - x = n /\ x \in Nat /\ p \in Nat
    BY <1>3, <1>6, <1>7
  <2>2. s \in Seq(Nat) /\ Len(s) = p
    <3> HIDE DEF p, q
    <3> QED
      BY <1>3, <2>1, CutSeq
  <2>3. /\ SubSeq(s, x + 1, Len(s)) \in Seq(Nat) /\ Len(SubSeq(s, x + 1, Len(s))) = n
        /\ SubSeq(s, 1, x) \o SubSeq(s, x + 1, Len(s)) = s
    <3>1. x \in 0 .. Len(s)
      BY <2>1, <2>2
    <3> HIDE DEF s, x
    <3> QED
      BY <2>1, <2>2, <3>1, CutSeq, ZenonT(40)
  <2>4. SubSeq(s, 1, x) = SubSeq(q, 1, x) /\ SubSeq(s, x + 1, Len(s)) = SubSeq(q, x + 1, p)
    <3> DEFINE r == SubSeq(q, p + 1, Len(q))
    <3>1. s \o r = q /\ r \in Seq(Nat)
      <4> HIDE DEF p, q
      <4> QED
        BY <1>3, <2>1, CutSeq
    <3>2. x + 1 \in Nat /\ x + 1 >= 1 /\ 1 \in Nat /\ x <= Len(s) /\ p <= Len(s) /\ 1 >= 1
      BY <2>1, <2>2
    <3> HIDE DEF s, r, x, p, q
    <3>3. SubSeq(s \o r, 1, x) = SubSeq(s, 1, x)
      BY <2>1, <2>2, <3>1, <3>2, SubSeqOfPrefix
    <3>4. SubSeq(s \o r, x + 1, p) = SubSeq(s, x + 1, p)
      BY <2>1, <2>2, <3>1, <3>2, SubSeqOfPrefix, ZenonT(40)
    <3> QED
      BY <2>2, <3>1, <3>3, <3>4
  <2> HIDE DEF s
  <2> QED
    BY <2>3, <2>4 DEF s
<1>9. e \in BufferOf(Nat, MGMT_RBUF) /\ e.bytes = b.bytes \o got
  <2> HIDE DEF b, got
  <2> QED
    BY <1>4, <1>6, <1>8, WriteAdvFits, SMTT(30)
<1>10. Len(e.bytes) = Len(b.bytes) + n /\ Len(b.bytes) \in Nat
  <2> DEFINE y == b.bytes
  <2>1. y \in Seq(Nat) /\ got \in Seq(Nat) /\ Len(got) = n /\ e.bytes = y \o got
    BY <1>4, <1>8, <1>9, BufferFields
  <2> HIDE DEF y, got
  <2>2. Len(y \o got) = Len(y) + Len(got) /\ Len(y) \in Nat
    BY <2>1, JoinLen
  <2> HIDE DEF e
  <2>3. Len(e.bytes) = Len(y) + n /\ Len(y) \in Nat
    BY ONLY <2>1, <2>2
  <2> QED
    BY <2>3 DEF y
<1> HIDE DEF b, got, e
<1>11. /\ GoodMgmt(c) /\ c.state = m.state /\ c.interest = m.interest /\ c.rbuf = e
       /\ c.wbuf = m.wbuf /\ c.close_after_write = m.close_after_write
  <2>1. GoodMgmt(c)
    BY <1>3, <1>9, GoodExcept
  <2> QED
    BY <1>3, <2>1 DEF GoodMgmt
<1>12. c.rbuf.read = b.read
  <2>1. b \in [size : {MGMT_RBUF}, read : Nat, bytes : Seq(Nat)]
    BY <1>4, BufferFields DEF b
  <2>2. e.read = b.read
    BY <2>1 DEF e, b, buffer_write_adv
  <2> QED
    BY <1>11, <2>2
<1>13. Received(k, n) = mgmt_try_process(c)
  BY DEF Received, e, b, got
<1>14. Gained(c, k, n)
  <2> HIDE DEF c
  <2> QED
    BY <1>6, <1>7, <1>8, <1>9, <1>10, <1>11, <1>12 DEF Gained, b, got
<1> QED
  BY <1>1, <1>13, <1>14

LEMMA ReadGood ==
  ASSUME ClientInv, NEW k \in MConns, mgmt_read(k)
  PROVE  StepGood(k)
<1> DEFINE full == WriteSpace(mc[k].rbuf) = 0 /\ Leaves(k, mgmt_done) /\ UNCHANGED pos
<1>1. CASE full
  <2>1. Leaves(k, Left(Closed, db, cfg)) /\ UNCHANGED <<sent, pos, out>>
    BY <1>1 DEF mgmt_read, mgmt_done
  <2>2. Access(Closed, sent[k], pos[k], out[k], cfg.admin)
    BY Here, ClosedAccess
  <2> QED
    BY <2>1, <2>2, ClosedGood, LeavesConn
<1>2. ASSUME NEW n, NEW c, Gained(c, k, n), Leaves(k, mgmt_try_process(c)),
             pos' = [pos EXCEPT ![k] = @ + n]
      PROVE  StepGood(k)
  <2>1. PICK left : left = mgmt_try_process(c)
    OBVIOUS
  <2>2. PICK p : p = pos[k] + n
    OBVIOUS
  <2>3. PICK q : q = sent[k]
    OBVIOUS
  <2>4. sent' = sent /\ out' = out /\ "OP_READ" \in mc[k].interest
    BY DEF mgmt_read
  <2>5. /\ Access(mc[k], q, pos[k], out[k], cfg.admin)
        /\ q \in Seq(Nat) /\ pos[k] \in Nat /\ p \in 0 .. Len(q) /\ n \in Nat
        /\ IsTable(db) /\ GoodConfig(cfg) /\ GoodMgmt(c) /\ GoodMgmt(mc[k])
        /\ c.state = mc[k].state /\ c.interest = mc[k].interest
    BY <1>2, <2>2, <2>3, Here DEF Gained
  <2>6. c.state \in {"AUTH", "REQUEST"} /\ c.interest = {"OP_READ"}
    BY <2>4, <2>5 DEF Access, Mode
  <2>7. Access(c, q, p, out[k], cfg.admin)
    <3>1. /\ c.rbuf.bytes = mc[k].rbuf.bytes \o SubSeq(q, pos[k] + 1, p)
          /\ SubSeq(q, 1, p) = SubSeq(q, 1, pos[k]) \o SubSeq(q, pos[k] + 1, p)
          /\ c.wbuf = mc[k].wbuf /\ c.close_after_write = mc[k].close_after_write
      BY <1>2, <2>2, <2>3 DEF Gained
    <3> QED
      BY <2>5, <2>6, <3>1 DEF Access, Mode
  <2>8. GoodLeft(left, c) /\ Access(left.conn, q, p, out[k], cfg.admin)
    BY <2>1, <2>5, <2>6, <2>7, TryProcessGood, TryProcessAccess
  <2>9. /\ ClientInv' /\ DirectoryStep(AsMap(db), AsMap(db'))
        /\ mc'[k] = left.conn /\ pos'[k] = p
    <3>1. out' = [out EXCEPT ![k] = out[k]] /\ pos' = [pos EXCEPT ![k] = p]
      <4>1. out = [i \in MConns |-> out[i]]
        BY DEF ClientInv, StreamsGood
      <4> QED
        BY <1>2, <2>2, <2>4, <4>1
    <3>2. /\ GoodMgmt(left.conn) /\ IsTable(left.db)
          /\ DirectoryStep(AsMap(db), AsMap(left.db))
          /\ GoodConfig(left.cfg) /\ left.cfg.admin = cfg.admin
      BY <2>8 DEF GoodLeft
    <3>3. p \in 0 .. Len(sent[k]) /\ Access(left.conn, sent[k], p, out[k], cfg.admin)
      BY <2>3, <2>5, <2>8
    <3>4. Leaves(k, left) /\ sent' = sent
      BY <1>2, <2>1, <2>4
    <3> QED
      BY <3>1, <3>2, <3>3, <3>4, LeavesGood, Zenon
  <2>10. ASSUME <<db, cfg>>' # <<db, cfg>>
         PROVE  AuthBytes(sent[k], cfg.admin) /\ Consumed(k)' > Consumed(k)
    <3>1. db' = left.db /\ cfg' = left.cfg
      BY <1>2, <2>1 DEF Leaves
    <3>2. c.state = "REQUEST" /\ Len(left.conn.rbuf.bytes) < Len(c.rbuf.bytes)
      BY <2>8, <2>10, <3>1 DEF GoodLeft
    <3>3. AuthBytes(q, cfg.admin)
      BY <2>7, <3>2 DEF Access
    <3>4. PICK z \in Nat : z = Len(left.conn.rbuf.bytes)
      <4>1. left.conn.rbuf \in BufferOf(Nat, MGMT_RBUF)
        BY <2>8, MgmtSizes DEF GoodLeft, GoodMgmt
      <4> QED
        BY <4>1, MgmtSizes, BufferFields
    <3>5. PICK y \in Nat : y = Len(mc[k].rbuf.bytes) /\ Len(c.rbuf.bytes) = y + n
      BY <1>2 DEF Gained
    <3>6. Consumed(k) = pos[k] - y /\ Consumed(k)' = p - z
      BY <2>9, <3>4, <3>5 DEF Consumed
    <3>7. z < y + n
      BY <3>2, <3>4, <3>5
    <3>8. p - z > pos[k] - y
      <4>1. PICK x \in Nat : x = pos[k]
        BY <2>5
      <4>2. n \in Nat /\ p = x + n
        BY <2>2, <2>5, <4>1
      <4>3. (x + n) - z > x - y
        BY ONLY <3>7, <4>2, x \in Nat, y \in Nat, z \in Nat
      <4> QED
        BY <4>1, <4>2, <4>3
    <3> QED
      BY <2>3, <3>3, <3>6, <3>8
  <2> QED
    BY <2>9, <2>10 DEF StepGood
<1> QED
  BY <1>1, <1>2, ReadConn

LEMMA WriteGood ==
  ASSUME ClientInv, NEW k \in MConns, mgmt_write(k)
  PROVE  StepGood(k)
<1> DEFINE q == sent[k]
           m == mc[k]
           b == m.wbuf
<1>1. PICK w \in Sendable(b) : /\ Leaves(k, Written(k, w))
                               /\ out' = [out EXCEPT ![k] = @ \o SubSeq(b.bytes, 1, w)]
  BY DEF mgmt_write
<1> DEFINE took == SubSeq(b.bytes, 1, w)
           o == out[k] \o took
           e == buffer_read_adv(b, w)
           c == [m EXCEPT !.wbuf = e]
           d1 == [c EXCEPT !.state = "REQUEST"]
           d == [d1 EXCEPT !.interest = {"OP_READ"}]
           tried == mgmt_try_process(d)
           left == Written(k, w)
<1>2. sent' = sent /\ pos' = pos /\ "OP_WRITE" \in m.interest
  BY DEF mgmt_write
<1>3. /\ GoodMgmt(m) /\ Access(m, q, pos[k], out[k], cfg.admin)
      /\ q \in Seq(Nat) /\ Len(q) \in Nat /\ pos[k] \in 0 .. Len(q)
      /\ IsTable(db) /\ GoodConfig(cfg)
  BY Here
<1>4. m.state \in {"AUTH_REPLY", "RESPONSE"} /\ m.interest = {"OP_WRITE"}
  BY <1>2, <1>3 DEF Access, Mode
<1>5. \/ AuthBytes(q, cfg.admin)
      \/ /\ m.state = "AUTH_REPLY" /\ m.close_after_write = TRUE
         /\ out[k] \in Seq(Nat) /\ b \in BufferOf(Nat, MGMT_WBUF)
         /\ Len(out[k]) + Len(b.bytes) <= 2
  BY <1>3, <1>4 DEF Access
<1> HIDE DEF q, b
<1>6. ASSUME out[k] \in Seq(Nat), b \in BufferOf(Nat, MGMT_WBUF),
             Len(out[k]) + Len(b.bytes) <= 2
      PROVE  /\ o \in Seq(Nat) /\ e \in BufferOf(Nat, MGMT_WBUF)
             /\ Len(o) + Len(e.bytes) <= 2 /\ Len(o) <= 2
  <2> DEFINE bytes == b.bytes
             oo == out[k]
             rest == e.bytes
  <2>1. MGMT_WBUF \in Nat /\ bytes \in Seq(Nat) /\ Len(bytes) \in Nat
    BY <1>6, MgmtAssumption, BufferFields
  <2>2. w \in 0 .. Len(bytes)
    <3>1. SendCuts \subseteq Nat
      BY MgmtAssumption
    <3>2. w = Len(bytes) \/ (w \in SendCuts /\ w < Len(bytes))
      BY DEF Sendable
    <3> DEFINE n == Len(bytes)
    <3>3. n \in Nat /\ (w = n \/ (w \in Nat /\ w < n))
      BY <2>1, <3>1, <3>2
    <3> HIDE DEF n
    <3>4. w \in 0 .. n
      BY ONLY <3>3
    <3> QED
      BY <3>4 DEF n
  <2>3. e \in BufferOf(Nat, MGMT_WBUF) /\ took \o rest = bytes /\ took \in Seq(Nat)
    <3> HIDE DEF e, took
    <3> QED
      BY <1>6, <2>1, <2>2, ReadAdvDrops DEF e, took
  <2>4. rest \in Seq(Nat) /\ Len(rest) \in Nat
    <3> HIDE DEF e
    <3> QED
      BY <2>1, <2>3, BufferFields
  <2>5. oo \in Seq(Nat) /\ Len(oo) + Len(bytes) <= 2
    BY <1>6
  <2> HIDE DEF bytes, oo, rest, took, e
  <2>6. /\ Len(took \o rest) = Len(took) + Len(rest) /\ Len(took) \in Nat
        /\ Len(oo \o took) = Len(oo) + Len(took) /\ Len(oo) \in Nat
        /\ oo \o took \in Seq(Nat)
    BY <2>3, <2>4, <2>5, JoinLen
  <2>7. Len(oo \o took) + Len(rest) <= 2 /\ Len(oo \o took) <= 2
    <3>1. Len(bytes) = Len(took) + Len(rest)
      BY <2>3, <2>6
    <3> QED
      BY <2>4, <2>5, <2>6, <3>1
  <2> QED
    BY <2>3, <2>6, <2>7 DEF oo, rest
<1> HIDE DEF e
<1>7. /\ GoodMgmt(c) /\ c.state = m.state /\ c.interest = m.interest /\ c.rbuf = m.rbuf
      /\ c.wbuf = e /\ c.close_after_write = m.close_after_write
  <2>1. GoodMgmt(c)
    BY <1>3, GoodExcept
  <2> QED
    BY <1>3, <2>1 DEF GoodMgmt
<1>8. /\ GoodMgmt(d) /\ d.state = "REQUEST" /\ d.interest = {"OP_READ"} /\ d.rbuf = m.rbuf
  <2> HIDE DEF c
  <2>1. GoodMgmt(d1) /\ d1.state = "REQUEST" /\ d1.rbuf = m.rbuf
    <3>1. GoodMgmt(d1)
      BY <1>7, GoodExcept
    <3> QED
      BY <1>7, <3>1 DEF GoodMgmt
  <2> HIDE DEF d1
  <2>2. GoodMgmt(d)
    BY <2>1, GoodExcept
  <2> QED
    BY <2>1, <2>2 DEF GoodMgmt
<1>9. \/ left = Left(c, db, cfg) \/ left = Left(Closed, db, cfg)
      \/ left = tried /\ ~c.close_after_write
  BY DEF Written, mgmt_done, e, b
<1>10. ASSUME left = tried, ~c.close_after_write
       PROVE  /\ GoodLeft(left, d) /\ AuthBytes(q, cfg.admin)
              /\ Access(left.conn, q, pos[k], o, cfg.admin)
  <2>1. AuthBytes(q, cfg.admin)
    <3> HIDE DEF c
    <3> QED
      BY <1>5, <1>7, <1>10
  <2> HIDE DEF d, o, left
  <2>2. Access(d, q, pos[k], o, cfg.admin)
    BY <1>8, <2>1 DEF Access, Mode
  <2> QED
    BY <1>3, <1>8, <1>10, <2>1, <2>2, TryProcessGood, TryProcessAccess
<1>11. ASSUME left = Left(c, db, cfg)
       PROVE  /\ GoodLeft(left, d) /\ left.db = db /\ left.cfg = cfg
              /\ Access(left.conn, q, pos[k], o, cfg.admin)
  <2> HIDE DEF c, d, o, left
  <2>1. Access(c, q, pos[k], o, cfg.admin)
    <3>1. c.state \in {"AUTH_REPLY", "RESPONSE"} /\ c.interest = {"OP_WRITE"}
      BY <1>4, <1>7
    <3>2. CASE AuthBytes(q, cfg.admin)
      BY <3>1, <3>2 DEF Access, Mode
    <3>3. CASE ~AuthBytes(q, cfg.admin)
      <4>1. /\ c.state = "AUTH_REPLY" /\ c.close_after_write = TRUE
            /\ o \in Seq(Nat) /\ e \in BufferOf(Nat, MGMT_WBUF)
            /\ Len(o) + Len(e.bytes) <= 2
        BY <1>5, <1>6, <1>7, <3>3 DEF o
      <4> QED
        BY <1>7, <3>1, <4>1 DEF Access, Mode
    <3> QED
      BY <3>2, <3>3
  <2>2. GoodLeft(left, d)
    BY <1>3, <1>7, <1>11, LeftAlone
  <2> QED
    BY <1>11, <2>1, <2>2 DEF Left
<1>12. ASSUME left = Left(Closed, db, cfg)
       PROVE  /\ GoodLeft(left, d) /\ left.db = db /\ left.cfg = cfg
              /\ Access(left.conn, q, pos[k], o, cfg.admin)
  <2>1. AuthBytes(q, cfg.admin) \/ (o \in Seq(Nat) /\ Len(o) <= 2)
    <3> HIDE DEF o
    <3> QED
      BY <1>5, <1>6
  <2> HIDE DEF c, d, o, left
  <2>2. Access(Closed, q, pos[k], o, cfg.admin)
    BY <2>1, ClosedAccess
  <2>3. GoodLeft(left, d)
    BY <1>3, <1>12, ClosedGood, LeftAlone
  <2> QED
    BY <1>12, <2>2, <2>3 DEF Left
<1> HIDE DEF left, c, tried
<1>13. /\ GoodLeft(left, d) /\ Access(left.conn, q, pos[k], o, cfg.admin)
       /\ \/ AuthBytes(q, cfg.admin)
          \/ left.db = db /\ left.cfg = cfg
  BY <1>9, <1>10, <1>11, <1>12
<1>14. /\ GoodMgmt(left.conn) /\ IsTable(left.db)
       /\ DirectoryStep(AsMap(db), AsMap(left.db))
       /\ GoodConfig(left.cfg) /\ left.cfg.admin = cfg.admin
       /\ \/ left.db = db /\ left.cfg = cfg
          \/ Len(left.conn.rbuf.bytes) < Len(d.rbuf.bytes)
  <2> HIDE DEF d
  <2> QED
    BY <1>13 DEF GoodLeft
<1>15. ClientInv' /\ DirectoryStep(AsMap(db), AsMap(db')) /\ mc'[k] = left.conn /\ pos'[k] = pos[k]
  <2>1. Leaves(k, left) /\ out' = [out EXCEPT ![k] = o]
    BY <1>1 DEF left, b
  <2>2. pos' = [pos EXCEPT ![k] = pos[k]]
    <3>1. pos \in [MConns -> Nat]
      BY DEF ClientInv, StreamsGood
    <3> QED
      BY <1>2, <3>1
  <2>3. pos[k] \in 0 .. Len(sent[k]) /\ Access(left.conn, sent[k], pos[k], o, cfg.admin)
    BY <1>3, <1>13 DEF q
  <2> HIDE DEF o, d
  <2> QED
    BY <1>2, <1>14, <2>1, <2>2, <2>3, LeavesGood
<1>16. ASSUME <<db, cfg>>' # <<db, cfg>>
       PROVE  AuthBytes(sent[k], cfg.admin) /\ Consumed(k)' > Consumed(k)
  <2>1. db' = left.db /\ cfg' = left.cfg
    BY <1>1 DEF Leaves, left, b
  <2>2. AuthBytes(q, cfg.admin) /\ Len(left.conn.rbuf.bytes) < Len(d.rbuf.bytes)
    <3> HIDE DEF d
    <3> QED
      BY <1>13, <1>14, <1>16, <2>1
  <2>3. Consumed(k) = pos[k] - Len(m.rbuf.bytes)
        /\ Consumed(k)' = pos[k] - Len(left.conn.rbuf.bytes)
    BY <1>15 DEF Consumed
  <2> DEFINE x == pos[k]
             y == Len(m.rbuf.bytes)
             z == Len(left.conn.rbuf.bytes)
  <2>4. y \in Nat /\ z \in Nat
    <3>1. left.conn.rbuf \in BufferOf(Nat, MGMT_RBUF) /\ m.rbuf \in BufferOf(Nat, MGMT_RBUF)
      BY <1>3, <1>14 DEF GoodMgmt
    <3> QED
      BY <3>1, MgmtSizes, BufferFields
  <2>5. x \in Nat /\ z < y /\ Consumed(k) = x - y /\ Consumed(k)' = x - z
    BY <1>3, <1>8, <2>2, <2>3
  <2> HIDE DEF x, y, z
  <2>6. Consumed(k)' > Consumed(k)
    BY ONLY <2>4, <2>5
  <2> QED
    BY <2>2, <2>6 DEF q
<1> QED
  BY <1>15, <1>16 DEF StepGood

-----------------------------------------------------------------------------
(* The steps of the clients.                                               *)

\* The bytes q that client k has sent are the first n messages of m, and say
\* what they are; a program is at the place at.
Said(k, at, q, m, n) ==
  /\ n \in 0 .. Len(m) /\ q = Bytes(SubSeq(m, 1, n))
  /\ \A i \in 1 .. n : SaysWhatItIs(m, i)
  /\ k \notin Programs => n = Len(m)
  /\ k \in Programs =>
       /\ \A i \in 1 .. n : ~Refused(m[i])
       /\ at = "start" => n = 0
       /\ at = "auth" => n = 1
       /\ at = "request" => n = 2

At(k) == IF k \in Programs THEN prog[k].at ELSE "raw"

\* A program sends its two messages one after the other, any other client all
\* of its messages at once.
ScriptInv ==
  /\ script \in Scenarios
  /\ prog \in [Programs -> [at : {"start", "auth", "request", "exit"}, rc : {0, 1}]]
  /\ sent \in [MConns -> Seq(Nat)]
  /\ \A k \in MConns : \E n \in Nat : Said(k, At(k), sent[k], script[k], n)

LEMMA NothingServed ==
  ASSUME ClientInv, UNCHANGED <<db, cfg, mc, sent, pos, out>>
  PROVE  ClientInv'
BY DEF ClientInv, IsTable, GoodConfig, ConnsGood, GoodMgmt, StreamsGood, AccessGood

LEMMA AccessGrows ==
  ASSUME NEW c, NEW q \in Seq(Nat), NEW n \in 0 .. Len(q), NEW o, NEW a,
         Access(c, q, n, o, a), NEW x \in Seq(Nat)
  PROVE  Access(c, q \o x, n, o, a)
<1>1. AuthBytes(q, a) => AuthBytes(q \o x, a)
  BY AuthBytesPrefix
<1>2. n \in Nat /\ n <= Len(q) /\ 1 \in Nat /\ 1 >= 1
  OBVIOUS
<1>3. SubSeq(q \o x, 1, n) = SubSeq(q, 1, n)
  BY <1>2, SubSeqOfPrefix
<1> DEFINE z == q \o x
<1> HIDE DEF z
<1>4. (AuthBytes(q, a) => AuthBytes(z, a)) /\ SubSeq(z, 1, n) = SubSeq(q, 1, n)
  BY <1>1, <1>3 DEF z
<1>5. Access(c, z, n, o, a)
  BY <1>4 DEF Access
<1> QED
  BY <1>5 DEF z

LEMMA SentMore ==
  ASSUME ClientInv, NEW k \in MConns, NEW x \in Seq(Nat),
         sent' = [sent EXCEPT ![k] = @ \o x], UNCHANGED <<db, cfg, mc, pos, out>>
  PROVE  ClientInv'
<1>1. /\ sent \in [MConns -> Seq(Nat)] /\ pos \in [MConns -> Nat]
      /\ \A i \in MConns : pos[i] <= Len(sent[i])
  BY DEF ClientInv, StreamsGood
<1> DEFINE q == sent[k]
           z == q \o x
<1>2. q \in Seq(Nat) /\ z \in Seq(Nat) /\ Len(z) = Len(q) + Len(x) /\ Len(x) \in Nat /\ Len(q) \in Nat
  BY <1>1
<1>3. sent' = [sent EXCEPT ![k] = z]
  OBVIOUS
<1> HIDE DEF q, z
<1>4. /\ sent' \in [MConns -> Seq(Nat)] /\ sent'[k] = z
      /\ \A i \in MConns : i # k => sent'[i] = sent[i]
  BY <1>1, <1>2, <1>3
<1>5. StreamsGood'
  <2>1. \A i \in MConns : pos'[i] <= Len(sent'[i])
    <3>1. pos[k] <= Len(z)
      <4>1. pos[k] <= Len(q) /\ pos[k] \in Nat
        BY <1>1 DEF q
      <4> QED
        BY <1>2, <4>1
    <3> QED
      BY <1>1, <1>4, <3>1
  <2> QED
    BY <1>1, <1>4, <2>1 DEF ClientInv, StreamsGood
<1>6. AccessGood'
  <2>1. ASSUME NEW i \in MConns
        PROVE  Access(mc'[i], sent'[i], pos'[i], out'[i], cfg'.admin)
    <3>1. Access(mc[i], sent[i], pos[i], out[i], cfg.admin) /\ pos[i] \in 0 .. Len(sent[i])
      BY Here
    <3>2. CASE i = k
      <4>1. Access(mc[k], q, pos[k], out[k], cfg.admin) /\ pos[k] \in 0 .. Len(q)
        BY <3>1, <3>2 DEF q
      <4>2. Access(mc[k], q \o x, pos[k], out[k], cfg.admin)
        BY <1>2, <4>1, AccessGrows
      <4>3. Access(mc[k], z, pos[k], out[k], cfg.admin)
        BY <4>2 DEF z
      <4> QED
        BY <1>4, <3>2, <4>3
    <3>3. CASE i # k
      BY <1>4, <3>1, <3>3
    <3> QED
      BY <3>2, <3>3
  <2> QED
    BY <2>1 DEF AccessGood
<1> QED
  BY <1>5, <1>6 DEF ClientInv, IsTable, GoodConfig, ConnsGood, GoodMgmt

LEMMA SameScript ==
  ASSUME ScriptInv, UNCHANGED <<script, sent, prog>>
  PROVE  ScriptInv'
<1>1. ASSUME NEW k \in MConns
      PROVE  \E n \in Nat : Said(k, At(k)', sent'[k], script'[k], n)
  <2>1. At(k)' = At(k)
    BY DEF At
  <2> QED
    BY <2>1 DEF ScriptInv
<1> QED
  BY <1>1 DEF ScriptInv

LEMMA ExitsGood ==
  ASSUME ScriptInv, NEW k \in Programs, NEW rc \in {0, 1}, Exits(k, rc),
         UNCHANGED <<script, sent>>
  PROVE  ScriptInv'
<1>1. prog' = [prog EXCEPT ![k] = [at |-> "exit", rc |-> rc]]
  BY DEF Exits
<1>2. /\ prog' \in [Programs -> [at : {"start", "auth", "request", "exit"}, rc : {0, 1}]]
      /\ prog'[k].at = "exit" /\ \A i \in Programs : i # k => prog'[i] = prog[i]
  BY <1>1 DEF ScriptInv
<1>3. \A i \in MConns : \E n \in Nat : Said(i, At(i)', sent'[i], script'[i], n)
  <2>1. ASSUME NEW i \in MConns PROVE \E n \in Nat : Said(i, At(i)', sent'[i], script'[i], n)
    <3>1. PICK n \in Nat : Said(i, At(i), sent[i], script[i], n)
      BY DEF ScriptInv
    <3>2. CASE i = k
      <4>1. At(i)' = "exit"
        BY <1>2, <3>2 DEF At
      <4>2. Said(i, "exit", sent[i], script[i], n)
        BY <3>1 DEF Said
      <4> QED
        BY <4>1, <4>2
    <3>3. CASE i # k
      <4>1. At(i)' = At(i)
        BY <1>2, <3>3 DEF At
      <4> QED
        BY <3>1, <4>1
    <3> QED
      BY <3>2, <3>3
  <2> QED
    BY <2>1
<1> QED
  BY <1>2, <1>3 DEF ScriptInv

\* A program says its next message.
LEMMA SaysNext ==
  ASSUME NEW k \in Programs, NEW at, NEW q, NEW m \in Seq(Messages), Len(m) = 2,
         NEW n \in Nat, Said(k, at, q, m, n), NEW i \in {1, 2}, i = n + 1,
         NEW to, to = IF i = 1 THEN "auth" ELSE "request", ~Refused(m[i]),
         SaysWhatItIs(m, i) \/ Refused(m[i])
  PROVE  Said(k, to, q \o m[i].bytes, m, i)
<1>1. i \in 1 .. Len(m) /\ i - 1 = n /\ i \in 0 .. Len(m)
  OBVIOUS
<1>2. q \o m[i].bytes = Bytes(SubSeq(m, 1, i))
  BY <1>1, BytesGrow DEF Said
<1>3. \A j \in 1 .. i : j = i \/ j \in 1 .. n
  BY <1>1
<1>4. \A j \in 1 .. i : SaysWhatItIs(m, j) /\ ~Refused(m[j])
  BY <1>3 DEF Said
<1> QED
  BY <1>1, <1>2, <1>4 DEF Said

\* A program sends the i-th of its messages.
LEMMA SendsGood ==
  ASSUME ClientInv, ScriptInv, NEW k \in Programs, NEW i \in {1, 2}, NEW at,
         at = IF i = 1 THEN "auth" ELSE "request",
         prog[k].at = IF i = 1 THEN "start" ELSE "auth",
         Sends(k, script[k][i], at), UNCHANGED <<db, cfg, mc, script, pos, out>>
  PROVE  ClientInv' /\ ScriptInv'
<1> DEFINE m == script[k]
           x == m[i].bytes
           q == sent[k]
           z == q \o x
<1>1. CASE Refused(m[i])
  <2>1. Exits(k, 1) /\ UNCHANGED sent
    BY <1>1 DEF Sends
  <2> QED
    BY <2>1, ExitsGood, NothingServed
<1>2. CASE ~Refused(m[i])
  <2>1. sent' = [sent EXCEPT ![k] = @ \o x] /\ prog' = [prog EXCEPT ![k].at = at]
    BY <1>2 DEF Sends
  <2>2. k \in MConns /\ m \in Seq(Messages) /\ Len(m) = 2
    BY ClientAssumption DEF ScriptInv
  <2>3. x \in Seq(Nat)
    <3> HIDE DEF m
    <3> QED
      BY <2>2, MessageBytes, SMTT(30)
  <2>4. ClientInv'
    <3> HIDE DEF x
    <3> QED
      BY <2>1, <2>2, <2>3, SentMore
  <2>5. q \in Seq(Nat) /\ sent \in [MConns -> Seq(Nat)] /\ z \in Seq(Nat)
    <3>1. q \in Seq(Nat) /\ sent \in [MConns -> Seq(Nat)]
      BY <2>2 DEF ScriptInv
    <3> HIDE DEF q, x
    <3> QED
      BY <2>3, <3>1
  <2>6. PICK n \in Nat : Said(k, At(k), q, m, n)
    BY <2>2 DEF ScriptInv
  <2>7. i = n + 1
    <3>1. At(k) = prog[k].at
      BY DEF At
    <3>2. CASE i = 1
      BY <2>6, <3>1, <3>2 DEF Said
    <3>3. CASE i = 2
      BY <2>6, <3>1, <3>3 DEF Said
    <3> QED
      BY <3>2, <3>3
  <2>8. Said(k, at, z, m, i)
    <3>1. SaysWhatItIs(m, i) \/ Refused(m[i])
      <4>1. i \in 1 .. Len(m)
        BY <2>2
      <4> QED
        BY <2>2, <4>1, ClientAssumption DEF ScriptInv
    <3> HIDE DEF m, q
    <3> QED
      BY <1>2, <2>2, <2>6, <2>7, <3>1, SaysNext
  <2> HIDE DEF z, q
  <2>9. /\ sent' \in [MConns -> Seq(Nat)] /\ sent'[k] = z
        /\ \A j \in MConns : j # k => sent'[j] = sent[j]
    <3>1. sent' = [sent EXCEPT ![k] = z]
      BY <2>1 DEF z, q
    <3> QED
      BY <2>2, <2>5, <3>1
  <2>10. /\ prog' \in [Programs -> [at : {"start", "auth", "request", "exit"}, rc : {0, 1}]]
         /\ prog'[k].at = at /\ \A j \in Programs : j # k => prog'[j] = prog[j]
    <3>1. prog \in [Programs -> [at : {"start", "auth", "request", "exit"}, rc : {0, 1}]]
      BY DEF ScriptInv
    <3>2. at \in {"start", "auth", "request", "exit"}
      OBVIOUS
    <3> QED
      BY ONLY <2>1, <3>1, <3>2, k \in Programs
  <2>11. \A j \in MConns : \E e \in Nat : Said(j, At(j)', sent'[j], script'[j], e)
    <3>1. ASSUME NEW j \in MConns
          PROVE  \E e \in Nat : Said(j, At(j)', sent'[j], script'[j], e)
      <4>2. CASE j = k
        <5>1. At(j)' = at /\ sent'[j] = z /\ script'[j] = m
          BY <2>9, <2>10, <4>2 DEF At
        <5>2. i \in Nat
          OBVIOUS
        <5> HIDE DEF m
        <5> QED
          BY <2>8, <4>2, <5>1, <5>2
      <4>3. CASE j # k
        <5>1. At(j)' = At(j)
          BY <2>10, <4>3 DEF At
        <5> QED
          BY <2>9, <4>3, <5>1 DEF ScriptInv
      <4> QED
        BY <4>2, <4>3
    <3> QED
      BY <3>1
  <2> QED
    BY <2>4, <2>9, <2>10, <2>11 DEF ScriptInv
<1> QED
  BY <1>1, <1>2

LEMMA ProgramGood ==
  ASSUME ClientInv, ScriptInv, NEW k \in Programs, Program(k)
  PROVE  ClientInv' /\ ScriptInv' /\ UNCHANGED <<db, cfg, mc, pos>>
<1>1. CASE StartsAuth(k)
  BY <1>1, SendsGood DEF StartsAuth, Running
<1>2. CASE AuthAnswered(k)
  <2>1. UNCHANGED <<db, cfg, mc, script, pos, out>> /\ prog[k].at = "auth"
    BY <1>2 DEF AuthAnswered, Running
  <2>2. CASE Sends(k, script[k][2], "request")
    BY <2>1, <2>2, SendsGood
  <2>3. CASE Exits(k, 1) /\ UNCHANGED sent
    BY <2>1, <2>3, ExitsGood, NothingServed
  <2> QED
    BY <1>2, <2>1, <2>2, <2>3 DEF AuthAnswered
<1>3. CASE RequestAnswered(k)
  <2>1. UNCHANGED <<db, cfg, mc, script, sent, pos, out>>
    BY <1>3 DEF RequestAnswered
  <2>2. Exits(k, 0) \/ Exits(k, 1)
    BY <1>3 DEF RequestAnswered
  <2> QED
    BY <2>1, <2>2, ExitsGood, NothingServed
<1>4. CASE PrematureEnd(k)
  <2>1. UNCHANGED <<db, cfg, mc, script, sent, pos, out>> /\ Exits(k, 1)
    BY <1>4 DEF PrematureEnd
  <2> QED
    BY <2>1, ExitsGood, NothingServed
<1> QED
  BY <1>1, <1>2, <1>3, <1>4 DEF Program

-----------------------------------------------------------------------------
(* What the invariant shows.                                               *)

LEMMA InitGood ==
  ASSUME ClientInit
  PROVE  ClientInv /\ ScriptInv
<1>1. PICK line \in CommandLines : db = StartUsers(args_parse(line))
                                   /\ cfg = StartConfig(args_parse(line))
  BY DEF ClientInit
<1> DEFINE args == args_parse(line)
<1>2. args \in GoodArgs
  BY MgmtAssumption, ArgsParseGood
<1>3. IsTable(db)
  <2>1. args.users \in Seq(User) /\ Len(args.users) <= USERS_MAX
    BY <1>2 DEF GoodArgs
  <2> HIDE DEF args
  <2>2. IsTable(StartUsers(args))
    BY <2>1, StartUsersMap
  <2> QED
    BY <1>1, <2>2 DEF args
<1>4. GoodConfig(cfg)
  <2> DEFINE on == (args.require_auth \/ Len(args.users) > 0)
             a == args.admin
  <2>1. cfg = [io_buffer_size |-> DEFAULT_BUFFER, conn_timeout_secs |-> 0,
               auth_required |-> on, admin |-> a]
    BY <1>1 DEF StartConfig
  <2>2. DEFAULT_BUFFER \in Nat
    BY StartupAssumption
  <2> HIDE DEF on, a
  <2> QED
    BY <2>1, <2>2 DEF GoodConfig
<1> HIDE DEF args
<1>5. /\ script \in Scenarios /\ mc = [k \in MConns |-> Waiting]
      /\ sent = [k \in MConns |-> IF k \in Programs THEN <<>> ELSE Bytes(script[k])]
      /\ pos = [k \in MConns |-> 0] /\ out = [k \in MConns |-> <<>>]
      /\ prog = [k \in Programs |-> [at |-> "start", rc |-> 1]]
  BY DEF ClientInit
<1>6. <<>> \in Seq(Nat) /\ Len(<<>>) = 0 /\ Len(<<>>) + Len(<<>>) <= 2
  OBVIOUS
<1>7. sent \in [MConns -> Seq(Nat)]
  <2>1. \A k \in MConns : Bytes(script[k]) \in Seq(Nat)
    BY <1>5, ClientAssumption, BytesAll
  <2> QED
    BY <1>5, <1>6, <2>1
<1>8. StreamsGood
  <2>1. \A k \in MConns : pos[k] <= Len(sent[k])
    <3>1. ASSUME NEW k \in MConns PROVE pos[k] <= Len(sent[k])
      <4>1. sent[k] \in Seq(Nat) /\ pos[k] = 0
        BY <1>5, <1>7
      <4>2. Len(sent[k]) \in Nat
        BY <4>1
      <4> QED
        BY <4>1, <4>2
    <3> QED
      BY <3>1
  <2> QED
    BY <1>5, <1>7, <2>1 DEF StreamsGood
<1>9. ConnsGood
  BY <1>5, ClosedGood DEF ConnsGood
<1>10. AccessGood
  <2> DEFINE w == buffer_init(MGMT_WBUF)
             r == buffer_init(MGMT_RBUF)
  <2>1. w \in BufferOf(Nat, MGMT_WBUF) /\ w.bytes = <<>> /\ r.bytes = <<>>
    BY <1>6, MgmtAssumption DEF buffer_init, BufferOf
  <2>2. /\ Waiting.state = "backlog" /\ Waiting.interest = {}
        /\ Waiting.wbuf = w /\ Waiting.rbuf = r
    BY DEF Waiting, NewConn
  <2> HIDE DEF w, r
  <2>3. ASSUME NEW k \in MConns
        PROVE  Access(mc[k], sent[k], pos[k], out[k], cfg.admin)
    <3> DEFINE q == sent[k]
               z == <<>>
               c == Waiting
               a == cfg.admin
    <3>1. SubSeq(q, 1, 0) = z
      BY <1>7
    <3>2. mc[k] = c /\ pos[k] = 0 /\ out[k] = z
      BY <1>5
    <3>3. /\ z \in Seq(Nat) /\ Len(z) + Len(c.wbuf.bytes) <= 2
          /\ c.wbuf.bytes = z /\ c.rbuf.bytes = z /\ z = <<>>
      BY <1>6, <2>1, <2>2
    <3>4. /\ c.state = "backlog" /\ c.interest = {} /\ c.wbuf \in BufferOf(Nat, MGMT_WBUF)
      BY <2>1, <2>2
    <3> HIDE DEF q, c, a
    <3>5. Access(c, q, 0, z, a)
      BY <3>1, <3>3, <3>4 DEF Access, Mode
    <3> QED
      BY <3>2, <3>5 DEF q, a
  <2> QED
    BY <2>3 DEF AccessGood
<1>11. ScriptInv
  <2>1. ASSUME NEW k \in MConns PROVE \E n \in Nat : Said(k, At(k), sent[k], script[k], n)
    <3> DEFINE m == script[k]
    <3>1. m \in Seq(Messages) /\ Len(m) \in Nat
      BY <1>5, ClientAssumption
    <3>2. CASE k \in Programs
      <4>1. At(k) = "start" /\ sent[k] = <<>>
        BY <1>5, <3>2 DEF At
      <4> HIDE DEF m
      <4>2. 0 \in 0 .. Len(m) /\ 1 .. 0 = {}
        BY <3>1
      <4>3. Said(k, "start", <<>>, m, 0)
        BY <3>1, <3>2, <4>2, BytesAll DEF Said
      <4> QED
        BY <4>1, <4>3 DEF m
    <3>3. CASE k \notin Programs
      <4>1. sent[k] = Bytes(m)
        BY <1>5, <3>3
      <4>2. \A i \in 1 .. Len(m) : SaysWhatItIs(m, i)
        BY <1>5, <3>3, ClientAssumption
      <4> HIDE DEF m
      <4>3. Said(k, At(k), sent[k], m, Len(m))
        <5>1. Len(m) \in 0 .. Len(m)
          BY <3>1
        <5> QED
          BY <3>1, <3>3, <4>1, <4>2, <5>1, BytesAll DEF Said
      <4> QED
        BY <3>1, <4>3 DEF m
    <3> QED
      BY <3>2, <3>3
  <2>4. prog \in [Programs -> [at : {"start", "auth", "request", "exit"}, rc : {0, 1}]]
    BY <1>5
  <2> QED
    BY <1>5, <1>7, <2>1, <2>4 DEF ScriptInv
<1> QED
  BY <1>3, <1>4, <1>8, <1>9, <1>10, <1>11 DEF ClientInv

LEMMA ServerGood ==
  ASSUME ClientInv, NEW k \in MConns, Server(k)
  PROVE  StepGood(k)
BY AcceptGood, ReadGood, WriteGood, LostGood DEF Server

(* The invariant is kept by every step.                                    *)
LEMMA NextGood ==
  ASSUME ClientInv, ScriptInv, [ClientNext]_clientVars
  PROVE  /\ ClientInv' /\ ScriptInv'
         /\ \/ UNCHANGED <<db, cfg>>
            \/ \E k \in MConns : Server(k) /\ StepGood(k)
<1>1. CASE UNCHANGED clientVars
  BY <1>1, NothingServed, SameScript DEF clientVars, mgmtVars
<1>2. ASSUME NEW k \in MConns, Server(k), UNCHANGED prog
      PROVE  ClientInv' /\ ScriptInv' /\ Server(k) /\ StepGood(k)
  <2>1. StepGood(k)
    BY <1>2, ServerGood
  <2>2. UNCHANGED <<script, sent, prog>>
    BY <1>2 DEF Server, mgmt_passive_accept, mgmt_read, mgmt_write, mgmt_lost
  <2> QED
    BY <1>2, <2>1, <2>2, SameScript DEF StepGood
<1>3. ASSUME NEW k \in MConns, ClientLeaves(k), UNCHANGED prog
      PROVE  ClientInv' /\ ScriptInv' /\ UNCHANGED <<db, cfg>>
  BY <1>3, NothingServed, SameScript DEF ClientLeaves
<1>4. ASSUME NEW k \in Programs, Program(k)
      PROVE  ClientInv' /\ ScriptInv' /\ UNCHANGED <<db, cfg>>
  BY <1>4, ProgramGood
<1> QED
  BY <1>1, <1>2, <1>3, <1>4 DEF ClientNext

(* The slots of the user table stay a table, the request buffers within    *)
(* their bounds, and nobody is let in who did not send the credentials of  *)
(* the administrator first: mgmt_try_process looks at nothing else.        *)
THEOREM ClientInvariant == ClientSpec => [](ClientInv /\ ScriptInv)
<1>1. ClientInit => ClientInv /\ ScriptInv
  BY InitGood
<1>2. ClientInv /\ ScriptInv /\ [ClientNext]_clientVars => (ClientInv /\ ScriptInv)'
  BY NextGood
<1> QED
  BY <1>1, <1>2, PTL DEF ClientSpec

LEMMA AuthBytesAreHis ==
  ASSUME ClientInv, ScriptInv, NEW k \in MConns, AuthBytes(sent[k], cfg.admin)
  PROVE  IsAdmin(k)
<1> DEFINE m == script[k]
           q == sent[k]
<1>1. m \in Seq(Messages) /\ Len(m) > 0 /\ Len(m) \in Nat
  BY ClientAssumption DEF ScriptInv
<1>2. PICK n \in Nat : Said(k, At(k), q, m, n)
  BY DEF ScriptInv
<1> DEFINE x == m[1].bytes
           a == cfg.admin
<1> HIDE DEF m, q, a
<1>3. AuthBytes(q, a)
  BY DEF q, a
<1>4. n # 0
  <2>1. parse_auth(<<>>).rc = 0
    BY DEF parse_auth, NeedMore, NoRequest
  <2>2. n = 0 => q = <<>>
    BY <1>1, <1>2, BytesAll DEF Said
  <2> QED
    BY <1>3, <2>1, <2>2 DEF AuthBytes
<1>5. 1 \in 1 .. n /\ 1 \in 1 .. Len(m) /\ 1 \in 0 .. Len(m) /\ n \in 1 .. Len(m)
  BY <1>1, <1>2, <1>4 DEF Said
<1>6. x \in Seq(Nat) /\ Bytes(SubSeq(m, 1, 1)) = x
  <2>1. x \in Seq(Nat)
    BY <1>1, <1>5, MessageBytes
  <2>2. Bytes(SubSeq(m, 1, 1)) = Bytes(SubSeq(m, 1, 1 - 1)) \o m[1].bytes
    BY <1>1, <1>5, BytesGrow
  <2>3. Bytes(SubSeq(m, 1, 1 - 1)) = <<>>
    BY <1>1, BytesAll
  <2> HIDE DEF x
  <2>4. <<>> \o x = x
    BY <2>1
  <2> QED
    BY <2>1, <2>2, <2>3, <2>4 DEF x
<1>7. PICK y \in Seq(Nat) : q = x \o y
  <2>1. q = Bytes(SubSeq(m, 1, n))
    BY <1>2 DEF Said
  <2>2. \E y \in Seq(Nat) : Bytes(SubSeq(m, 1, n)) = Bytes(SubSeq(m, 1, 1)) \o y
    BY <1>1, <1>5, BytesBegin
  <2> QED
    BY <1>6, <2>1, <2>2
<1>8. SaysWhatItIs(m, 1)
  BY <1>2, <1>5 DEF Said
<1>9. parse_auth(x).rc # 0
  <2>1. ASSUME parse_auth(x).rc = 0 PROVE FALSE
    <3>1. Len(m) = 1
      BY <1>8, <2>1 DEF SaysWhatItIs
    <3>2. q = x
      BY <1>2, <1>5, <1>6, <3>1 DEF Said
    <3> QED
      BY <1>3, <2>1, <3>2 DEF AuthBytes
  <2> QED
    BY <2>1
<1>10. parse_auth(q) = parse_auth(x)
  BY <1>6, <1>7, <1>9, AuthPrefix
<1>11. /\ parse_auth(x).rc > 0
       /\ parse_auth(x).user = a.name /\ parse_auth(x).pass = a.pass
  BY <1>3, <1>10 DEF AuthBytes
<1>12. m[1].cmd = AUTH /\ CString(m[1].user) = a.name /\ CString(m[1].pass) = a.pass
  BY <1>8, <1>9, <1>11 DEF SaysWhatItIs, x
<1>13. Head(m) = m[1]
  BY <1>1, HeadTailProperties
<1> QED
  BY <1>12, <1>13 DEF IsAdmin, m, a

(* Nothing changes the users or the configuration, and nothing is told of  *)
(* them, but requests on connections that began with the credentials of    *)
(* the administrator, however their bytes are cut and whoever else is      *)
(* served meanwhile: the server's buffers hold at most the two bytes of    *)
(* the reply to an authentication for anybody else.                        *)
THEOREM AdministratorOnly == ClientSpec => OnlyTheAdministrator
<1> DEFINE Inv == ClientInv /\ ScriptInv
           Step == <<db, cfg>>' # <<db, cfg>> =>
                     \E k \in MConns : IsAdmin(k) /\ Consumed(k)' > Consumed(k)
           OnlyHis == \A k \in MConns : Len(Output(k)) > 2 => IsAdmin(k)
<1>1. Inv /\ [ClientNext]_clientVars => [Step]_clientVars
  <2> SUFFICES ASSUME Inv, [ClientNext]_clientVars, <<db, cfg>>' # <<db, cfg>>
               PROVE  \E k \in MConns : IsAdmin(k) /\ Consumed(k)' > Consumed(k)
    OBVIOUS
  <2>1. PICK k \in MConns : StepGood(k)
    BY NextGood
  <2>2. AuthBytes(sent[k], cfg.admin) /\ Consumed(k)' > Consumed(k)
    BY <2>1 DEF StepGood
  <2>3. IsAdmin(k)
    BY <2>2, AuthBytesAreHis
  <2> QED
    BY <2>2, <2>3
<1>2. Inv => OnlyHis
  <2> SUFFICES ASSUME Inv, NEW k \in MConns, ~IsAdmin(k)
               PROVE  ~(Len(Output(k)) > 2)
    OBVIOUS
  <2> DEFINE o == out[k]
             b == mc[k].wbuf
             x == b.bytes
  <2>1. ~AuthBytes(sent[k], cfg.admin)
    BY AuthBytesAreHis
  <2>2. o \in Seq(Nat) /\ b \in BufferOf(Nat, MGMT_WBUF) /\ Len(o) + Len(x) <= 2
    BY <2>1, Here DEF Access
  <2>3. x \in Seq(Nat)
    BY <2>2, BufferFields, MgmtAssumption
  <2>4. Output(k) = o \o x
    BY DEF Output
  <2> HIDE DEF o, b, x
  <2>5. Len(o \o x) = Len(o) + Len(x) /\ Len(o) \in Nat
    BY <2>2, <2>3, JoinLen
  <2>6. Len(x) \in Nat
    BY <2>3
  <2> QED
    BY <2>2, <2>4, <2>5, <2>6
<1>3. ClientSpec => []Inv
  BY ClientInvariant
<1> QED
  BY <1>1, <1>2, <1>3, PTL DEF ClientSpec, OnlyTheAdministrator

(* The slots of the table, reused and updated in place by the handlers of  *)
(* any number of connections, implement a map from names to passwords: it  *)
(* is what the command line gave to begin with, and every step puts or     *)
(* removes one entry, if it changes anything.                              *)
THEOREM UsersAreADirectory ==
  ASSUME NameField \subseteq Names, PassField \subseteq Passwords
  PROVE  ClientSpec => TableIsADirectory
<1>0. \A S : UserDirectory!Cardinality(S) = Cardinality(S)
  BY DEF UserDirectory!Cardinality, Cardinality
<1>1. ClientInv => UserDirectory!DirectoryInit
  <2> DEFINE m == AsMap(db)
  <2>1. ASSUME ClientInv
        PROVE  /\ DOMAIN m \subseteq NameField /\ Cardinality(DOMAIN m) <= USERS_MAX
               /\ \A n \in DOMAIN m : m[n] \in PassField
    BY <2>1, MapIsDirectory DEF ClientInv
  <2> HIDE DEF m
  <2> QED
    BY <2>1, <1>0 DEF UserDirectory!DirectoryInit, UserDirectory!IsDirectory, m
<1>2. ClientInv /\ ScriptInv /\ [ClientNext]_clientVars
        => [UserDirectory!DirectoryNext]_(AsMap(db))
  <2> SUFFICES ASSUME ClientInv, ScriptInv, [ClientNext]_clientVars
               PROVE  UserDirectory!DirectoryNext \/ AsMap(db') = AsMap(db)
    BY DEF AsMap, Used, find
  <2> DEFINE m == AsMap(db)
             w == AsMap(db')
  <2>1. DirectoryStep(m, w)
    BY NextGood DEF StepGood, DirectoryStep
  <2>2. m' = w
    BY DEF AsMap, Used, find
  <2> HIDE DEF m, w
  <2>3. ASSUME NEW n \in NameField, n \in DOMAIN m, w = Deleted(m, n)
        PROVE  UserDirectory!DirectoryNext
    <3>1. UserDirectory!Remove(n)
      BY <2>2, <2>3 DEF UserDirectory!Remove, UserDirectory!Without, Deleted, m
    <3> QED
      BY <3>1 DEF UserDirectory!DirectoryNext
  <2>4. ASSUME NEW n \in NameField, NEW p \in PassField,
               n \in DOMAIN m \/ Cardinality(DOMAIN m) < USERS_MAX, w = Added(m, n, p)
        PROVE  UserDirectory!DirectoryNext
    <3>1. UserDirectory!Put(n, p)
      BY <1>0, <2>2, <2>4 DEF UserDirectory!Put, UserDirectory!With, Added, m
    <3> QED
      BY <3>1 DEF UserDirectory!DirectoryNext
  <2> QED
    BY <2>1, <2>3, <2>4 DEF DirectoryStep, m, w
<1> QED
  BY <1>1, <1>2, InitGood, ClientInvariant, PTL
     DEF ClientSpec, TableIsADirectory, UserDirectory!DirectorySpec

-----------------------------------------------------------------------------
(* The responses in a stream of bytes.                                     *)

ResponseSet == [cmd : Nat, status : Nat, data : Seq(Nat)]
ReadSet == [list : Seq(ResponseSet), rest : Nat]

NextAt(q, i) == i + 5 + DataLen(q, i - 1)
Whole(q, i) == ~(i + 4 > Len(q) \/ NextAt(q, i) > Len(q) + 1)
Response(q, i) == [cmd |-> q[i + 1], status |-> q[i + 2],
                   data |-> SubSeq(q, i + 5, NextAt(q, i) - 1)]

\* f[i] is what Responses finds in q from its i-th byte on.
Reads(f, q) ==
  /\ f \in [1 .. Len(q) + 1 -> ReadSet]
  /\ \A i \in 1 .. Len(q) + 1 :
       f[i] = IF ~Whole(q, i) THEN [list |-> <<>>, rest |-> Len(q) + 1 - i]
              ELSE [list |-> <<Response(q, i)>> \o f[NextAt(q, i)].list,
                    rest |-> f[NextAt(q, i)].rest]

LEMMA WholeFacts ==
  ASSUME NEW q \in Seq(Nat), NEW i \in 1 .. Len(q) + 1, Whole(q, i)
  PROVE  /\ NextAt(q, i) \in i + 5 .. Len(q) + 1 /\ i + 4 <= Len(q)
         /\ DataLen(q, i - 1) \in Nat /\ DataLen(q, i - 1) = q[i + 3] * BYTE + q[i + 4]
         /\ Response(q, i) \in ResponseSet
<1>1. Len(q) \in Nat /\ BYTE \in Nat /\ \A x \in 1 .. Len(q) : q[x] \in Nat
  BY MgmtAssumption
<1>2. i \in Nat /\ i >= 1 /\ i + 4 <= Len(q)
  BY <1>1 DEF Whole
<1>3. {i + 1, i + 2, i + 3, i + 4} \subseteq 1 .. Len(q)
  BY <1>1, <1>2
<1>4. (i - 1) + 4 = i + 3 /\ (i - 1) + 5 = i + 4
  BY <1>2
<1>5. DataLen(q, i - 1) = q[i + 3] * BYTE + q[i + 4]
  BY <1>4 DEF DataLen
<1> DEFINE x == q[i + 3]
           y == q[i + 4]
<1>6. x \in Nat /\ y \in Nat /\ q[i + 1] \in Nat /\ q[i + 2] \in Nat
  BY <1>1, <1>3
<1>7. x * BYTE + y \in Nat
  <2> DEFINE b == BYTE
  <2>1. b \in Nat
    BY <1>1
  <2> HIDE DEF x, y, b
  <2>2. x * b + y \in Nat
    BY <1>6, <2>1
  <2> QED
    BY <2>2 DEF b
<1> HIDE DEF x, y
<1>8. DataLen(q, i - 1) \in Nat
  BY <1>5, <1>7 DEF x, y
<1>9. NextAt(q, i) \in i + 5 .. Len(q) + 1
  BY <1>1, <1>2, <1>8 DEF NextAt, Whole
<1>10. SubSeq(q, i + 5, NextAt(q, i) - 1) \in Seq(Nat)
  <2> DEFINE z == NextAt(q, i) - 1
  <2>1. \A e \in i + 5 .. z : e \in 1 .. Len(q)
    BY <1>1, <1>2, <1>9
  <2>2. i + 5 \in Nat /\ z \in Nat
    BY <1>2, <1>9
  <2> HIDE DEF z
  <2>3. SubSeq(q, i + 5, z) \in Seq(Nat)
    BY <1>1, <2>1, <2>2, SubSeqProperties
  <2> QED
    BY <2>3 DEF z
<1> QED
  BY <1>2, <1>5, <1>6, <1>8, <1>9, <1>10 DEF Response, ResponseSet

LEMMA ResponsesRead ==
  ASSUME NEW q \in Seq(Nat)
  PROVE  \E f : /\ Reads(f, q)
                /\ Responses(q) = IF Len(q) < 3 THEN [list |-> <<>>, rest |-> 0] ELSE f[3]
<1> DEFINE n == Len(q) + 1
           none(i) == [list |-> <<>>, rest |-> Len(q) + 1 - i]
           here(i, f) == [list |-> <<Response(q, i)>> \o f[NextAt(q, i)].list,
                          rest |-> f[NextAt(q, i)].rest]
           val(i, f) == IF ~Whole(q, i) THEN none(i) ELSE here(i, f)
           F == [1 .. n -> ReadSet]
           g == [i \in 1 .. n |-> [f \in F |-> val(i, f)]]
           body(i, f) ==
             LET next == i + 5 + DataLen(q, i - 1)
             IN  IF i + 4 > Len(q) \/ next > Len(q) + 1
                 THEN [list |-> <<>>, rest |-> Len(q) + 1 - i]
                 ELSE [list |-> <<[cmd |-> q[i + 1], status |-> q[i + 2],
                                   data |-> SubSeq(q, i + 5, next - 1)]>> \o f[next].list,
                       rest |-> f[next].rest]
           from[i \in 1 .. Len(q) + 1] ==
             LET next == i + 5 + DataLen(q, i - 1)
             IN  IF i + 4 > Len(q) \/ next > Len(q) + 1
                 THEN [list |-> <<>>, rest |-> Len(q) + 1 - i]
                 ELSE [list |-> <<[cmd |-> q[i + 1], status |-> q[i + 2],
                                   data |-> SubSeq(q, i + 5, next - 1)]>> \o from[next].list,
                       rest |-> from[next].rest]
<1>1. n \in Nat /\ Len(q) \in Nat /\ n = Len(q) + 1
  OBVIOUS
<1>2. \A i \in 1 .. n : none(i) \in ReadSet
  BY <1>1 DEF ReadSet
<1>3. \A i \in 1 .. n : Whole(q, i) => NextAt(q, i) \in i + 1 .. n /\ NextAt(q, i) \in 1 .. n
                                       /\ Response(q, i) \in ResponseSet
  <2> TAKE i \in 1 .. n
  <2> HAVE Whole(q, i)
  <2>1. NextAt(q, i) \in i + 5 .. Len(q) + 1 /\ Response(q, i) \in ResponseSet
    BY WholeFacts
  <2> QED
    BY <1>1, <2>1
<1>4. \A i \in 1 .. n : \A f : Whole(q, i) /\ f[NextAt(q, i)] \in ReadSet => here(i, f) \in ReadSet
  <2> TAKE i \in 1 .. n
  <2> TAKE f
  <2> HAVE Whole(q, i) /\ f[NextAt(q, i)] \in ReadSet
  <2>1. Response(q, i) \in ResponseSet
    BY <1>3
  <2>2. <<Response(q, i)>> \o f[NextAt(q, i)].list \in Seq(ResponseSet)
    BY <2>1 DEF ReadSet
  <2>3. f[NextAt(q, i)].rest \in Nat
    BY DEF ReadSet
  <2> QED
    BY <2>2, <2>3 DEF ReadSet
<1>5. Responses(q) = IF Len(q) < 3 THEN [list |-> <<>>, rest |-> 0] ELSE from[3]
  BY DEF Responses
<1>6. \A i \in 1 .. n : \A f \in F : val(i, f) \in ReadSet
  <2> TAKE i \in 1 .. n
  <2> TAKE f \in F
  <2>1. Whole(q, i) => f[NextAt(q, i)] \in ReadSet
    BY <1>3
  <2> HIDE DEF none, here
  <2> QED
    BY <2>1, <1>2, <1>4
<1>7. g \in [1 .. n -> [F -> ReadSet]]
  <2> HIDE DEF val, F
  <2> QED
    BY <1>6
<1>8. \A i \in 1 .. n : \A f, h \in F : (\A j \in i + 1 .. n : f[j] = h[j]) => g[i][f] = g[i][h]
  <2> TAKE i \in 1 .. n
  <2> TAKE f, h \in F
  <2> HAVE \A j \in i + 1 .. n : f[j] = h[j]
  <2>1. Whole(q, i) => f[NextAt(q, i)] = h[NextAt(q, i)]
    BY <1>3
  <2>2. val(i, f) = val(i, h)
    BY <2>1
  <2>3. g[i][f] = val(i, f) /\ g[i][h] = val(i, h)
    <3> HIDE DEF val, F
    <3> QED
      OBVIOUS
  <2> HIDE DEF g, val
  <2> QED
    BY <2>2, <2>3
<1>9. \E f \in F : \A i \in 1 .. n : f[i] = g[i][f]
  <2>1. [list |-> <<>>, rest |-> 0] \in ReadSet
    BY DEF ReadSet
  <2>2. StepsBack(n, ReadSet, g)
    BY <1>7, <1>8 DEF StepsBack
  <2>3. n \in Nat
    BY <1>1
  <2> HIDE DEF g, n
  <2>4. \E f : IteratesBack(f, n, ReadSet, g)
    BY <2>1, <2>2, <2>3, BackwardsExists
  <2> QED
    BY <2>4 DEF IteratesBack
<1>10. PICK f \in F : \A i \in 1 .. n : f[i] = g[i][f]
  BY <1>9
<1>11. \A i \in 1 .. n : f[i] = val(i, f)
  <2> HIDE DEF val, F
  <2> QED
    BY <1>10
<1>12. \A i, h : body(i, h) = val(i, h)
  <2> TAKE i, h
  <2>1. CASE Whole(q, i)
    <3>1. body(i, h) = here(i, h)
      BY <2>1 DEF Whole, NextAt, Response
    <3> QED
      BY <2>1, <3>1
  <2>2. CASE ~Whole(q, i)
    <3>1. body(i, h) = none(i)
      BY <2>2, Zenon DEF Whole, NextAt
    <3> QED
      BY <2>2, <3>1
  <2> QED
    BY <2>1, <2>2
<1>13. f = [i \in 1 .. Len(q) + 1 |-> body(i, f)]
  <2> HIDE DEF body, val
  <2> QED
    BY <1>11, <1>12
<1>20. from = [i \in 1 .. Len(q) + 1 |-> body(i, from)]
  BY <1>13, Zenon
<1> HIDE DEF from, g
<1>14. DOMAIN from = 1 .. n /\ from = [i \in 1 .. n |-> from[i]]
  BY <1>20
<1>15. \A i \in 1 .. n : from[i] = val(i, from)
  <2> HIDE DEF body, val
  <2> QED
    BY <1>12, <1>20
<1> DEFINE P == {i \in 1 .. n : from[i] \in ReadSet}
<1>16. ASSUME NEW i \in 1 .. n, \A j \in i + 1 .. n : j \in P PROVE i \in P
  <2>1. Whole(q, i) => from[NextAt(q, i)] \in ReadSet
    BY <1>3, <1>16
  <2>2. val(i, from) \in ReadSet
    <3> HIDE DEF none, here
    <3> QED
      BY <2>1, <1>2, <1>4
  <2> HIDE DEF val
  <2> QED
    BY <2>2, <1>15
<1>17. \A i \in 1 .. n : i \in P
  <2> HIDE DEF P, n
  <2> QED
    BY <1>1, <1>16, GoingBack
<1>18. from \in F
  BY <1>14, <1>17
<1>19. Reads(from, q)
  <2>1. from \in [1 .. Len(q) + 1 -> ReadSet]
    BY <1>18
  <2>2. \A i \in 1 .. Len(q) + 1 :
          from[i] = IF ~Whole(q, i) THEN [list |-> <<>>, rest |-> Len(q) + 1 - i]
                    ELSE [list |-> <<Response(q, i)>> \o from[NextAt(q, i)].list,
                          rest |-> from[NextAt(q, i)].rest]
    BY <1>1, <1>15, Zenon
  <2> QED
    BY ONLY <2>1, <2>2 DEF Reads
<1> QED
  BY <1>5, <1>19

LEMMA SubSeqOfSuffix ==
  ASSUME NEW p \in Seq(Nat), NEW q \in Seq(Nat), NEW i \in Nat, NEW j \in Nat,
         i >= 1, j <= Len(q)
  PROVE  SubSeq(p \o q, Len(p) + i, Len(p) + j) = SubSeq(q, i, j)
<1> DEFINE c == p \o q
           l == Len(p)
<1>1. /\ c \in Seq(Nat) /\ Len(c) = l + Len(q) /\ l \in Nat /\ Len(q) \in Nat
      /\ \A x \in 1 .. Len(q) : c[l + x] = q[x] /\ q[x] \in Nat
  OBVIOUS
<1> HIDE DEF c, l
<1>2. \A x \in l + i .. l + j : x - l \in 1 .. Len(q) /\ l + (x - l) = x
  BY <1>1
<1>3. \A x \in l + i .. l + j : c[x] \in Nat
  BY <1>1, <1>2
<1> DEFINE a == SubSeq(c, l + i, l + j)
           b == SubSeq(q, i, j)
<1>4. l + i \in Nat /\ l + j \in Nat /\ \A x \in i .. j : q[x] \in Nat
  BY <1>1, SMTT(30)
<1>5. /\ a \in Seq(Nat) /\ Len(a) = IF l + i <= l + j THEN (l + j) - (l + i) + 1 ELSE 0
      /\ \A x \in 1 .. (l + j) - (l + i) + 1 : a[x] = c[(l + i) + x - 1]
  BY <1>3, <1>4, SubSeqProperties, SMTT(30)
<1>6. /\ b \in Seq(Nat) /\ Len(b) = IF i <= j THEN j - i + 1 ELSE 0
      /\ \A x \in 1 .. j - i + 1 : b[x] = q[i + x - 1]
  BY <1>4, SubSeqProperties, SMTT(30)
<1> HIDE DEF a, b
<1>7. Len(a) = Len(b)
  BY <1>1, <1>5, <1>6
<1>8. \A x \in 1 .. Len(a) : /\ x \in 1 .. j - i + 1 /\ x \in 1 .. (l + j) - (l + i) + 1
                             /\ (l + i) + x - 1 = l + (i + x - 1) /\ i + x - 1 \in 1 .. Len(q)
  BY <1>1, <1>5
<1>9. \A x \in 1 .. Len(a) : a[x] = b[x]
  BY <1>1, <1>5, <1>6, <1>8
<1>10. a = b
  BY <1>5, <1>6, <1>7, <1>9, SeqEqual
<1> QED
  BY <1>10 DEF a, b, c, l

\* h finds in a longer sequence what f finds in one of n bytes, and then more.
ReadsOn(f, h, n) ==
  \A i \in 1 .. n + 1 :
    /\ \E y \in Seq(ResponseSet) : h[i].list = f[i].list \o y
    /\ f[i].rest = 0 =>
         /\ h[i].list = f[i].list \o h[n + 1].list
         /\ h[i].rest = h[n + 1].rest

(* What was found in a prefix is found in the whole, and what follows a    *)
(* last whole response is read by itself.                                  *)
LEMMA ReadsPrefix ==
  ASSUME NEW p \in Seq(Nat), NEW t \in Seq(Nat), NEW f, NEW h,
         Reads(f, p), Reads(h, p \o t)
  PROVE  ReadsOn(f, h, Len(p))
<1> DEFINE c == p \o t
           n == Len(p) + 1
           Goal(i) == /\ \E y \in Seq(ResponseSet) : h[i].list = f[i].list \o y
                      /\ f[i].rest = 0 => /\ h[i].list = f[i].list \o h[n].list
                                          /\ h[i].rest = h[n].rest
           P == {i \in 1 .. n : Goal(i)}
<1>1. /\ Len(p) \in Nat /\ Len(t) \in Nat /\ Len(c) = Len(p) + Len(t) /\ c \in Seq(Nat)
      /\ \A x \in 1 .. Len(p) : c[x] = p[x] /\ p[x] \in Nat
      /\ \A i, j \in Nat : i >= 1 /\ j <= Len(p) => SubSeq(c, i, j) = SubSeq(p, i, j)
  BY JoinFacts
<1>2. n \in Nat /\ n = Len(p) + 1 /\ Len(c) \in Nat
  BY <1>1
<1> HIDE DEF c
<1> DEFINE l == Len(p)
           m == Len(c)
<1>7. l \in Nat /\ m \in Nat /\ l <= m /\ n = l + 1
  BY <1>1
<1> HIDE DEF l, m
<1>3. /\ \A i \in 1 .. n : f[i] \in ReadSet
      /\ \A i \in 1 .. Len(c) + 1 : h[i] \in ReadSet
      /\ \A i \in 1 .. n : i \in 1 .. Len(c) + 1
  <2>1. \A i \in 1 .. n : i \in 1 .. m + 1
    BY <1>7
  <2>2. \A i \in 1 .. n : f[i] \in ReadSet
    BY DEF Reads
  <2>3. \A i \in 1 .. Len(c) + 1 : h[i] \in ReadSet
    BY DEF Reads, c
  <2> QED
    BY <2>1, <2>2, <2>3 DEF m
<1>4. \A i \in 1 .. n : h[i].list \in Seq(ResponseSet) /\ f[i].list \in Seq(ResponseSet)
  BY <1>3 DEF ReadSet
<1>5. ASSUME NEW i \in 1 .. n, \A j \in i + 1 .. n : j \in P PROVE i \in P
  <2>1. CASE ~Whole(p, i)
    <3>1. f[i] = [list |-> <<>>, rest |-> Len(p) + 1 - i]
      BY <2>1 DEF Reads
    <3>2. f[i].list = <<>> /\ f[i].rest = Len(p) + 1 - i
      BY <3>1
    <3>3. h[i].list = f[i].list \o h[i].list
      BY <3>2, <1>4
    <3>4. f[i].rest = 0 => i = n
      BY <1>2, <3>2
    <3>5. Goal(i)
      BY <1>4, <3>3, <3>4
    <3> QED
      BY <3>5
  <2>2. CASE Whole(p, i)
    <3> DEFINE j == NextAt(p, i)
               r == Response(p, i)
    <3>1. /\ j \in i + 5 .. Len(p) + 1 /\ i + 4 <= Len(p) /\ r \in ResponseSet
          /\ DataLen(p, i - 1) \in Nat
      BY <2>2, WholeFacts
    <3>18. i \in Nat /\ i >= 1 /\ i + 4 <= l /\ j \in i + 5 .. l + 1
      BY <1>7, <3>1 DEF l
    <3>2. j = i + 5 + DataLen(p, i - 1)
      BY DEF NextAt
    <3>3. i \in Nat /\ i >= 1 /\ {i + 1, i + 2, i + 3, i + 4} \subseteq 1 .. Len(p)
          /\ (i - 1) + 4 = i + 3 /\ (i - 1) + 5 = i + 4
      <4> HIDE DEF j
      <4>1. {i + 1, i + 2, i + 3, i + 4} \subseteq 1 .. l
        BY <1>7, <3>18
      <4> QED
        BY <3>18, <4>1 DEF l
    <3>4. DataLen(c, i - 1) = DataLen(p, i - 1)
      BY <1>1, <3>3 DEF DataLen
    <3>5. NextAt(c, i) = j
      BY <3>4 DEF NextAt
    <3> HIDE DEF j
    <3>6. Whole(c, i)
      <4>1. ~(i + 4 > m \/ j > m + 1)
        BY <1>7, <3>18
      <4> QED
        BY <4>1, <3>5 DEF Whole, m
    <3>7. SubSeq(c, i + 5, j - 1) = SubSeq(p, i + 5, j - 1)
      <4>1. i + 5 \in Nat /\ j - 1 \in Nat /\ i + 5 >= 1 /\ j - 1 <= l
        BY <1>7, <3>18
      <4> QED
        BY <4>1, <1>1 DEF l
    <3>8. Response(c, i) = r
      BY <1>1, <3>3, <3>5, <3>7 DEF Response, j
    <3> HIDE DEF r
    <3>9. f[i] = [list |-> <<r>> \o f[j].list, rest |-> f[j].rest]
      BY <2>2 DEF Reads, j, r
    <3>10. h[i] = [list |-> <<r>> \o h[j].list, rest |-> h[j].rest]
      BY <3>6, <3>5, <3>8, <1>3 DEF Reads, c
    <3>11. j \in i + 1 .. n /\ j \in 1 .. n
      BY <1>2, <3>1
    <3>12. Goal(j)
      BY <1>5, <3>11
    <3>13. <<r>> \in Seq(ResponseSet) /\ n \in 1 .. n
      BY <1>2, <3>1 DEF r
    <3>14. \A y \in Seq(ResponseSet) : (<<r>> \o f[j].list) \o y = <<r>> \o (f[j].list \o y)
      <4> TAKE y \in Seq(ResponseSet)
      <4> DEFINE a == <<r>>
                 b == f[j].list
      <4>1. a \in Seq(ResponseSet) /\ b \in Seq(ResponseSet)
        BY <3>13, <3>11, <1>4
      <4> HIDE DEF a, b
      <4>2. (a \o b) \o y = a \o (b \o y)
        <5>1. Associate(a, b, y)
          BY <4>1, JoinsAssociate
        <5> QED
          BY <5>1 DEF Associate
      <4> QED
        BY <4>2 DEF a, b
    <3>15. /\ f[i].list = <<r>> \o f[j].list /\ h[i].list = <<r>> \o h[j].list
           /\ f[i].rest = f[j].rest /\ h[i].rest = h[j].rest
      BY <3>9, <3>10
    <3>16. \E y \in Seq(ResponseSet) : h[i].list = f[i].list \o y
      <4>1. PICK y \in Seq(ResponseSet) : h[j].list = f[j].list \o y
        BY <3>12
      <4>2. h[i].list = f[i].list \o y
        BY <4>1, <3>14, <3>15
      <4> QED
        BY <4>2
    <3>17. f[i].rest = 0 => h[i].list = f[i].list \o h[n].list /\ h[i].rest = h[n].rest
      <4> HAVE f[i].rest = 0
      <4>1. h[j].list = f[j].list \o h[n].list /\ h[j].rest = h[n].rest
        BY <3>12, <3>15
      <4>2. h[n].list \in Seq(ResponseSet)
        BY <1>4, <3>13
      <4> QED
        BY <4>1, <4>2, <3>14, <3>15
    <3> QED
      BY <3>16, <3>17
  <2> QED
    BY <2>1, <2>2
<1>6. \A i \in 1 .. n : i \in P
  <2> HIDE DEF P, n
  <2> QED
    BY <1>2, <1>5, GoingBack
<1> QED
  BY <1>6, Zenon DEF ReadsOn

LEMMA ResponsesType ==
  ASSUME NEW q \in Seq(Nat)
  PROVE  /\ Responses(q) \in ReadSet
         /\ Len(q) < 3 => Responses(q) = [list |-> <<>>, rest |-> 0]
<1>1. PICK f : /\ Reads(f, q)
               /\ Responses(q) = IF Len(q) < 3 THEN [list |-> <<>>, rest |-> 0] ELSE f[3]
  BY ResponsesRead
<1>2. [list |-> <<>>, rest |-> 0] \in ReadSet
  BY DEF ReadSet
<1>3. ~(Len(q) < 3) => f[3] \in ReadSet
  <2>1. Len(q) \in Nat
    OBVIOUS
  <2>2. ~(Len(q) < 3) => 3 \in 1 .. Len(q) + 1
    BY <2>1
  <2> QED
    BY <1>1, <2>2 DEF Reads
<1> QED
  BY <1>1, <1>2, <1>3

(* What has been answered stays answered as more bytes follow.             *)
LEMMA ResponsesPrefix ==
  ASSUME NEW p \in Seq(Nat), NEW t \in Seq(Nat)
  PROVE  \E y \in Seq(ResponseSet) : Responses(p \o t).list = Responses(p).list \o y
<1> DEFINE c == p \o t
<1>1. PICK f : /\ Reads(f, p)
               /\ Responses(p) = IF Len(p) < 3 THEN [list |-> <<>>, rest |-> 0] ELSE f[3]
  BY ResponsesRead
<1>2. c \in Seq(Nat) /\ Len(c) = Len(p) + Len(t) /\ Len(p) \in Nat /\ Len(t) \in Nat
  OBVIOUS
<1> HIDE DEF c
<1>3. PICK h : /\ Reads(h, c)
               /\ Responses(c) = IF Len(c) < 3 THEN [list |-> <<>>, rest |-> 0] ELSE h[3]
  BY <1>2, ResponsesRead
<1>4. CASE Len(p) < 3
  <2>1. Responses(p).list = <<>> /\ Responses(c).list \in Seq(ResponseSet)
    BY <1>2, <1>4, ResponsesType DEF ReadSet
  <2>2. Responses(c).list = Responses(p).list \o Responses(c).list
    BY <2>1
  <2> QED
    BY <2>1, <2>2 DEF c
<1>5. CASE ~(Len(p) < 3)
  <2>1. ~(Len(c) < 3) /\ 3 \in 1 .. Len(p) + 1
    BY <1>2, <1>5
  <2>2. \E y \in Seq(ResponseSet) : h[3].list = f[3].list \o y
    <3>1. Reads(f, p) /\ Reads(h, p \o t)
      BY <1>1, <1>3 DEF c
    <3>2. ReadsOn(f, h, Len(p))
      BY <3>1, ReadsPrefix
    <3> QED
      BY <2>1, <3>2, Zenon DEF ReadsOn
  <2> QED
    BY <1>1, <1>3, <1>5, <2>1, <2>2 DEF c
<1> QED
  BY <1>4, <1>5

\* t is one whole response.
Frame(t) ==
  t \in Seq(Nat) /\ Len(t) >= 5 /\ Len(t) = 5 + DataLen(t, 0)

(* A whole response behind whole responses is one more.                    *)
LEMMA ResponsesGrow ==
  ASSUME NEW o \in Seq(Nat), Len(o) >= 2, Responses(o).rest = 0, NEW t, Frame(t)
  PROVE  Responses(o \o t) = [list |-> Responses(o).list \o <<Response(t, 1)>>, rest |-> 0]
<1>1. t \in Seq(Nat) /\ Len(t) >= 5 /\ Len(t) = 5 + DataLen(t, 0)
  BY DEF Frame
<1>2. PICK l \in Nat : l = Len(o)
  OBVIOUS
<1>3. PICK m \in Nat : m = Len(t)
  BY <1>1
<1>4. PICK c : c = o \o t
  OBVIOUS
<1>5. /\ c \in Seq(Nat) /\ Len(c) = l + m /\ l >= 2
      /\ \A x \in 1 .. m : c[l + x] = t[x] /\ t[x] \in Nat
  <2>1. c \in Seq(Nat) /\ Len(c) = Len(o) + Len(t)
    <3>1. t \in Seq(Nat)
      BY <1>1
    <3> QED
      BY ONLY <1>4, <3>1, JoinFacts, o \in Seq(Nat)
  <2>2. \A x \in 1 .. Len(t) : c[Len(o) + x] = t[x] /\ t[x] \in Nat
    BY <1>1, <1>4
  <2> QED
    BY <1>2, <1>3, <2>1, <2>2
<1>6. PICK f : /\ Reads(f, o)
               /\ Responses(o) = IF Len(o) < 3 THEN [list |-> <<>>, rest |-> 0] ELSE f[3]
  BY ResponsesRead
<1>7. SubSeq(c, l + 6, l + m) = SubSeq(t, 6, m)
  <2>1. 6 \in Nat /\ 6 >= 1 /\ m <= Len(t)
    BY <1>3
  <2>2. SubSeq(o \o t, Len(o) + 6, Len(o) + m) = SubSeq(t, 6, m)
    BY <1>1, <2>1, SubSeqOfSuffix, Zenon
  <2> QED
    BY <1>2, <1>4, <2>2
<1>8. PICK h : /\ Reads(h, c)
               /\ Responses(c) = IF Len(c) < 3 THEN [list |-> <<>>, rest |-> 0] ELSE h[3]
  BY <1>5, ResponsesRead
<1>9. Responses(c) = h[3]
  BY <1>1, <1>3, <1>5, <1>8
<1>10. PICK i \in Nat : i = l + 1
  OBVIOUS
<1>11. /\ 3 \in 1 .. l + 1 /\ f[3].rest = 0 /\ Responses(o).list = f[3].list
  <2>1. CASE l < 3
    <3>0. l = 2
      BY <1>5, <2>1
    <3>1. ~Whole(o, 3)
      BY <1>2, <3>0 DEF Whole
    <3>2. 3 \in 1 .. l + 1 /\ l + 1 - 3 = 0
      BY <3>0
    <3>3. f[3] = [list |-> <<>>, rest |-> 0]
      BY <1>2, <1>6, <3>1, <3>2 DEF Reads
    <3> QED
      BY <1>2, <1>6, <2>1, <3>2, <3>3
  <2>2. CASE ~(l < 3)
    <3>1. 3 \in 1 .. l + 1
      BY <2>2
    <3> QED
      BY <1>2, <1>6, <2>2, <3>1
  <2> QED
    BY <2>1, <2>2
<1>12. h[3].list = f[3].list \o h[i].list /\ h[3].rest = h[i].rest
  <2>1. Reads(f, o) /\ Reads(h, o \o t)
    BY <1>4, <1>6, <1>8
  <2>2. ReadsOn(f, h, Len(o))
    BY <1>1, <2>1, ReadsPrefix
  <2>3. \A j \in 1 .. i : f[j].rest = 0 =>
           h[j].list = f[j].list \o h[i].list /\ h[j].rest = h[i].rest
    BY <1>2, <1>10, <2>2 DEF ReadsOn
  <2> QED
    BY <1>10, <1>11, <2>3, Zenon
<1>13. PICK z \in Nat : z = l + m + 1
  OBVIOUS
<1>14. DataLen(t, 0) \in Nat /\ DataLen(t, 0) = m - 5 /\ m >= 5
  <2>1. \A n \in Nat : \A x : n = 5 + x /\ x \in Int => x = n - 5
    OBVIOUS
  <2>2. t[4] \in Nat /\ t[5] \in Nat /\ BYTE \in Nat
    BY <1>1, <1>3, <1>5, MgmtAssumption
  <2> DEFINE x == t[4]
             y == t[5]
             b == BYTE
  <2>3. x \in Nat /\ y \in Nat /\ b \in Nat
    BY <2>2
  <2>4. DataLen(t, 0) = x * b + y
    BY DEF DataLen
  <2> HIDE DEF x, y, b
  <2>5. x * b + y \in Nat
    BY <2>3
  <2>6. DataLen(t, 0) \in Nat
    BY <2>4, <2>5
  <2> HIDE DEF DataLen
  <2> QED
    BY <1>1, <1>3, <2>1, <2>6
<1>15. h[i] = [list |-> <<Response(t, 1)>>, rest |-> 0]
  <2>1. /\ (i - 1) + 4 = l + 4 /\ (i - 1) + 5 = l + 5 /\ 4 \in 1 .. m /\ 5 \in 1 .. m
        /\ 2 \in 1 .. m /\ 3 \in 1 .. m /\ i + 1 = l + 2 /\ i + 2 = l + 3 /\ i + 5 = l + 6
        /\ 0 + 4 = 4 /\ 0 + 5 = 5
    BY <1>10, <1>14
  <2>2. DataLen(c, i - 1) = DataLen(t, 0)
    BY ONLY <1>5, <2>1, SMTT(30) DEF DataLen
  <2>3. NextAt(c, i) = z
    <3>1. NextAt(c, i) = i + 5 + DataLen(t, 0)
      BY <2>2 DEF NextAt
    <3> QED
      BY <1>10, <1>13, <1>14, <3>1
  <2>4. i + 4 <= l + m /\ i \in 1 .. l + m + 1 /\ z \in 1 .. l + m + 1 /\ z - 1 = l + m
    BY <1>10, <1>13, <1>14
  <2>5. Whole(c, i)
    <3>1. ~(i + 4 > l + m \/ z > l + m + 1)
      BY <2>4, <1>13
    <3> QED
      BY <1>5, <2>3, <3>1 DEF Whole
  <2>6. NextAt(t, 1) - 1 = m /\ 1 + 5 = 6 /\ 1 + 1 = 2 /\ 1 + 2 = 3
    <3>1. NextAt(t, 1) = 1 + 5 + DataLen(t, 0)
      BY DEF NextAt
    <3> QED
      BY <1>14, <3>1
  <2>7. Response(c, i) = Response(t, 1)
    <3>1. c[i + 1] = t[1 + 1] /\ c[i + 2] = t[1 + 2]
      BY ONLY <1>5, <2>1, <2>6
    <3>2. SubSeq(c, i + 5, NextAt(c, i) - 1) = SubSeq(t, 1 + 5, NextAt(t, 1) - 1)
      BY ONLY <1>7, <2>1, <2>3, <2>4, <2>6
    <3> QED
      BY ONLY <3>1, <3>2 DEF Response
  <2>8. h[i] = [list |-> <<Response(t, 1)>> \o h[z].list, rest |-> h[z].rest]
    BY <1>5, <1>8, <2>3, <2>4, <2>5, <2>7 DEF Reads
  <2>9. h[z] = [list |-> <<>>, rest |-> 0]
    <3>1. ~Whole(c, z)
      BY <1>5, <1>13 DEF Whole
    <3>2. l + m + 1 - z = 0
      BY <1>13
    <3> QED
      BY <1>5, <1>8, <2>4, <3>1, <3>2, ZenonT(40) DEF Reads
  <2>10. <<Response(t, 1)>> \o <<>> = <<Response(t, 1)>>
    OBVIOUS
  <2> QED
    BY <2>8, <2>9, <2>10
<1>16. h[3] = [list |-> h[3].list, rest |-> h[3].rest]
  <2>1. 3 \in 1 .. l + m + 1
    BY <1>11
  <2> QED
    BY <1>5, <1>8, <2>1 DEF Reads, ReadSet
<1> QED
  BY <1>4, <1>9, <1>11, <1>12, <1>15, <1>16

-----------------------------------------------------------------------------
(* Numbers and responses as bytes.                                         *)

(* A number of w bytes: each digit is what is left of it, shifted.         *)
Shifts(s, v, w) ==
  /\ s \in [1 .. w -> Nat]
  /\ \A i \in 1 .. w : s[i] = IF i = w THEN v ELSE s[i + 1] \div BYTE

LEMMA PutIs ==
  ASSUME NEW v \in Nat, NEW w \in Nat
  PROVE  \E s : Shifts(s, v, w) /\ put(v, w) = [i \in 1 .. w |-> s[i] % BYTE]
<1> DEFINE val(i, s) == IF i = w THEN v ELSE s[i + 1] \div BYTE
           F == [1 .. w -> Nat]
           g == [i \in 1 .. w |-> [s \in F |-> val(i, s)]]
           shifted[i \in 1 .. w] == IF i = w THEN v ELSE shifted[i + 1] \div BYTE
<1>1. BYTE \in Nat /\ BYTE > 0
  BY MgmtAssumption
<1>2. \A i \in 1 .. w : i # w => i + 1 \in 1 .. w /\ i + 1 \in i + 1 .. w
  OBVIOUS
<1>3. \A x \in Nat : x \div BYTE \in Nat
  BY <1>1
<1>4. put(v, w) = [i \in 1 .. w |-> shifted[i] % BYTE]
  BY DEF put
<1>5. \A i \in 1 .. w : \A s \in F : val(i, s) \in Nat
  BY <1>2, <1>3
<1>6. g \in [1 .. w -> [F -> Nat]]
  <2> HIDE DEF val, F
  <2> QED
    BY <1>5
<1>7. \A i \in 1 .. w : \A f, h \in F : (\A j \in i + 1 .. w : f[j] = h[j]) => g[i][f] = g[i][h]
  <2> TAKE i \in 1 .. w
  <2> TAKE f, h \in F
  <2> HAVE \A j \in i + 1 .. w : f[j] = h[j]
  <2>1. val(i, f) = val(i, h)
    BY <1>2
  <2>2. g[i][f] = val(i, f) /\ g[i][h] = val(i, h)
    <3> HIDE DEF val, F
    <3> QED
      OBVIOUS
  <2> HIDE DEF g, val
  <2> QED
    BY <2>1, <2>2
<1>8. StepsBack(w, Nat, g)
  BY <1>6, <1>7 DEF StepsBack
<1>9. PICK f \in F : \A i \in 1 .. w : f[i] = g[i][f]
  <2> HIDE DEF g
  <2>1. \E f : IteratesBack(f, w, Nat, g)
    BY <1>8, BackwardsExists
  <2> QED
    BY <2>1 DEF IteratesBack
<1>10. \A i \in 1 .. w : f[i] = val(i, f)
  <2> HIDE DEF val, F
  <2> QED
    BY <1>9
<1>11. f = [i \in 1 .. w |-> val(i, f)]
  <2> HIDE DEF val
  <2> QED
    BY <1>10
<1>12. shifted = [i \in 1 .. w |-> val(i, shifted)]
  BY <1>11, Zenon
<1> HIDE DEF shifted, g
<1> DEFINE P == {i \in 1 .. w : shifted[i] \in Nat}
<1>13. ASSUME NEW i \in 1 .. w, \A j \in i + 1 .. w : j \in P PROVE i \in P
  <2>1. shifted[i] = val(i, shifted)
    <3> HIDE DEF val
    <3> QED
      BY <1>12
  <2> QED
    BY <1>2, <1>3, <1>13, <2>1
<1>14. \A i \in 1 .. w : i \in P
  <2> HIDE DEF P
  <2> QED
    BY <1>13, GoingBack
<1>15. shifted \in [1 .. w -> Nat]
  <2> HIDE DEF val
  <2> QED
    BY <1>12, <1>14
<1>16. \A i \in 1 .. w : shifted[i] = IF i = w THEN v ELSE shifted[i + 1] \div BYTE
  BY <1>12
<1> QED
  BY <1>4, <1>15, <1>16, Zenon DEF Shifts

LEMMA PutType ==
  ASSUME NEW v \in Nat, NEW w \in Nat
  PROVE  put(v, w) \in Seq(Nat) /\ Len(put(v, w)) = w
<1>1. PICK s : Shifts(s, v, w) /\ put(v, w) = [i \in 1 .. w |-> s[i] % BYTE]
  BY PutIs
<1>2. BYTE \in Nat /\ BYTE > 0
  BY MgmtAssumption
<1>3. \A i \in 1 .. w : s[i] % BYTE \in Nat
  BY <1>1, <1>2 DEF Shifts
<1> QED
  BY <1>1, <1>3

(* Division and remainder, for any divisor.                                *)
LEMMA DivMod ==
  ASSUME NEW n \in Nat, NEW b \in Nat, b > 0
  PROVE  /\ n \div b \in Nat /\ n % b \in 0 .. b - 1
         /\ n = (n \div b) * b + (n % b)
         /\ n < b * b => n \div b < b
<1>1. n \div b \in Nat /\ n % b \in 0 .. b - 1
  OBVIOUS
<1>2. n = b * (n \div b) + (n % b)
  BY Z3
<1> QED
  BY <1>1, <1>2

LEMMA PutTwo ==
  ASSUME NEW v \in Nat
  PROVE  /\ put(v, 2) \in Seq(Nat) /\ Len(put(v, 2)) = 2
         /\ v < BYTE * BYTE => put(v, 2)[1] * BYTE + put(v, 2)[2] = v
<1>1. PICK s : Shifts(s, v, 2) /\ put(v, 2) = [i \in 1 .. 2 |-> s[i] % BYTE]
  BY PutIs
<1>2. put(v, 2)[1] = (v \div BYTE) % BYTE /\ put(v, 2)[2] = v % BYTE
  BY <1>1 DEF Shifts
<1>3. PICK b \in Nat : b = BYTE /\ b > 0
  BY MgmtAssumption
<1>4. PICK d \in Nat : d = v \div b
  BY <1>3, DivMod
<1>5. PICK r \in Nat : r = v % b
  BY <1>3, DivMod
<1>6. v = d * b + r /\ (v < b * b => d < b)
  BY <1>3, <1>4, <1>5, DivMod
<1>7. d < b => d % b = d
  BY <1>3, Z3
<1>8. v < BYTE * BYTE => put(v, 2)[1] * BYTE + put(v, 2)[2] = v
  <2>1. put(v, 2)[1] = d % b /\ put(v, 2)[2] = r
    BY <1>2, <1>3, <1>4, <1>5
  <2>2. v < b * b => (d % b) * b + r = v
    BY <1>6, <1>7
  <2> QED
    BY <1>3, <2>1, <2>2
<1> QED
  BY <1>8, PutType

LEMMA NumberOfTwo ==
  ASSUME NEW digits \in Seq(Nat), Len(digits) = 2
  PROVE  Number(digits) = digits[1] * BYTE + digits[2]
<1> DEFINE n[i \in 0 .. Len(digits)] ==
             IF i = 0 THEN 0 ELSE n[i - 1] * BYTE + digits[i]
           t == [i \in 0 .. 2 |-> IF i = 0 THEN 0 ELSE
                                  IF i = 1 THEN digits[1] ELSE digits[1] * BYTE + digits[2]]
<1>1. BYTE \in Nat /\ digits[1] \in Nat /\ digits[2] \in Nat
  <2>1. BYTE \in Nat
    BY MgmtAssumption
  <2>2. \A i \in 1 .. 2 : digits[i] \in Nat
    BY ElementOfSeq
  <2> QED
    BY <2>1, <2>2
<1>2. Number(digits) = n[2]
  BY DEF Number
<1>3. t = [i \in 0 .. Len(digits) |-> IF i = 0 THEN 0 ELSE t[i - 1] * BYTE + digits[i]]
  <2>1. ASSUME NEW i \in 0 .. 2
        PROVE  t[i] = IF i = 0 THEN 0 ELSE t[i - 1] * BYTE + digits[i]
    <3>1. CASE i = 0
      BY <3>1
    <3>2. CASE i = 1
      <4>1. t[1] = digits[1] /\ t[0] = 0 /\ 0 * BYTE + digits[1] = digits[1]
        BY <1>1
      <4> QED
        BY <3>2, <4>1
    <3>3. CASE i = 2
      <4>1. t[2] = digits[1] * BYTE + digits[2] /\ t[1] = digits[1]
        OBVIOUS
      <4> QED
        BY <3>3, <4>1
    <3> QED
      BY <3>1, <3>2, <3>3
  <2>2. t = [i \in 0 .. 2 |-> t[i]]
    OBVIOUS
  <2> HIDE DEF t
  <2> QED
    BY <2>1, <2>2
<1> HIDE DEF t
<1>4. n = [i \in 0 .. Len(digits) |-> IF i = 0 THEN 0 ELSE n[i - 1] * BYTE + digits[i]]
  BY <1>3
<1> HIDE DEF n
<1>5. n[0] = 0 /\ n[1] = n[0] * BYTE + digits[1] /\ n[2] = n[1] * BYTE + digits[2]
  BY <1>4
<1>6. n[1] = digits[1]
  BY <1>1, <1>5
<1> QED
  BY <1>2, <1>5, <1>6

LEMMA JoinBehind ==
  ASSUME NEW p \in Seq(Nat), NEW q \in Seq(Nat)
  PROVE  /\ \A x \in 1 .. Len(q) : (p \o q)[Len(p) + x] = q[x]
         /\ \A i, j \in Nat : i >= 1 /\ j <= Len(q) =>
              SubSeq(p \o q, Len(p) + i, Len(p) + j) = SubSeq(q, i, j)
<1>1. \A x \in 1 .. Len(q) : (p \o q)[Len(p) + x] = q[x]
  OBVIOUS
<1>2. \A i, j \in Nat : i >= 1 /\ j <= Len(q) =>
        SubSeq(p \o q, Len(p) + i, Len(p) + j) = SubSeq(q, i, j)
  BY SubSeqOfSuffix
<1> QED
  BY <1>1, <1>2

Header(h, cmd, status, n) ==
  /\ h \in Seq(Nat) /\ Len(h) = 5 /\ h[1] = SMP_VERSION
  /\ h[2] = cmd /\ h[3] = status
  /\ n < BYTE * BYTE => DataLen(h, 0) = n

LEMMA HeaderBytes ==
  ASSUME NEW cmd \in Nat, NEW status \in Nat, NEW n \in Nat
  PROVE  Header(resp_header(cmd, status, n), cmd, status, n)
<1>8. PICK h : h = resp_header(cmd, status, n)
  OBVIOUS
<1>0. PICK p : p = put(n, 2)
  OBVIOUS
<1>1. p \in Seq(Nat) /\ Len(p) = 2 /\ (n < BYTE * BYTE => p[1] * BYTE + p[2] = n)
  BY <1>0, PutTwo
<1>7. PICK a : a = <<SMP_VERSION, cmd, status>>
  OBVIOUS
<1>2. /\ a \in Seq(Nat) /\ a = <<SMP_VERSION, cmd, status>>
      /\ Len(a) = 3 /\ a[1] = SMP_VERSION /\ a[2] = cmd /\ a[3] = status
  BY <1>7 DEF SMP_VERSION
<1>3. h = a \o p
  BY <1>0, <1>2, <1>8 DEF resp_header
<1>4. /\ h \in Seq(Nat) /\ Len(h) = Len(a) + Len(p)
      /\ \A x \in 1 .. Len(a) : h[x] = a[x]
      /\ \A x \in 1 .. Len(p) : h[Len(a) + x] = p[x]
  <2>1. \A x \in 1 .. Len(p) : (a \o p)[Len(a) + x] = p[x]
    BY ONLY <1>2, <1>1, JoinBehind, Zenon
  <2>2. /\ h \in Seq(Nat) /\ Len(h) = Len(a) + Len(p)
        /\ \A x \in 1 .. Len(a) : h[x] = a[x]
    BY ONLY <1>2, <1>1, <1>3, JoinFacts
  <2> QED
    BY <1>3, <2>1, <2>2, Zenon
<1>5. /\ Len(h) = 5 /\ h[1] = a[1] /\ h[2] = a[2] /\ h[3] = a[3]
      /\ h[4] = p[1] /\ h[5] = p[2]
  BY ONLY <1>1, <1>2, <1>4
<1>6. DataLen(h, 0) = p[1] * BYTE + p[2]
  BY <1>5 DEF DataLen
<1> QED
  BY <1>1, <1>2, <1>4, <1>5, <1>6, <1>8 DEF Header

Framed(t, cmd, status, data) ==
  /\ Frame(t) /\ Len(t) = 5 + Len(data)
  /\ Response(t, 1) = [cmd |-> cmd, status |-> status, data |-> data]

(* A header that announces its data, with the data, is a whole response.   *)
LEMMA FrameIs ==
  ASSUME NEW cmd \in Nat, NEW status \in Nat, NEW data \in Seq(Nat), NEW n \in Nat,
         Len(data) = n, n < BYTE * BYTE, NEW t, t = resp_header(cmd, status, n) \o data
  PROVE  Framed(t, cmd, status, data)
<1>1. PICK h : h = resp_header(cmd, status, n)
  OBVIOUS
<1>2. /\ h \in Seq(Nat) /\ Len(h) = 5
      /\ h[2] = cmd /\ h[3] = status /\ DataLen(h, 0) = n
  <2>1. Header(h, cmd, status, n)
    BY ONLY <1>1, HeaderBytes, cmd \in Nat, status \in Nat, n \in Nat
  <2> QED
    BY <2>1, Zenon DEF Header
<1>3. /\ t \in Seq(Nat) /\ Len(t) = 5 + n
      /\ t[2] = cmd /\ t[3] = status /\ t[4] = h[4] /\ t[5] = h[5]
  <2>1. t = h \o data
    BY <1>1
  <2>2. t \in Seq(Nat) /\ Len(t) = Len(h) + Len(data) /\ \A x \in 1 .. Len(h) : t[x] = h[x]
    BY ONLY <1>2, <2>1, JoinFacts, data \in Seq(Nat)
  <2> QED
    BY ONLY <1>2, <2>2, Len(data) = n
<1>4. DataLen(t, 0) = n
  BY <1>2, <1>3, SMTT(30) DEF DataLen
<1>5. NextAt(t, 1) - 1 = 5 + n
  <2>1. 1 - 1 = 0
    OBVIOUS
  <2>2. NextAt(t, 1) = 1 + 5 + n
    BY ONLY <1>4, <2>1 DEF NextAt
  <2> QED
    BY <2>2
<1>6. SubSeq(t, 1 + 5, 5 + n) = data
  <2>1. SubSeq(h \o data, Len(h) + 1, Len(h) + n) = SubSeq(data, 1, n)
    <3>1. 1 \in Nat /\ 1 >= 1 /\ n <= Len(data)
      OBVIOUS
    <3> QED
      BY <1>2, <3>1, SubSeqOfSuffix, ZenonT(40)
  <2>2. SubSeq(data, 1, n) = data
    BY SubSeqFull
  <2>3. Len(h) + 1 = 1 + 5 /\ Len(h) + n = 5 + n
    BY <1>2
  <2> QED
    BY <1>1, <2>1, <2>2, <2>3
<1>7. Frame(t)
  BY <1>3, <1>4 DEF Frame
<1>8. t[1 + 1] = cmd /\ t[1 + 2] = status
  BY <1>3
<1> QED
  BY <1>3, <1>4, <1>5, <1>6, <1>7, <1>8 DEF Response, Framed

-----------------------------------------------------------------------------
(* The users in the order of their slots.                                  *)

Rank(S, j) == Cardinality({k \in S : k < j})

(* Every rank belongs to one element of a set of numbers.                  *)
LEMMA RanksAreUnique ==
  ASSUME NEW S \in SUBSET Nat, IsFiniteSet(S)
  PROVE  /\ \A j \in S : Rank(S, j) \in 0 .. Cardinality(S) - 1
         /\ \A i, j \in S : Rank(S, i) = Rank(S, j) => i = j
         /\ \A r \in 0 .. Cardinality(S) - 1 : \E j \in S : Rank(S, j) = r
<1> DEFINE less(j) == {k \in S : k < j}
<1>1. \A j \in S : /\ IsFiniteSet(less(j)) /\ Rank(S, j) = Cardinality(less(j))
                   /\ Rank(S, j) \in Nat
  <2> TAKE j \in S
  <2>1. less(j) \in SUBSET S
    OBVIOUS
  <2>2. IsFiniteSet(less(j))
    BY <2>1, FS_Subset
  <2> QED
    BY <2>2, FS_CardinalityType DEF Rank
<1>2. Cardinality(S) \in Nat
  BY FS_CardinalityType
<1>3. \A i, j \in S : i < j => Rank(S, i) < Rank(S, j)
  <2> TAKE i, j \in S
  <2> HAVE i < j
  <2> DEFINE T == less(i) \cup {i}
  <2>0. i \in Nat /\ j \in Nat /\ \A k \in S : k \in Nat
    OBVIOUS
  <2>4. \A k \in S : (k < i => k < j) /\ ~(i < i)
    BY <2>0
  <2>1. i \notin less(i) /\ T \in SUBSET less(j)
    BY <2>4, Zenon
  <2>2. Cardinality(T) = Cardinality(less(i)) + 1
    BY <1>1, <2>1, FS_AddElement
  <2>3. Cardinality(T) <= Cardinality(less(j))
    BY <1>1, <2>1, FS_Subset
  <2> HIDE DEF less, T
  <2> QED
    BY <1>1, <2>2, <2>3
<1>4. \A j \in S : Rank(S, j) \in 0 .. Cardinality(S) - 1
  <2> TAKE j \in S
  <2> DEFINE T == less(j) \cup {j}
  <2>1. j \notin less(j) /\ T \in SUBSET S
    OBVIOUS
  <2>2. Cardinality(T) = Cardinality(less(j)) + 1
    BY <1>1, <2>1, FS_AddElement
  <2>3. Cardinality(T) <= Cardinality(S)
    BY <2>1, FS_Subset
  <2> HIDE DEF less, T
  <2> QED
    BY <1>1, <1>2, <2>2, <2>3
<1>5. \A i, j \in S : Rank(S, i) = Rank(S, j) => i = j
  <2> TAKE i, j \in S
  <2>1. i \in Nat /\ j \in Nat /\ Rank(S, i) \in Nat /\ Rank(S, j) \in Nat
    BY <1>1
  <2>2. i < j \/ j < i \/ i = j
    BY <2>1
  <2> QED
    BY <1>3, <2>1, <2>2
<1>6. \A r \in 0 .. Cardinality(S) - 1 : \E j \in S : Rank(S, j) = r
  <2> DEFINE R == 0 .. Cardinality(S) - 1
             f == [j \in S |-> Rank(S, j)]
  <2>1. f \in [S -> R] /\ \A i, j \in S : f[i] = f[j] => i = j
    BY <1>4, <1>5
  <2>2. f \in Injection(S, R)
    BY <2>1 DEF Injection, IsInjective
  <2>3. IsFiniteSet(R) /\ Cardinality(R) = Cardinality(S)
    <3> DEFINE c == Cardinality(S)
    <3>1. c \in Nat /\ 0 \in Int /\ c - 1 \in Int
      BY <1>2
    <3> HIDE DEF c
    <3>2. IsFiniteSet(0 .. c - 1) /\ Cardinality(0 .. c - 1) = IF 0 > c - 1 THEN 0 ELSE (c - 1) - 0 + 1
      BY <3>1, FS_Interval
    <3>3. Cardinality(0 .. c - 1) = c
      BY <3>1, <3>2
    <3> QED
      BY <3>2, <3>3 DEF c
  <2>4. f \in Surjection(S, R)
    BY <2>2, <2>3, FS_Injection
  <2>5. \A r \in R : \E j \in S : f[j] = r
    BY <2>4 DEF Surjection
  <2> QED
    BY <2>5
<1> QED
  BY <1>4, <1>5, <1>6

NameAt(d, i) == users_name_at(d, i - 1)

(* Each user is at one place of the list, and each place has a user.       *)
LEMMA NamesInOrder ==
  ASSUME NEW d, IsTable(d), NEW c, c = users_count(d)
  PROVE  /\ c \in 0 .. USERS_MAX /\ c = Cardinality(DOMAIN AsMap(d))
         /\ \A i \in 1 .. c : NameAt(d, i) \in NameField /\ NameAt(d, i) \in DOMAIN AsMap(d)
         /\ \A i, j \in 1 .. c : NameAt(d, i) = NameAt(d, j) => i = j
         /\ \A n \in DOMAIN AsMap(d) : \E i \in 1 .. c : NameAt(d, i) = n
<1> DEFINE S == Used(d)
           Slots(i) == {j \in S : Rank(S, j) = i - 1}
           slot(i) == CHOOSE j \in S : Rank(S, j) = i - 1
<1>1. IsFiniteSet(S) /\ c = Cardinality(S) /\ c = Cardinality(DOMAIN AsMap(d)) /\ c \in 0 .. USERS_MAX
  BY NamesAreSlots DEF users_count
<1>2. S \subseteq Slot /\ S \in SUBSET Nat
  <2>1. USERS_MAX \in Nat
    BY UsersAssumption
  <2> QED
    BY <2>1 DEF Used, Slot
<1>3. /\ \A j \in S : Rank(S, j) \in 0 .. c - 1
      /\ \A i, j \in S : Rank(S, i) = Rank(S, j) => i = j
      /\ \A r \in 0 .. c - 1 : \E j \in S : Rank(S, j) = r
  BY <1>1, <1>2, RanksAreUnique
<1>4. \A i \in 1 .. c : slot(i) \in S /\ Rank(S, slot(i)) = i - 1
  <2> TAKE i \in 1 .. c
  <2>1. i - 1 \in 0 .. c - 1
    BY <1>1
  <2>2. \E j \in S : Rank(S, j) = i - 1
    BY <1>3, <2>1
  <2> QED
    BY <2>2
<1>5. \A i : NameAt(d, i) = d[slot(i)].name
  BY DEF NameAt, users_name_at, Rank
<1> HIDE DEF slot
<1>6. DOMAIN AsMap(d) = {d[i].name : i \in S}
  BY MapOfTable
<1>7. \A i \in S : d[i].name \in NameField /\ i \in Slot /\ d[i].used
  BY DEF Used, IsTable
<1>8. \A i \in 1 .. c : NameAt(d, i) \in NameField /\ NameAt(d, i) \in DOMAIN AsMap(d)
  BY <1>4, <1>5, <1>6, <1>7
<1>9. \A i, j \in 1 .. c : NameAt(d, i) = NameAt(d, j) => i = j
  <2> TAKE i, j \in 1 .. c
  <2> HAVE NameAt(d, i) = NameAt(d, j)
  <2>1. slot(i) = slot(j)
    BY <1>4, <1>5, <1>7 DEF IsTable
  <2>2. i - 1 = j - 1
    BY <1>4, <2>1
  <2> QED
    BY <2>2, <1>1
<1>10. \A n \in DOMAIN AsMap(d) : \E i \in 1 .. c : NameAt(d, i) = n
  <2> TAKE n \in DOMAIN AsMap(d)
  <2>1. PICK j \in S : d[j].name = n
    BY <1>6
  <2>2. PICK r \in 0 .. c - 1 : Rank(S, j) = r
    BY <1>3
  <2>3. r + 1 \in 1 .. c /\ (r + 1) - 1 = r
    BY <1>1
  <2>4. slot(r + 1) = j
    BY <1>3, <1>4, <2>2, <2>3
  <2>5. NameAt(d, r + 1) = n
    BY <1>5, <2>1, <2>4
  <2> QED
    BY <2>3, <2>5
<1> QED
  BY <1>1, <1>8, <1>9, <1>10

\* l[i] is the list of the first i users.
Listed(l, d, c) ==
  /\ l \in [0 .. c -> Seq(Nat)] /\ l[0] = <<>>
  /\ \A i \in 1 .. c : l[i] = l[i - 1] \o <<Len(NameAt(d, i))>> \o NameAt(d, i)

LEMMA ListIs ==
  ASSUME NEW d, IsTable(d), NEW c, c = users_count(d)
  PROVE  \E l : /\ Listed(l, d, c)
                /\ resp_list_users(d) = resp_header(LIST_USERS, OK, 2 + Len(l[c]))
                                          \o put(c, 2) \o l[c]
<1> DEFINE X == Seq(Nat)
           next(i, x) == x \o <<Len(NameAt(d, i))>> \o NameAt(d, i)
           g == [i \in 1 .. c |-> [x \in X |-> next(i, x)]]
           list[i \in 0 .. users_count(d)] ==
             IF i = 0 THEN <<>>
             ELSE LET n == users_name_at(d, i - 1) IN list[i - 1] \o <<Len(n)>> \o n
<1>1. c \in Nat /\ \A i \in 1 .. c : NameAt(d, i) \in Seq(Nat)
  <2>1. c \in 0 .. USERS_MAX /\ USERS_MAX \in Nat /\ \A i \in 1 .. c : NameAt(d, i) \in NameField
    BY NamesInOrder, UsersAssumption
  <2> QED
    BY <2>1 DEF NameField
<1>2. \A i \in 1 .. c : \A x \in X : next(i, x) \in X
  <2> TAKE i \in 1 .. c
  <2> TAKE x \in X
  <2>1. PICK n \in Seq(Nat) : n = NameAt(d, i)
    BY <1>1
  <2>2. <<Len(n)>> \in Seq(Nat)
    OBVIOUS
  <2>3. x \o <<Len(n)>> \o n \in Seq(Nat)
    BY <2>2
  <2> QED
    BY <2>1, <2>3
<1>3. Steps(c, X, g)
  <2> HIDE DEF next, X
  <2> QED
    BY <1>2 DEF Steps
<1>4. <<>> \in X
  OBVIOUS
<1>5. PICK l : Iterates(l, c, X, <<>>, g)
  <2> HIDE DEF g, X
  <2> QED
    BY <1>1, <1>3, <1>4, RecursionExists
<1>6. l \in [0 .. c -> X] /\ l[0] = <<>> /\ \A i \in 1 .. c : l[i] = g[i][l[i - 1]]
  <2> HIDE DEF g, X
  <2> QED
    BY <1>5 DEF Iterates
<1>7. \A i \in 1 .. c : l[i] = next(i, l[i - 1])
  <2> TAKE i \in 1 .. c
  <2>2. i - 1 \in 0 .. c
    BY <1>1
  <2>1. l[i - 1] \in X
    BY <1>6, <2>2
  <2> HIDE DEF next, X
  <2> QED
    BY <1>6, <2>1
<1>8. Listed(l, d, c)
  BY <1>6, <1>7 DEF Listed
<1> DEFINE body(i, f) == IF i = 0 THEN <<>> ELSE
             LET n == users_name_at(d, i - 1) IN f[i - 1] \o <<Len(n)>> \o n
<1>9. l = [i \in 0 .. users_count(d) |-> body(i, l)]
  <2>1. \A i \in 1 .. c : body(i, l) = next(i, l[i - 1])
    <3> TAKE i \in 1 .. c
    <3>1. i # 0
      BY <1>1
    <3>2. body(i, l) = l[i - 1] \o <<Len(users_name_at(d, i - 1))>> \o users_name_at(d, i - 1)
      BY <3>1, Zenon
    <3> QED
      BY <3>2, Zenon DEF NameAt
  <2>2. body(0, l) = <<>>
    OBVIOUS
  <2>3. \A i \in 0 .. c : i = 0 \/ i \in 1 .. c
    BY <1>1
  <2> HIDE DEF body, next
  <2> QED
    BY <1>6, <1>7, <2>1, <2>2, <2>3
<1>10. list = [i \in 0 .. users_count(d) |-> body(i, list)]
  BY <1>9, Zenon
<1>11. resp_list_users(d) = resp_header(LIST_USERS, OK, 2 + Len(list[c])) \o put(c, 2) \o list[c]
  BY DEF resp_list_users
<1> HIDE DEF list
<1>12. \A i \in 0 .. c : list[i] = body(i, list)
  <2> HIDE DEF body
  <2> QED
    BY <1>10
<1>13. list = [i \in 0 .. c |-> list[i]]
  <2> HIDE DEF body
  <2> QED
    BY <1>10
<1> DEFINE P == {i \in 0 .. c : list[i] = l[i]}
<1>14. 0 \in P
  <2>1. 0 \in 0 .. c
    BY <1>1
  <2>2. list[0] = <<>>
    BY <1>12, <2>1
  <2> QED
    BY <1>6, <2>1, <2>2
<1>15. ASSUME NEW i \in 0 .. c - 1, i \in P PROVE i + 1 \in P
  <2>1. i + 1 \in 1 .. c /\ (i + 1) - 1 = i /\ i + 1 # 0 /\ i + 1 \in 0 .. c
    BY <1>1
  <2>2. list[i + 1] = next(i + 1, list[i])
    BY <1>12, <2>1 DEF NameAt
  <2>3. l[i + 1] = next(i + 1, l[i])
    BY <1>7, <2>1
  <2> QED
    BY <1>15, <2>1, <2>2, <2>3
<1>16. \A i \in 0 .. c : i \in P
  <2> HIDE DEF P
  <2> QED
    BY <1>1, <1>14, <1>15, Induction
<1>17. list[c] = l[c]
  BY <1>1, <1>16
<1> QED
  BY <1>8, <1>11, <1>17

(* No list is longer than a table full of the longest names.               *)
LEMMA ListLength ==
  ASSUME NEW d, IsTable(d), NEW c, c = users_count(d), NEW l, Listed(l, d, c)
  PROVE  \A i \in 0 .. c : Len(l[i]) \in Nat /\ Len(l[i]) <= i * (1 + USERS_MAX_NAME)
<1> DEFINE P == {i \in 0 .. c : Len(l[i]) <= i * (1 + USERS_MAX_NAME)}
<1>1. c \in Nat /\ \A i \in 1 .. c : NameAt(d, i) \in NameField
  <2>1. c \in 0 .. USERS_MAX /\ USERS_MAX \in Nat /\ \A i \in 1 .. c : NameAt(d, i) \in NameField
    BY NamesInOrder, UsersAssumption
  <2> QED
    BY <2>1
<1>2. PICK b \in Nat : b = 1 + USERS_MAX_NAME
  BY UsersAssumption
<1>3. \A i \in 0 .. c : l[i] \in Seq(Nat) /\ Len(l[i]) \in Nat
  BY DEF Listed
<1>4. 0 \in P
  <2>1. 0 \in 0 .. c /\ Len(l[0]) = 0 /\ 0 * b = 0
    BY <1>1, <1>2 DEF Listed
  <2> QED
    BY <1>2, <2>1
<1>5. ASSUME NEW i \in 0 .. c - 1, i \in P PROVE i + 1 \in P
  <2>1. i + 1 \in 1 .. c /\ (i + 1) - 1 = i /\ i + 1 \in 0 .. c /\ i \in 0 .. c
    BY <1>1
  <2>2. PICK n \in Seq(Nat) : n = NameAt(d, i + 1) /\ Len(n) <= b - 1 /\ Len(n) \in Nat
    BY <1>1, <1>2, <2>1, UsersAssumption DEF NameField, valid_field
  <2>3. l[i + 1] = l[i] \o <<Len(n)>> \o n
    BY <2>1, <2>2 DEF Listed
  <2>4. Len(l[i + 1]) = Len(l[i]) + 1 + Len(n)
    <3>1. PICK x \in Seq(Nat) : x = l[i]
      BY <1>3, <2>1
    <3>2. Len(x \o <<Len(n)>> \o n) = Len(x) + 1 + Len(n)
      BY <2>2
    <3> QED
      BY <2>3, <3>1, <3>2
  <2>5. Len(l[i]) <= i * b
    BY <1>2, <1>5
  <2>6. (i + 1) * b = i * b + b /\ i * b \in Nat
    BY <1>1, <1>2
  <2>7. Len(l[i + 1]) <= (i + 1) * b
    <3>1. PICK y \in Nat : y = i * b
      BY <2>6
    <3>2. PICK z \in Nat : z = Len(l[i])
      BY <1>3, <2>1
    <3>4. PICK w \in Nat : w = Len(n)
      BY <2>2
    <3>5. z <= y /\ w <= b - 1
      BY <2>2, <2>5, <3>1, <3>2, <3>4
    <3>6. z + 1 + w <= y + b
      BY <3>5
    <3>3. z + 1 + Len(n) <= y + b
      BY <3>4, <3>6
    <3> QED
      BY <2>4, <2>6, <3>1, <3>2, <3>3
  <2> QED
    BY <1>2, <2>1, <2>7
<1>6. \A i \in 0 .. c : i \in P
  <2> HIDE DEF P
  <2> QED
    BY <1>1, <1>4, <1>5, Induction
<1> QED
  BY <1>3, <1>6

ListGrows(l, c) == \A i \in 1 .. c : \E x \in Seq(Nat) : l[c] = l[i] \o x

LEMMA ListBegins ==
  ASSUME NEW d, IsTable(d), NEW c, c = users_count(d), NEW l, Listed(l, d, c)
  PROVE  ListGrows(l, c)
<1> DEFINE P == {i \in 1 .. c : \E x \in Seq(Nat) : l[c] = l[i] \o x}
<1>1. c \in Nat /\ \A i \in 1 .. c : NameAt(d, i) \in Seq(Nat)
  <2>1. c \in 0 .. USERS_MAX /\ USERS_MAX \in Nat /\ \A i \in 1 .. c : NameAt(d, i) \in NameField
    BY NamesInOrder, UsersAssumption
  <2> QED
    BY <2>1 DEF NameField
<1>2. \A i \in 0 .. c : l[i] \in Seq(Nat)
  BY DEF Listed
<1>3. ASSUME NEW i \in 1 .. c, \A j \in i + 1 .. c : j \in P PROVE i \in P
  <2>1. CASE i = c
    <3>1. l[c] \in Seq(Nat)
      BY <1>1, <1>2
    <3>2. l[c] = l[c] \o <<>> /\ <<>> \in Seq(Nat)
      BY <3>1
    <3> QED
      BY <2>1, <3>2
  <2>2. CASE i # c
    <3>1. i + 1 \in i + 1 .. c /\ i + 1 \in 1 .. c /\ (i + 1) - 1 = i /\ i \in 0 .. c
      BY <1>1, <2>2
    <3>2. PICK x \in Seq(Nat) : l[c] = l[i + 1] \o x
      BY <1>3, <3>1
    <3>3. PICK n \in Seq(Nat) : n = NameAt(d, i + 1)
      BY <1>1, <3>1
    <3>4. PICK a \in Seq(Nat) : a = l[i]
      BY <1>2, <3>1
    <3>10. <<Len(n)>> \in Seq(Nat)
      OBVIOUS
    <3>5. PICK b \in Seq(Nat) : b = <<Len(n)>>
      BY <3>10
    <3>6. l[c] = ((a \o b) \o n) \o x
      BY <3>1, <3>2, <3>3, <3>4, <3>5 DEF Listed
    <3>7. a \o b \in Seq(Nat) /\ n \o x \in Seq(Nat) /\ b \o (n \o x) \in Seq(Nat)
      OBVIOUS
    <3>8. Associate(a \o b, n, x) /\ Associate(a, b, n \o x)
      BY <3>7, JoinsAssociate
    <3>9. ((a \o b) \o n) \o x = a \o (b \o (n \o x))
      BY <3>8 DEF Associate
    <3> QED
      BY <3>4, <3>6, <3>7, <3>9
  <2> QED
    BY <2>1, <2>2
<1>4. \A i \in 1 .. c : i \in P
  <2> HIDE DEF P
  <2> QED
    BY <1>1, <1>3, GoingBack
<1> QED
  BY <1>4, Zenon DEF ListGrows

-----------------------------------------------------------------------------
(* The loop of the client that shows a list of users.                      *)

Stops(data, i) == i > Len(data) \/ i + data[i] > Len(data)

\* f[i] is what Shown finds in data from its i-th byte on.
Shows(f, data) ==
  /\ f \in [1 .. Len(data) + 1 -> Seq(Seq(Nat))]
  /\ \A i \in 1 .. Len(data) + 1 :
       f[i] = IF Stops(data, i) THEN <<>>
              ELSE <<SubSeq(data, i + 1, i + data[i])>> \o f[i + 1 + data[i]]

LEMMA ShownIs ==
  ASSUME NEW data \in Seq(Nat)
  PROVE  \E f : Shows(f, data) /\ Shown(data) = f[3]
<1> DEFINE X == Seq(Seq(Nat))
           n == Len(data) + 1
           F == [1 .. n -> X]
           here(i, f) == <<SubSeq(data, i + 1, i + data[i])>> \o f[i + 1 + data[i]]
           val(i, f) == IF Stops(data, i) THEN <<>> ELSE here(i, f)
           g == [i \in 1 .. n |-> [f \in F |-> val(i, f)]]
           from[i \in 1 .. Len(data) + 1] ==
             IF i > Len(data) \/ i + data[i] > Len(data) THEN <<>>
             ELSE <<SubSeq(data, i + 1, i + data[i])>> \o from[i + 1 + data[i]]
<1>1. n \in Nat /\ Len(data) \in Nat /\ n = Len(data) + 1
  OBVIOUS
<1>2. \A i \in 1 .. n : ~Stops(data, i) =>
        /\ i + 1 + data[i] \in 1 .. n /\ i + 1 + data[i] \in i + 1 .. n
        /\ SubSeq(data, i + 1, i + data[i]) \in Seq(Nat)
  <2> TAKE i \in 1 .. n
  <2> HAVE ~Stops(data, i)
  <2>1. PICK m \in Nat : m = Len(data)
    BY <1>1
  <2>2. i \in 1 .. m /\ ~(i + data[i] > m)
    BY <1>1, <2>1 DEF Stops
  <2>3. PICK x \in Nat : x = data[i]
    BY <2>1, <2>2
  <2>4. i + 1 + x \in 1 .. m + 1 /\ i + 1 + x \in i + 1 .. m + 1 /\ i + x <= m
    BY <2>2, <2>3, SMTT(30)
  <2>5. \A y \in i + 1 .. i + x : y \in 1 .. m
    BY <2>2, <2>4
  <2>6. \A y \in i + 1 .. i + x : data[y] \in Nat
    BY <2>1, <2>5
  <2>7. i + 1 \in Int /\ i + x \in Int
    BY <2>2
  <2>8. SubSeq(data, i + 1, i + x) \in Seq(Nat)
    BY <2>6, <2>7, SubSeqProperties
  <2> QED
    BY <2>1, <2>3, <2>4, <2>8
<1>3. \A i \in 1 .. n : \A f : ~Stops(data, i) /\ f[i + 1 + data[i]] \in X => here(i, f) \in X
  <2> TAKE i \in 1 .. n
  <2> TAKE f
  <2> HAVE ~Stops(data, i) /\ f[i + 1 + data[i]] \in X
  <2>1. <<SubSeq(data, i + 1, i + data[i])>> \in X
    BY <1>2
  <2> QED
    BY <2>1
<1>4. Shown(data) = from[3]
  BY DEF Shown
<1>5. \A i \in 1 .. n : \A f \in F : val(i, f) \in X
  <2> TAKE i \in 1 .. n
  <2> TAKE f \in F
  <2>1. ~Stops(data, i) => f[i + 1 + data[i]] \in X
    BY <1>2
  <2>2. <<>> \in X
    OBVIOUS
  <2> HIDE DEF here, X
  <2> QED
    BY <2>1, <2>2, <1>3
<1>6. g \in [1 .. n -> [F -> X]]
  <2> HIDE DEF val, F, X
  <2> QED
    BY <1>5
<1>7. \A i \in 1 .. n : \A f, h \in F : (\A j \in i + 1 .. n : f[j] = h[j]) => g[i][f] = g[i][h]
  <2> TAKE i \in 1 .. n
  <2> TAKE f, h \in F
  <2> HAVE \A j \in i + 1 .. n : f[j] = h[j]
  <2>1. ~Stops(data, i) => f[i + 1 + data[i]] = h[i + 1 + data[i]]
    BY <1>2
  <2>2. val(i, f) = val(i, h)
    BY <2>1
  <2>3. g[i][f] = val(i, f) /\ g[i][h] = val(i, h)
    <3> HIDE DEF val, F
    <3> QED
      OBVIOUS
  <2> HIDE DEF g, val
  <2> QED
    BY <2>2, <2>3
<1>8. StepsBack(n, X, g)
  <2> HIDE DEF g, n, X
  <2> QED
    BY <1>6, <1>7 DEF StepsBack
<1>9. PICK f \in F : \A i \in 1 .. n : f[i] = g[i][f]
  <2>1. <<>> \in X /\ n \in Nat
    BY <1>1
  <2> HIDE DEF g, n, X
  <2>2. \E f : IteratesBack(f, n, X, g)
    BY <1>8, <2>1, BackwardsExists
  <2> QED
    BY <2>2 DEF IteratesBack
<1>10. \A i \in 1 .. n : f[i] = val(i, f)
  <2> HIDE DEF val, F
  <2> QED
    BY <1>9
<1> DEFINE body(i, h) ==
             IF i > Len(data) \/ i + data[i] > Len(data) THEN <<>>
             ELSE <<SubSeq(data, i + 1, i + data[i])>> \o h[i + 1 + data[i]]
<1>11. \A i, h : body(i, h) = val(i, h)
  BY Zenon DEF Stops
<1>12. f = [i \in 1 .. Len(data) + 1 |-> body(i, f)]
  <2> HIDE DEF body, val, X
  <2> QED
    BY <1>10, <1>11
<1>13. from = [i \in 1 .. Len(data) + 1 |-> body(i, from)]
  BY <1>12, Zenon
<1> HIDE DEF from, g
<1>14. \A i \in 1 .. n : from[i] = val(i, from)
  <2> HIDE DEF body, val
  <2> QED
    BY <1>11, <1>13
<1>15. from = [i \in 1 .. n |-> from[i]]
  <2> HIDE DEF body
  <2> QED
    BY <1>13
<1> DEFINE P == {i \in 1 .. n : from[i] \in X}
<1>16. ASSUME NEW i \in 1 .. n, \A j \in i + 1 .. n : j \in P PROVE i \in P
  <2>1. ~Stops(data, i) => from[i + 1 + data[i]] \in X
    BY <1>2, <1>16
  <2>2. <<>> \in X
    OBVIOUS
  <2>3. val(i, from) \in X
    <3> HIDE DEF here, X
    <3> QED
      BY <2>1, <2>2, <1>3
  <2> HIDE DEF val, X
  <2> QED
    BY <2>3, <1>14
<1>17. \A i \in 1 .. n : i \in P
  <2> HIDE DEF P, n
  <2> QED
    BY <1>1, <1>16, GoingBack
<1>18. from \in [1 .. Len(data) + 1 -> Seq(Seq(Nat))]
  <2>1. from \in [1 .. n -> X]
    <3> HIDE DEF X, n
    <3> QED
      BY <1>15, <1>17
  <2> QED
    BY <2>1
<1>19. Shows(from, data)
  <2>1. \A i \in 1 .. Len(data) + 1 :
          from[i] = IF Stops(data, i) THEN <<>>
                    ELSE <<SubSeq(data, i + 1, i + data[i])>> \o from[i + 1 + data[i]]
    BY <1>14, Zenon
  <2> QED
    BY ONLY <1>18, <2>1 DEF Shows
<1> QED
  BY <1>4, <1>19

\* n is in q behind its length, which is at p.
HasField(q, p, n) == q[p] = Len(n) /\ SubSeq(q, p + 1, p + Len(n)) = n

(* A field in the middle of a sequence, its length in front.               *)
LEMMA FieldIn ==
  ASSUME NEW a \in Seq(Nat), NEW n \in Seq(Nat), NEW x \in Seq(Nat)
  PROVE  /\ HasField(((a \o <<Len(n)>>) \o n) \o x, Len(a) + 1, n)
         /\ Len(((a \o <<Len(n)>>) \o n) \o x) = Len(a) + 1 + Len(n) + Len(x)
<1>0. PICK w \in Nat : w = Len(n)
  OBVIOUS
<1>1. PICK b : b = <<w>>
  OBVIOUS
<1>2. b \in Seq(Nat) /\ Len(b) = 1 /\ b[1] = w
  BY <1>1
<1>3. PICK y : y = n \o x
  OBVIOUS
<1>4. PICK u : u = a \o b
  OBVIOUS
<1>5. PICK p \in Nat : p = Len(a) + 1
  OBVIOUS
<1>6. PICK q : q = (u \o n) \o x
  OBVIOUS
<1>7. u \in Seq(Nat) /\ Len(u) = p /\ u[p] = w
  <2>1. u \in Seq(Nat) /\ Len(u) = Len(a) + Len(b) /\ Len(a) \in Nat
    BY <1>2, <1>4, JoinFacts
  <2>2. \A i \in 1 .. Len(b) : u[Len(a) + i] = b[i]
    BY <1>2, <1>4, JoinBehind
  <2> QED
    BY <1>2, <1>5, <2>1, <2>2
<1>8. y \in Seq(Nat) /\ Len(y) = w + Len(x) /\ Len(x) \in Nat
      /\ \A i, j \in Nat : i >= 1 /\ j <= w => SubSeq(y, i, j) = SubSeq(n, i, j)
  BY <1>0, <1>3, JoinFacts
<1>9. q = u \o y
  BY <1>3, <1>6, <1>7, Assoc
<1>10. /\ Len(q) = Len(u) + Len(y) /\ \A i \in 1 .. Len(u) : q[i] = u[i]
  BY <1>7, <1>8, <1>9, JoinFacts
<1>11. q[p] = w
  <2>1. p \in 1 .. p
    BY <1>5
  <2> QED
    BY <1>7, <1>10, <2>1
<1>12. SubSeq(q, p + 1, p + w) = n
  <2>1. 1 \in Nat /\ 1 >= 1 /\ w <= Len(y) /\ w <= w
    BY <1>8
  <2>5. \A i, j \in Nat : i >= 1 /\ j <= Len(y) =>
           SubSeq(u \o y, Len(u) + i, Len(u) + j) = SubSeq(y, i, j)
    BY <1>7, <1>8, JoinBehind
  <2>2. SubSeq(u \o y, Len(u) + 1, Len(u) + w) = SubSeq(y, 1, w)
    BY <2>1, <2>5
  <2>3. SubSeq(y, 1, w) = SubSeq(n, 1, w)
    BY <1>8, <2>1
  <2>4. SubSeq(n, 1, w) = n
    BY <1>0, SubSeqFull
  <2> QED
    BY <1>7, <1>9, <2>2, <2>3, <2>4
<1>13. Len(q) = Len(a) + 1 + w + Len(x)
  <2>1. PICK la \in Nat : la = Len(a)
    OBVIOUS
  <2>2. PICK lx \in Nat : lx = Len(x)
    OBVIOUS
  <2> QED
    BY <1>5, <1>7, <1>8, <1>10, <2>1, <2>2
<1>14. q = ((a \o <<Len(n)>>) \o n) \o x
  BY <1>0, <1>1, <1>4, <1>6
<1> QED
  BY <1>0, <1>5, <1>11, <1>12, <1>13, <1>14, Zenon DEF HasField

ShowsNames(data, d, c, n) ==
  /\ data \in Seq(Nat) /\ Len(data) = 2 + n
  /\ Shown(data) = [i \in 1 .. c |-> NameAt(d, i)]

(* The list shows the names, in the order of the slots.                    *)
LEMMA ListShown ==
  ASSUME NEW d, IsTable(d), NEW c, c = users_count(d), NEW l, Listed(l, d, c),
         NEW data
  PROVE  data = put(c, 2) \o l[c] => ShowsNames(data, d, c, Len(l[c]))
<1>0. HAVE data = put(c, 2) \o l[c]
<1>1. c \in Nat /\ \A i \in 1 .. c : NameAt(d, i) \in Seq(Nat)
  <2>1. c \in 0 .. USERS_MAX /\ USERS_MAX \in Nat /\ \A i \in 1 .. c : NameAt(d, i) \in NameField
    BY NamesInOrder, UsersAssumption
  <2> QED
    BY <2>1 DEF NameField
<1>2. \A i \in 0 .. c : l[i] \in Seq(Nat)
  BY DEF Listed
<1>3. PICK h : h = put(c, 2)
  OBVIOUS
<1>4. h \in Seq(Nat) /\ Len(h) = 2
  BY <1>1, <1>3, PutTwo
<1>5. PICK m \in Nat : m = Len(l[c])
  <2>1. c \in 0 .. c
    BY <1>1
  <2> QED
    BY <1>2, <2>1
<1>6. data \in Seq(Nat) /\ Len(data) = 2 + m /\ data = h \o l[c]
  <2>1. c \in 0 .. c
    BY <1>1
  <2>2. l[c] \in Seq(Nat) /\ data = h \o l[c]
    BY <1>0, <1>2, <1>3, <2>1
  <2>3. data \in Seq(Nat) /\ Len(data) = Len(h) + Len(l[c])
    BY <1>4, <2>2, JoinFacts
  <2> QED
    BY <1>4, <1>5, <2>2, <2>3
<1>7. PICK f : Shows(f, data) /\ Shown(data) = f[3]
  BY <1>6, ShownIs
<1> DEFINE ns == [i \in 1 .. c |-> NameAt(d, i)]
           n == c + 1
           P == {i \in 1 .. n : f[3 + Len(l[i - 1])] = SubSeq(ns, i, c)}
<1>8. ns \in Seq(Seq(Nat)) /\ Len(ns) = c /\ \A i \in 1 .. c : ns[i] = NameAt(d, i)
  BY <1>1
<1> HIDE DEF ns
<1>9. ASSUME NEW i \in 1 .. n, \A j \in i + 1 .. n : j \in P PROVE i \in P
  <2>1. CASE i = n
    <3>1. i - 1 = c /\ 3 + m = (2 + m) + 1 /\ 3 + m \in 1 .. (2 + m) + 1 /\ 3 + m > 2 + m
      BY <1>1, <2>1
    <3>2. Stops(data, 3 + m)
      BY <1>6, <3>1 DEF Stops
    <3>3. f[3 + m] = <<>>
      BY <1>6, <1>7, <3>1, <3>2 DEF Shows
    <3>4. SubSeq(ns, i, c) = <<>>
      <4>1. i \in Int /\ c \in Int /\ c < i
        BY <1>1, <2>1
      <4> QED
        BY <4>1, SubSeqEmpty
    <3> QED
      BY <1>5, <3>1, <3>3, <3>4
  <2>2. CASE i # n
    <3>1. i \in 1 .. c /\ i - 1 \in 0 .. c /\ i \in 0 .. c /\ i + 1 \in i + 1 .. n
          /\ i + 1 \in 1 .. n /\ (i + 1) - 1 = i /\ c \in 0 .. c
      BY <1>1, <2>2
    <3>2. PICK x \in Seq(Nat) : l[c] = l[i] \o x
      <4>1. ListGrows(l, c)
        BY ListBegins
      <4> QED
        BY <3>1, <4>1, Zenon DEF ListGrows
    <3>3. PICK b \in Seq(Nat) : b = l[i - 1]
      BY <1>2, <3>1
    <3>4. PICK name \in Seq(Nat) : name = NameAt(d, i)
      BY <1>1, <3>1
    <3>5. PICK w \in Nat : w = Len(name)
      OBVIOUS
    <3>6. PICK a : a = h \o b
      OBVIOUS
    <3>7. PICK lb \in Nat : lb = Len(b)
      OBVIOUS
    <3>8. a \in Seq(Nat) /\ Len(a) = 2 + lb
      BY <1>4, <3>6, <3>7, JoinFacts
    <3>9. PICK p \in Nat : p = 3 + lb
      OBVIOUS
    <3>10. <<Len(name)>> \in Seq(Nat)
      OBVIOUS
    <3>11. PICK e \in Seq(Nat) : e = <<Len(name)>>
      BY <3>10
    <3>12. l[i] = (b \o e) \o name
      BY <3>1, <3>3, <3>4, <3>11 DEF Listed
    <3>13. data = ((a \o e) \o name) \o x
      <4>1. b \o e \in Seq(Nat) /\ (b \o e) \o name \in Seq(Nat)
        BY JoinFacts
      <4>2. (h \o ((b \o e) \o name)) \o x = h \o (((b \o e) \o name) \o x)
        BY <1>4, <4>1, Assoc, ZenonT(40)
      <4>3. (h \o (b \o e)) \o name = h \o ((b \o e) \o name)
        BY <1>4, <4>1, Assoc, ZenonT(40)
      <4>4. (h \o b) \o e = h \o (b \o e)
        BY <1>4, Assoc
      <4> QED
        BY <1>6, <3>2, <3>6, <3>12, <4>2, <4>3, <4>4
    <3>14. p = Len(a) + 1
      BY <3>8, <3>9
    <3>15. data[p] = w /\ SubSeq(data, p + 1, p + w) = name /\ Len(data) = Len(a) + 1 + w + Len(x)
      <4>1. /\ HasField(((a \o <<Len(name)>>) \o name) \o x, Len(a) + 1, name)
            /\ Len(((a \o <<Len(name)>>) \o name) \o x) = Len(a) + 1 + Len(name) + Len(x)
        BY <3>8, FieldIn
      <4>2. HasField(data, p, name) /\ Len(data) = Len(a) + 1 + Len(name) + Len(x)
        BY <3>11, <3>13, <3>14, <4>1
      <4> QED
        BY <3>5, <4>2 DEF HasField
    <3>16. PICK lx \in Nat : lx = Len(x)
      OBVIOUS
    <3>17. 2 + m = 2 + lb + 1 + w + lx
      BY <1>6, <3>8, <3>15, <3>16
    <3>18. p \in 1 .. (2 + m) + 1 /\ ~(p > 2 + m \/ p + w > 2 + m)
      BY <3>9, <3>17
    <3>19. ~Stops(data, p)
      BY <1>6, <3>15, <3>18 DEF Stops
    <3>20. f[p] = <<name>> \o f[p + 1 + w]
      BY <1>6, <1>7, <3>15, <3>18, <3>19 DEF Shows
    <3>21. p + 1 + w = 3 + Len(l[i])
      <4>1. Len(l[i]) = Len(b) + 1 + Len(name)
        BY <3>11, <3>12
      <4> QED
        BY <3>5, <3>7, <3>9, <4>1
    <3>22. f[3 + Len(l[i])] = SubSeq(ns, i + 1, c)
      <4>1. i + 1 \in P
        BY <1>9, <3>1
      <4> QED
        BY <3>1, <4>1
    <3>23. SubSeq(ns, i, c) = <<ns[i]>> \o SubSeq(ns, i + 1, c)
      <4>1. i \in 1 .. Len(ns) /\ c \in i .. Len(ns)
        BY <1>1, <1>8, <3>1
      <4> QED
        BY <1>8, <4>1, SubSeqRecursiveFirst
    <3>24. f[p] = SubSeq(ns, i, c)
      BY <1>8, <3>1, <3>4, <3>20, <3>21, <3>22, <3>23
    <3> QED
      BY <3>3, <3>7, <3>9, <3>24
  <2> QED
    BY <2>1, <2>2
<1>10. \A i \in 1 .. n : i \in P
  <2>1. n \in Nat
    BY <1>1
  <2> HIDE DEF P, n
  <2> QED
    BY <1>9, <2>1, GoingBack
<1>11. f[3] = ns
  <2>1. 1 \in 1 .. n /\ 1 - 1 = 0
    BY <1>1
  <2>2. f[3 + Len(l[0])] = SubSeq(ns, 1, c)
    BY <1>10, <2>1
  <2>3. 3 + Len(l[0]) = 3
    BY DEF Listed
  <2>4. SubSeq(ns, 1, c) = ns
    BY <1>8, SubSeqFull
  <2> QED
    BY <2>2, <2>3, <2>4
<1> QED
  BY <1>5, <1>6, <1>7, <1>11 DEF ns, ShowsNames

-----------------------------------------------------------------------------
(* The conversation of a client and the server.                            *)

\* The whole responses in q answer the messages of m, from the second one on.
Told(q, m, s) ==
  \A i \in 1 .. Len(Responses(q).list) :
    i < s /\ Responses(q).list[i].cmd = m[i + 1].cmd

\* There is nothing in q but them, behind the reply to the authentication.  They
\* answer all that was received, x, but the bytes p.
Settled(q, p, x, m, s) ==
  /\ Len(q) >= 2 /\ Responses(q).rest = 0 /\ Len(Responses(q).list) < s
  /\ x = Bytes(SubSeq(m, 1, Len(Responses(q).list) + 1)) \o p

\* A connection c has received the first n bytes of q, the first s messages of
\* m, and sent o.
Talk(c, q, n, o, m, s, admin) ==
  /\ o \in Seq(Nat) /\ c.wbuf \in BufferOf(Nat, MGMT_WBUF)
  /\ Told(o \o c.wbuf.bytes, m, s)
  /\ c.state \in {"backlog", "AUTH"} =>
       o = <<>> /\ c.wbuf.bytes = <<>> /\ c.rbuf.bytes = SubSeq(q, 1, n)
  /\ c.state \in {"AUTH_REPLY", "REQUEST", "RESPONSE"} =>
       Settled(o \o c.wbuf.bytes, c.rbuf.bytes, SubSeq(q, 1, n), m, s)
  /\ c.state = "REQUEST" => c.wbuf.bytes = <<>>
  /\ c.close_after_write \in BOOLEAN
  /\ c.close_after_write => c.state = "AUTH_REPLY" /\ ~admin

\* A program has got the reply before it sends its request, so that its messages
\* never meet in the request buffer.
Waits(c, o, s) == c.rbuf.read = 0 /\ (s = 2 => Len(o) >= 2)

\* What a program that exits with 0 has read.
Carried(o) == LET rs == Responses(o).list IN Len(rs) > 0 /\ rs[1].status = OK

\* e says what its bytes are, which r is the parser's verdict on.
Says(e, r, first) ==
  /\ e.cmd = (IF first THEN AUTH ELSE r.cmd)
  /\ r.rc = (IF r.rc = -2 THEN -Len(e.bytes) ELSE Len(e.bytes))
  /\ r.user = CString(e.user) /\ r.pass = CString(e.pass)
  /\ r.key = e.key /\ r.value = e.value

Parsed(i, p) == IF i = 1 THEN parse_auth(p) ELSE parse_request(p)

LEMMA ParsedPrefix ==
  ASSUME NEW i, NEW p \in Seq(Nat), NEW q \in Seq(Nat), Parsed(i, p).rc # 0
  PROVE  Parsed(i, p \o q) = Parsed(i, p)
<1>1. CASE i = 1
  BY <1>1, AuthPrefix DEF Parsed
<1>2. CASE i # 1
  BY <1>2, RequestPrefix DEF Parsed
<1> QED
  BY <1>1, <1>2

LEMMA SaysParsed ==
  ASSUME NEW m, NEW i, SaysWhatItIs(m, i)
  PROVE  \/ /\ m[i].cmd = BAD
            /\ \/ Parsed(i, m[i].bytes).rc = -1
               \/ Parsed(i, m[i].bytes).rc = 0 /\ i = Len(m)
         \/ Parsed(i, m[i].bytes).rc # 0 /\ Says(m[i], Parsed(i, m[i].bytes), i = 1)
<1>1. CASE i = 1
  <2>1. Parsed(i, m[i].bytes) = parse_auth(m[i].bytes)
    BY <1>1 DEF Parsed
  <2> QED
    BY <1>1, <2>1 DEF SaysWhatItIs, Says
<1>2. CASE i # 1
  <2>1. Parsed(i, m[i].bytes) = parse_request(m[i].bytes)
    BY <1>2 DEF Parsed
  <2> QED
    BY <1>2, <2>1 DEF SaysWhatItIs, Says
<1> QED
  BY <1>1, <1>2

(* The shorter of two beginnings of the same bytes begins the longer one.  *)
LEMMA SameBeginning ==
  ASSUME NEW p \in Seq(Nat), NEW t \in Seq(Nat), NEW b \in Seq(Nat), NEW u \in Seq(Nat)
  PROVE  p \o t = b \o u /\ Len(b) <= Len(p) => SubSeq(p, 1, Len(b)) = b
<1> HAVE p \o t = b \o u /\ Len(b) <= Len(p)
<1>1. /\ Len(p) \in Nat /\ Len(b) \in Nat /\ 1 \in Nat /\ 1 >= 1 /\ Len(b) <= Len(b)
  BY JoinFacts
<1>2. SubSeq(p \o t, 1, Len(b)) = SubSeq(p, 1, Len(b))
  BY <1>1, SubSeqOfPrefix, ZenonT(40)
<1>3. SubSeq(b \o u, 1, Len(b)) = SubSeq(b, 1, Len(b))
  BY <1>1, SubSeqOfPrefix, ZenonT(40)
<1>4. SubSeq(b, 1, Len(b)) = b
  BY SubSeqFull
<1> QED
  BY <1>2, <1>3, <1>4

LEMMA LeftCancels ==
  ASSUME NEW a \in Seq(Nat), NEW b \in Seq(Nat), NEW c \in Seq(Nat)
  PROVE  a \o b = a \o c => b = c
<1> HAVE a \o b = a \o c
<1>1. PICK n \in Nat : n = Len(a)
  BY JoinFacts
<1>2. Len(b) = Len(c)
  <2>1. /\ Len(a \o b) = Len(a) + Len(b) /\ Len(a \o c) = Len(a) + Len(c)
        /\ Len(b) \in Nat /\ Len(c) \in Nat
    BY JoinFacts
  <2> QED
    BY <1>1, <2>1
<1>3. \A x \in 1 .. Len(b) : (a \o b)[n + x] = b[x]
  BY <1>1, JoinBehind
<1>4. \A x \in 1 .. Len(c) : (a \o c)[n + x] = c[x]
  BY <1>1, JoinBehind
<1>5. \A x \in 1 .. Len(b) : b[x] = c[x]
  BY <1>2, <1>3, <1>4
<1>6. b = [x \in 1 .. Len(b) |-> b[x]] /\ c = [x \in 1 .. Len(c) |-> c[x]]
  BY ONLY b \in Seq(Nat), c \in Seq(Nat)
<1> QED
  BY ONLY <1>2, <1>5, <1>6

LEMMA BytesType ==
  ASSUME NEW m \in Seq(Messages), NEW i \in 0 .. Len(m)
  PROVE  Bytes(SubSeq(m, 1, i)) \in Seq(Nat)
<1>1. PICK b : BytesUpTo(m, b)
  BY BytesUpToExists
<1>2. b[i] \in Seq(Nat)
  BY <1>1 DEF BytesUpTo
<1> QED
  BY <1>1, <1>2, BytesOfFirst

\* What the parser finds in p is the message e, or that it is malformed.
Found(e, r, p, first) ==
  \/ e.cmd = BAD /\ r.rc = -1
  \/ /\ Says(e, r, first)
     /\ Len(e.bytes) <= Len(p) => SubSeq(p, 1, Len(e.bytes)) = e.bytes

(* However the bytes were cut: if the parser finds anything at the begin   *)
(* of what was received behind the first messages, it is the next one.     *)
LEMMA NextMessage ==
  ASSUME NEW m \in Seq(Messages), NEW s \in 0 .. Len(m),
         \A j \in 1 .. s : SaysWhatItIs(m, j),
         NEW i \in 1 .. s + 1, NEW p \in Seq(Nat), NEW t \in Seq(Nat),
         Parsed(i, p).rc # 0
  PROVE  (Bytes(SubSeq(m, 1, i - 1)) \o p) \o t = Bytes(SubSeq(m, 1, s)) =>
           i <= s /\ Found(m[i], Parsed(i, p), p, i = 1)
<1>0. HAVE (Bytes(SubSeq(m, 1, i - 1)) \o p) \o t = Bytes(SubSeq(m, 1, s))
<1>1. PICK a : a = Bytes(SubSeq(m, 1, i - 1))
  OBVIOUS
<1>2. PICK q : q = Bytes(SubSeq(m, 1, s))
  OBVIOUS
<1>3. i - 1 \in 0 .. Len(m) /\ s \in (i - 1) .. Len(m) /\ Len(m) \in Nat /\ s \in Nat /\ i \in Nat
  OBVIOUS
<1>4. a \in Seq(Nat) /\ q \in Seq(Nat)
  BY <1>1, <1>2, <1>3, BytesType
<1>5. PICK z \in Seq(Nat) : q = a \o z
  BY <1>1, <1>2, <1>3, BytesBegin
<1>6. p \o t \in Seq(Nat) /\ p \o t = z
  <2>1. p \o t \in Seq(Nat)
    BY JoinFacts
  <2>2. a \o (p \o t) = a \o z
    BY <1>0, <1>1, <1>2, <1>4, <1>5, Assoc, ZenonT(40)
  <2> QED
    BY <1>4, <2>1, <2>2, LeftCancels, Zenon
<1>7. i <= s
  <2>1. ASSUME i = s + 1 PROVE FALSE
    <3>1. a = q
      BY <1>1, <1>2, <2>1
    <3>2. Len(a \o z) = Len(a) + Len(z) /\ Len(a) \in Nat /\ Len(z) \in Nat
      BY <1>4, JoinFacts
    <3>3. Len(z) = 0
      BY <1>5, <3>1, <3>2
    <3>4. Len(p \o t) = Len(p) + Len(t) /\ Len(p) \in Nat /\ Len(t) \in Nat
      BY JoinFacts
    <3>5. Len(p) = 0
      BY <1>6, <3>3, <3>4, SMTT(30)
    <3>6. Parsed(i, p).rc = 0
      BY <3>5, NoCodes DEF Parsed, parse_auth, parse_request
    <3> QED
      BY <3>6
  <2> QED
    BY <1>3, <2>1
<1>8. PICK b : b = m[i].bytes
  OBVIOUS
<1>9. i \in 1 .. Len(m) /\ b \in Seq(Nat) /\ s \in i .. Len(m) /\ i \in 0 .. Len(m)
  BY <1>3, <1>7, <1>8, MessageBytes
<1>10. PICK u \in Seq(Nat) : p \o t = b \o u /\ (i = s => u = <<>>)
  <2>1. PICK f : f = Bytes(SubSeq(m, 1, i))
    OBVIOUS
  <2>2. f = a \o b /\ f \in Seq(Nat)
    BY <1>1, <1>8, <1>9, <2>1, BytesGrow
  <2>3. PICK u \in Seq(Nat) : q = f \o u
    BY <1>2, <1>9, <2>1, BytesBegin
  <2>4. b \o u \in Seq(Nat)
    BY <1>9, JoinFacts
  <2>5. a \o (b \o u) = a \o z
    <3>1. (a \o b) \o u = a \o (b \o u)
      <4>1. Associate(a, b, u)
        BY <1>4, <1>9, JoinsAssociate
      <4> QED
        BY <4>1 DEF Associate
    <3> QED
      BY <1>5, <2>2, <2>3, <3>1
  <2>6. b \o u = z
    BY <1>4, <2>4, <2>5, LeftCancels, Zenon
  <2>7. i = s => u = <<>>
    <3> HAVE i = s
    <3>1. f \o u = f
      BY <1>2, <2>1, <2>3
    <3>2. Len(f \o u) = Len(f) + Len(u) /\ Len(f) \in Nat /\ Len(u) \in Nat
      BY <2>2, JoinFacts
    <3>3. Len(u) = 0
      BY <3>1, <3>2
    <3> QED
      BY <3>3
  <2> QED
    BY <1>6, <2>6, <2>7
<1>11. PICK r : r = Parsed(i, p)
  OBVIOUS
<1>12. Parsed(i, p \o t) = r /\ r.rc # 0
  BY <1>11, ParsedPrefix
<1>13. PICK v : v = Parsed(i, b)
  OBVIOUS
<1>14. v.rc # 0 => v = r
  <2> HAVE v.rc # 0
  <2>1. Parsed(i, b \o u) = v
    BY <1>9, <1>13, ParsedPrefix
  <2> QED
    BY <1>10, <1>12, <2>1
<1>15. \/ m[i].cmd = BAD /\ (v.rc = -1 \/ (v.rc = 0 /\ i = Len(m)))
       \/ v.rc # 0 /\ Says(m[i], v, i = 1)
  <2>1. SaysWhatItIs(m, i)
    BY <1>3, <1>7
  <2> QED
    BY <1>8, <1>13, <2>1, SaysParsed, ZenonT(40)
<1>16. ~(v.rc = 0 /\ i = Len(m))
  <2> SUFFICES ASSUME v.rc = 0, i = Len(m) PROVE FALSE
    OBVIOUS
  <2>1. u = <<>>
    BY <1>3, <1>7, <1>10
  <2>2. p \o t = b
    BY <1>9, <1>10, <2>1
  <2> QED
    BY <1>12, <1>13, <2>2
<1>17. Len(b) <= Len(p) => SubSeq(p, 1, Len(b)) = b
  BY <1>9, <1>10, SameBeginning
<1>18. \/ m[i].cmd = BAD /\ r.rc = -1
       \/ Says(m[i], r, i = 1)
  BY <1>14, <1>15, <1>16
<1> QED
  BY <1>7, <1>8, <1>11, <1>17, <1>18 DEF Found

-----------------------------------------------------------------------------
(* The responses of the server.                                            *)

\* t is one response, and fits the buffer.
Answer(t, cmd, status, data) ==
  /\ Frame(t) /\ Len(t) <= MGMT_WBUF
  /\ Response(t, 1) = [cmd |-> cmd, status |-> status, data |-> data]

LEMMA JoinType ==
  ASSUME NEW a \in Seq(Nat), NEW b \in Seq(Nat)
  PROVE  a \o b \in Seq(Nat) /\ Len(a \o b) = Len(a) + Len(b)
BY JoinFacts, Zenon

LEMMA HeaderType ==
  ASSUME NEW cmd \in Nat, NEW status \in Nat, NEW n \in Nat
  PROVE  resp_header(cmd, status, n) \in Seq(Nat)
<1>1. Header(resp_header(cmd, status, n), cmd, status, n)
  BY HeaderBytes
<1> QED
  BY <1>1, Zenon DEF Header

LEMMA AnswerIs ==
  ASSUME NEW cmd \in Nat, NEW status \in Nat, NEW data \in Seq(Nat), NEW n \in Nat,
         Len(data) = n, n < BYTE * BYTE, 5 + n <= MGMT_WBUF, NEW t
  PROVE  t = resp_header(cmd, status, n) \o data => Answer(t, cmd, status, data)
<1>0. HAVE t = resp_header(cmd, status, n) \o data
<1>1. Framed(t, cmd, status, data)
  BY <1>0, FrameIs, Zenon
<1> QED
  BY <1>1 DEF Answer, Framed

LEMMA SimpleAnswer ==
  ASSUME NEW cmd \in Nat, NEW status \in Nat
  PROVE  Answer(resp_simple(cmd, status), cmd, status, <<>>)
<1>1. PICK h : h = resp_header(cmd, status, 0)
  OBVIOUS
<1>2. h \in Seq(Nat) /\ 0 \in Nat
  BY <1>1, HeaderType
<1>3. <<>> \in Seq(Nat) /\ Len(<<>>) = 0 /\ h \o <<>> = h
  BY <1>2
<1>4. 0 < BYTE * BYTE /\ 5 + 0 <= MGMT_WBUF
  BY MgmtAssumption
<1>5. h = h \o <<>> => Answer(h, cmd, status, <<>>)
  BY <1>1, <1>2, <1>3, <1>4, AnswerIs
<1> QED
  BY <1>1, <1>3, <1>5 DEF resp_simple

LEMMA MetricsAnswer ==
  ASSUME NEW d, IsTable(d)
  PROVE  \E data : Answer(resp_metrics(d), METRICS, OK, data)
<1>1. PICK c : c = users_count(d)
  OBVIOUS
<1>2. c \in Nat
  <2>1. c \in 0 .. USERS_MAX /\ USERS_MAX \in Nat
    BY <1>1, NamesInOrder, UsersAssumption
  <2> QED
    BY <2>1
<1>3. PICK x : x = put(0, 4 * U64)
  OBVIOUS
<1>4. PICK y : y = put(c, U64)
  OBVIOUS
<1>5. PICK z : z = put(0, 2 * U64)
  OBVIOUS
<1>6. U64 \in Nat /\ 4 * U64 \in Nat /\ 2 * U64 \in Nat /\ 7 * U64 \in Nat
      /\ 4 * U64 + (U64 + 2 * U64) = 7 * U64
  BY MgmtAssumption
<1>7. /\ x \in Seq(Nat) /\ Len(x) = 4 * U64 /\ y \in Seq(Nat) /\ Len(y) = U64
      /\ z \in Seq(Nat) /\ Len(z) = 2 * U64
  BY <1>2, <1>3, <1>4, <1>5, <1>6, PutType
<1>8. PICK h : h = resp_header(METRICS, OK, 7 * U64)
  OBVIOUS
<1>9. METRICS \in Nat /\ OK \in Nat
  BY DEF METRICS, OK
<1>10. h \in Seq(Nat)
  BY <1>6, <1>8, <1>9, HeaderType
<1>11. y \o z \in Seq(Nat) /\ Len(y \o z) = U64 + 2 * U64
  BY <1>7, JoinFacts, ZenonT(40)
<1>12. PICK data : data = x \o (y \o z)
  OBVIOUS
<1>13. data \in Seq(Nat) /\ Len(data) = 7 * U64
  <2>1. data \in Seq(Nat) /\ Len(data) = Len(x) + Len(y \o z)
    BY <1>7, <1>11, <1>12, JoinType, Zenon
  <2> QED
    BY ONLY <1>6, <1>7, <1>11, <2>1
<1>14. resp_metrics(d) = ((h \o x) \o y) \o z
  BY <1>1, <1>3, <1>4, <1>5, <1>8 DEF resp_metrics
<1>15. resp_metrics(d) = h \o data
  <2>1. h \o x \in Seq(Nat)
    BY <1>7, <1>10, JoinFacts
  <2>2. ((h \o x) \o y) \o z = (h \o x) \o (y \o z)
    BY <1>7, <2>1, Assoc, Zenon
  <2>3. (h \o x) \o (y \o z) = h \o (x \o (y \o z))
    BY <1>7, <1>10, <1>11, Assoc, Zenon
  <2> QED
    BY <1>12, <1>14, <2>2, <2>3, Zenon
<1>16. 7 * U64 < BYTE * BYTE /\ 5 + 7 * U64 <= MGMT_WBUF
  BY MgmtAssumption
<1>17. Answer(resp_metrics(d), METRICS, OK, data)
  BY <1>6, <1>8, <1>9, <1>13, <1>15, <1>16, AnswerIs, Zenon
<1> QED
  BY <1>17

LEMMA ConfigAnswer ==
  ASSUME NEW g, GoodConfig(g)
  PROVE  Answer(resp_get_config(g), GET_CONFIG, OK,
                put(g.io_buffer_size, 4) \o put(g.conn_timeout_secs, 4)
                  \o <<IF g.auth_required THEN 1 ELSE 0>>)
<1>1. PICK x : x = put(g.io_buffer_size, 4)
  OBVIOUS
<1>2. PICK y : y = put(g.conn_timeout_secs, 4)
  OBVIOUS
<1>3. PICK z : z = <<IF g.auth_required THEN 1 ELSE 0>>
  OBVIOUS
<1>4. /\ x \in Seq(Nat) /\ Len(x) = 4 /\ y \in Seq(Nat) /\ Len(y) = 4
  <2>1. g.io_buffer_size \in Nat /\ g.conn_timeout_secs \in Nat /\ 4 \in Nat
    BY DEF GoodConfig
  <2> QED
    BY <1>1, <1>2, <2>1, PutType
<1>5. z \in Seq(Nat) /\ Len(z) = 1
  BY <1>3
<1>6. x \o y \in Seq(Nat) /\ Len(x \o y) = 8
  <2>1. x \o y \in Seq(Nat) /\ Len(x \o y) = Len(x) + Len(y)
    BY <1>4, JoinType, Zenon
  <2> QED
    BY ONLY <1>4, <2>1
<1>7. PICK data : data = (x \o y) \o z
  OBVIOUS
<1>8. data \in Seq(Nat) /\ Len(data) = 9 /\ 9 \in Nat
  <2>1. data \in Seq(Nat) /\ Len(data) = Len(x \o y) + Len(z)
    BY <1>5, <1>6, <1>7, JoinType, Zenon
  <2> QED
    BY ONLY <1>5, <1>6, <2>1
<1>9. PICK h : h = resp_header(GET_CONFIG, OK, 9)
  OBVIOUS
<1>10. GET_CONFIG \in Nat /\ OK \in Nat
  BY DEF GET_CONFIG, OK
<1>11. h \in Seq(Nat)
  BY <1>8, <1>9, <1>10, HeaderType
<1>12. resp_get_config(g) = ((h \o x) \o y) \o z
  BY <1>1, <1>2, <1>3, <1>9 DEF resp_get_config
<1>13. resp_get_config(g) = h \o data
  <2>1. (h \o x) \o y = h \o (x \o y)
    BY <1>4, <1>11, Assoc, Zenon
  <2>2. (h \o (x \o y)) \o z = h \o ((x \o y) \o z)
    BY <1>5, <1>6, <1>11, Assoc, Zenon
  <2> QED
    BY <1>7, <1>12, <2>1, <2>2, Zenon
<1>14. 9 < BYTE * BYTE /\ 5 + 9 <= MGMT_WBUF
  <2>1. BYTE \in Nat /\ BYTE > 6 /\ MGMT_WBUF >= 5 + 9 /\ MGMT_WBUF \in Nat
    BY MgmtAssumption
  <2> QED
    BY ONLY <2>1
<1>15. Answer(resp_get_config(g), GET_CONFIG, OK, data)
  BY <1>8, <1>9, <1>10, <1>13, <1>14, AnswerIs, Zenon
<1> QED
  BY <1>1, <1>2, <1>3, <1>7, <1>15, Zenon

\* What a response of LIST_USERS tells of the users.
Lists(data, d) ==
  /\ Number(SubSeq(data, 1, 2)) = Cardinality(DOMAIN AsMap(d))
  /\ IsInjective(Shown(data)) /\ ToSet(Shown(data)) = DOMAIN AsMap(d)

LEMMA Bounds ==
  ASSUME NEW c \in 0 .. USERS_MAX, NEW n \in Nat, n <= c * (1 + USERS_MAX_NAME)
  PROVE  /\ c < BYTE * BYTE /\ 2 + n < BYTE * BYTE /\ 5 + (2 + n) <= MGMT_WBUF
<1>1. PICK b \in Nat : b = 1 + USERS_MAX_NAME /\ b >= 1
  BY UsersAssumption
<1>2. PICK u \in Nat : u = USERS_MAX
  BY UsersAssumption
<1>3. PICK bb : bb = BYTE * BYTE
  OBVIOUS
<1>4. PICK lim : lim = u * b
  OBVIOUS
<1>5. bb \in Nat /\ MGMT_WBUF \in Nat /\ 7 + lim < bb /\ 7 + lim <= MGMT_WBUF
  BY <1>1, <1>2, <1>3, <1>4, MgmtAssumption DEF LongestResponse
<1>6. c \in Nat /\ c <= u
  BY <1>2
<1>7. c * b <= lim /\ c <= lim /\ lim \in Nat
  <2>1. PICK e \in Nat : u = c + e
    <3>1. u - c \in Nat /\ u = c + (u - c)
      BY <1>6
    <3> QED
      BY <3>1
  <2>2. PICK f \in Nat : b = 1 + f
    <3>1. b - 1 \in Nat /\ b = 1 + (b - 1)
      BY <1>1
    <3> QED
      BY <3>1
  <2>3. lim = c * b + e * b /\ c * b = c + c * f
    BY <1>4, <1>6, <2>1, <2>2
  <2>4. e * b \in Nat /\ c * f \in Nat /\ c * b \in Nat
    BY <1>6, <2>1, <2>2
  <2> QED
    BY ONLY <1>6, <2>3, <2>4
<1>8. n <= c * b
  BY <1>1
<1>9. c * b \in Nat
  BY <1>6
<1>10. c < bb /\ 2 + n < bb /\ 5 + (2 + n) <= MGMT_WBUF
  BY ONLY <1>5, <1>6, <1>7, <1>8, <1>9, n \in Nat
<1> QED
  BY <1>3, <1>10

(* The whole list of users fits, and is what the client shows.             *)
LEMMA ListAnswer ==
  ASSUME NEW d, IsTable(d)
  PROVE  \E data : Answer(resp_list_users(d), LIST_USERS, OK, data) /\ Lists(data, d)
<1>1. PICK c : c = users_count(d)
  OBVIOUS
<1>2. PICK l : /\ Listed(l, d, c)
               /\ resp_list_users(d) = resp_header(LIST_USERS, OK, 2 + Len(l[c]))
                                         \o put(c, 2) \o l[c]
  BY <1>1, ListIs
<1>3. /\ c \in 0 .. USERS_MAX /\ c \in Nat /\ c = Cardinality(DOMAIN AsMap(d))
      /\ \A i \in 1 .. c : NameAt(d, i) \in DOMAIN AsMap(d)
      /\ \A i, j \in 1 .. c : NameAt(d, i) = NameAt(d, j) => i = j
      /\ \A n \in DOMAIN AsMap(d) : \E i \in 1 .. c : NameAt(d, i) = n
  <2>1. /\ c \in 0 .. USERS_MAX /\ c = Cardinality(DOMAIN AsMap(d))
        /\ \A i \in 1 .. c : NameAt(d, i) \in DOMAIN AsMap(d)
        /\ \A i, j \in 1 .. c : NameAt(d, i) = NameAt(d, j) => i = j
        /\ \A n \in DOMAIN AsMap(d) : \E i \in 1 .. c : NameAt(d, i) = n
    BY <1>1, NamesInOrder
  <2>2. USERS_MAX \in Nat
    BY UsersAssumption
  <2> QED
    BY <2>1, <2>2
<1>4. PICK n : n = Len(l[c])
  OBVIOUS
<1>5. c \in 0 .. c
  BY <1>3
<1>6. n \in Nat /\ n <= c * (1 + USERS_MAX_NAME) /\ l[c] \in Seq(Nat)
  <2>1. n \in Nat /\ n <= c * (1 + USERS_MAX_NAME)
    BY <1>1, <1>2, <1>4, <1>5, ListLength
  <2> QED
    BY <1>2, <1>5, <2>1 DEF Listed
<1>7. /\ c < BYTE * BYTE /\ 2 + n < BYTE * BYTE /\ 5 + (2 + n) <= MGMT_WBUF
  BY <1>3, <1>6, Bounds
<1>8. PICK p : p = put(c, 2)
  OBVIOUS
<1>9. p \in Seq(Nat) /\ Len(p) = 2 /\ p[1] * BYTE + p[2] = c
  BY <1>3, <1>7, <1>8, PutTwo
<1>10. PICK data : data = p \o l[c]
  OBVIOUS
<1>11. /\ data \in Seq(Nat) /\ Len(data) = 2 + n
       /\ Shown(data) = [i \in 1 .. c |-> NameAt(d, i)]
  <2>1. data = put(c, 2) \o l[c]
    BY <1>8, <1>10
  <2>2. Listed(l, d, c)
    BY <1>2
  <2>3. ShowsNames(data, d, c, Len(l[c]))
    BY <1>1, <2>1, <2>2, ListShown, Zenon
  <2> QED
    BY <1>4, <2>3 DEF ShowsNames
<1>12. PICK h : h = resp_header(LIST_USERS, OK, 2 + n)
  OBVIOUS
<1>13. LIST_USERS \in Nat /\ OK \in Nat /\ 2 + n \in Nat
  BY <1>6 DEF LIST_USERS, OK
<1>14. resp_list_users(d) = h \o data
  <2>1. h \in Seq(Nat)
    BY <1>12, <1>13, HeaderType
  <2>2. (h \o p) \o l[c] = h \o (p \o l[c])
    BY <1>6, <1>9, <2>1, Assoc, Zenon
  <2> QED
    BY <1>2, <1>4, <1>8, <1>10, <1>12, <2>2, Zenon
<1>15. Answer(resp_list_users(d), LIST_USERS, OK, data)
  BY <1>7, <1>11, <1>12, <1>13, <1>14, AnswerIs, Zenon
<1>16. Number(SubSeq(data, 1, 2)) = c
  <2>1. SubSeq(data, 1, 2) = SubSeq(p, 1, 2)
    <3>1. 1 \in Nat /\ 2 \in Nat /\ 1 >= 1 /\ 2 <= Len(p)
      BY <1>9
    <3> QED
      BY <1>6, <1>9, <1>10, <3>1, SubSeqOfPrefix, ZenonT(40)
  <2>2. SubSeq(p, 1, 2) = p
    BY <1>9, SubSeqFull
  <2>3. Number(p) = p[1] * BYTE + p[2]
    BY <1>9, NumberOfTwo
  <2> QED
    BY <1>9, <2>1, <2>2, <2>3
<1>17. PICK w : w = Shown(data)
  OBVIOUS
<1>18. /\ DOMAIN w = 1 .. c /\ \A i \in 1 .. c : w[i] = NameAt(d, i)
  BY <1>11, <1>17
<1>19. IsInjective(w)
  BY <1>3, <1>18 DEF IsInjective
<1>20. ToSet(w) = DOMAIN AsMap(d)
  <2>1. ToSet(w) = {w[i] : i \in DOMAIN w}
    BY DEF ToSet
  <2>2. ASSUME NEW x \in ToSet(w) PROVE x \in DOMAIN AsMap(d)
    BY <1>3, <1>18, <2>1, <2>2
  <2>3. ASSUME NEW x \in DOMAIN AsMap(d) PROVE x \in ToSet(w)
    <3>1. PICK i \in 1 .. c : NameAt(d, i) = x
      BY <1>3
    <3>2. i \in DOMAIN w /\ w[i] = x
      BY <1>18, <3>1
    <3> QED
      BY <2>1, <3>2, Zenon
  <2> QED
    BY <2>2, <2>3, Zenon
<1>21. Lists(data, d)
  BY <1>3, <1>16, <1>17, <1>19, <1>20 DEF Lists
<1> QED
  BY <1>15, <1>21

-----------------------------------------------------------------------------
(* A response tells what the request did.                                  *)

\* The reply w to the request r, which the message e made of the table d and
\* the configuration g.
Served(w, r, e, d, g) ==
  \E st \in Nat, data \in Seq(Nat) :
    /\ Answer(w.resp, r.cmd, st, data)
    /\ Truthful(e, [cmd |-> r.cmd, status |-> st, data |-> data],
                AsMap(d), g, AsMap(w.db), w.cfg)

LEMMA DataLenType ==
  ASSUME NEW t \in Seq(Nat), Len(t) >= 5
  PROVE  DataLen(t, 0) \in Nat
<1>1. t[4] \in Nat /\ t[5] \in Nat /\ BYTE \in Nat
  <2>1. 4 \in 1 .. Len(t) /\ 5 \in 1 .. Len(t)
    OBVIOUS
  <2> QED
    BY <2>1, MgmtAssumption
<1>2. PICK a \in Nat : a = t[4]
  BY <1>1
<1>3. PICK b \in Nat : b = t[5]
  BY <1>1
<1>4. DataLen(t, 0) = a * BYTE + b
  BY <1>2, <1>3 DEF DataLen
<1> QED
  BY <1>1, <1>4

LEMMA AnswerData ==
  ASSUME NEW t, NEW cmd, NEW st, NEW data, Answer(t, cmd, st, data)
  PROVE  data \in Seq(Nat)
<1>1. t \in Seq(Nat) /\ data = Response(t, 1).data
  BY DEF Answer, Frame
<1>2. Response(t, 1).data = SubSeq(t, 1 + 5, NextAt(t, 1) - 1)
  BY DEF Response
<1>3. t \in Seq(Nat) /\ Len(t) = 5 + DataLen(t, 0) /\ Len(t) >= 5
  BY DEF Answer, Frame
<1>4. NextAt(t, 1) - 1 = Len(t)
  <2>1. DataLen(t, 1 - 1) = DataLen(t, 0)
    OBVIOUS
  <2>2. PICK n : n = DataLen(t, 0)
    OBVIOUS
  <2>3. n \in Int
    BY <1>3, <2>2, DataLenType
  <2> QED
    BY <1>3, <2>1, <2>2, <2>3 DEF NextAt
<1>5. 1 + 5 = 5 + 1 /\ 5 \in 0 .. Len(t)
  BY <1>3
<1>6. SubSeq(t, 5 + 1, Len(t)) \in Seq(Nat)
  BY <1>3, <1>5, CutSeq
<1> QED
  BY <1>1, <1>2, <1>4, <1>5, <1>6

LEMMA SimplyServed ==
  ASSUME NEW r, r.cmd \in Nat, NEW e, NEW d, NEW g, NEW st \in Nat, NEW c, NEW h,
         NEW w, w = Reply(resp_simple(r.cmd, st), c, h),
         Truthful(e, [cmd |-> r.cmd, status |-> st, data |-> <<>>],
                  AsMap(d), g, AsMap(c), h)
  PROVE  Served(w, r, e, d, g)
<1>1. Answer(resp_simple(r.cmd, st), r.cmd, st, <<>>)
  BY SimpleAnswer
<1>2. w.resp = resp_simple(r.cmd, st) /\ w.db = c /\ w.cfg = h
  BY DEF Reply
<1>3. <<>> \in Seq(Nat)
  OBVIOUS
<1> QED
  BY <1>1, <1>2, <1>3, Zenon DEF Served

LEMMA AddServed ==
  ASSUME NEW d, IsTable(d), NEW g, NEW r, NEW e, r.cmd = ADD_USER, e.cmd = ADD_USER,
         r.user \in Seq(Nat), r.pass \in Seq(Nat),
         r.user = CString(e.user), r.pass = CString(e.pass)
  PROVE  Served(AddUser(r, d, g), r, e, d, g)
<1>1. PICK u : u = users_add(d, r.user, r.pass)
  OBVIOUS
<1>2. PICK m : m = AsMap(d)
  OBVIOUS
<1>3. PICK n \in Seq(Nat) : n = r.user
  OBVIOUS
<1>4. PICK p \in Seq(Nat) : p = r.pass
  OBVIOUS
<1>5. PICK st : st = CASE u.result = "FULL"    -> USER_LIMIT_REACHED
                       [] u.result = "INVALID" -> INVALID_ARGUMENTS
                       [] OTHER                -> OK
  OBVIOUS
<1>6. AddUser(r, d, g) = Reply(resp_simple(r.cmd, st), u.db, g)
  BY <1>1, <1>5 DEF AddUser
<1>7. \/ /\ u.result = "OK" /\ AsMap(u.db) = Added(m, n, p)
      \/ /\ u.result = "FULL" /\ u.db = d
         /\ n \notin DOMAIN m /\ Cardinality(DOMAIN m) = USERS_MAX
      \/ /\ u.result = "INVALID" /\ u.db = d
         /\ ~(n \in NameField /\ p \in PassField)
  BY <1>1, <1>2, <1>3, <1>4, UsersAdd
<1>8. n = CString(e.user) /\ p = CString(e.pass)
  BY <1>3, <1>4
<1>9. \/ /\ st = OK /\ AsMap(u.db) = Added(m, n, p)
      \/ /\ st = USER_LIMIT_REACHED /\ AsMap(u.db) = m
         /\ n \notin DOMAIN m /\ Cardinality(DOMAIN m) = USERS_MAX
      \/ /\ st = INVALID_ARGUMENTS /\ AsMap(u.db) = m
         /\ ~(Len(n) \in 1 .. USERS_MAX_NAME /\ Len(p) \in 1 .. USERS_MAX_PASS)
  <2>1. n \in NameField <=> Len(n) \in 1 .. USERS_MAX_NAME
    <3>1. Len(n) \in Nat /\ USERS_MAX_NAME \in Nat
      BY UsersAssumption
    <3> QED
      BY <3>1 DEF NameField, valid_field
  <2>2. p \in PassField <=> Len(p) \in 1 .. USERS_MAX_PASS
    <3>1. Len(p) \in Nat /\ USERS_MAX_PASS \in Nat
      BY UsersAssumption
    <3> QED
      BY <3>1 DEF PassField, valid_field
  <2> QED
    BY <1>2, <1>5, <1>7, <2>1, <2>2, Zenon
<1>10. st \in Nat
  BY <1>9 DEF OK, USER_LIMIT_REACHED, INVALID_ARGUMENTS
<1>11. PICK v : v = AsMap(u.db)
  OBVIOUS
<1>12. Truthful(e, [cmd |-> r.cmd, status |-> st, data |-> <<>>], m, g, v, g)
  <2>1. PICK re : re = [cmd |-> r.cmd, status |-> st, data |-> <<>>]
    OBVIOUS
  <2>2. re.status = st
    BY <2>1
  <2> SUFFICES AddTold(e, re, m, v)
    BY <2>1 DEF Truthful, ADD_USER, DEL_USER, LIST_USERS, GET_CONFIG, SET_CONFIG
  <2>3. CASE st = OK /\ v = Added(m, n, p)
    BY <1>8, <2>2, <2>3 DEF AddTold, Added, USER_LIMIT_REACHED, INVALID_ARGUMENTS, OK
  <2>4. CASE /\ st = USER_LIMIT_REACHED /\ v = m
             /\ n \notin DOMAIN m /\ Cardinality(DOMAIN m) = USERS_MAX
    BY <1>8, <2>2, <2>4 DEF AddTold, USER_LIMIT_REACHED, INVALID_ARGUMENTS, OK
  <2>5. CASE /\ st = INVALID_ARGUMENTS /\ v = m
             /\ ~(Len(n) \in 1 .. USERS_MAX_NAME /\ Len(p) \in 1 .. USERS_MAX_PASS)
    BY <1>8, <2>2, <2>5 DEF AddTold, USER_LIMIT_REACHED, INVALID_ARGUMENTS, OK
  <2> QED
    BY <1>9, <1>11, <2>3, <2>4, <2>5
<1>13. r.cmd \in Nat
  BY DEF ADD_USER
<1> QED
  BY <1>2, <1>6, <1>10, <1>11, <1>12, <1>13, SimplyServed

LEMMA DelServed ==
  ASSUME NEW d, IsTable(d), NEW g, NEW r, NEW e, r.cmd = DEL_USER, e.cmd = DEL_USER,
         r.user = CString(e.user)
  PROVE  Served(DelUser(r, d, g), r, e, d, g)
<1>1. PICK u : u = users_del(d, r.user)
  OBVIOUS
<1>2. PICK m : m = AsMap(d)
  OBVIOUS
<1>3. PICK n : n = r.user /\ n = CString(e.user)
  OBVIOUS
<1>4. PICK st : st = IF u.result = "OK" THEN OK ELSE USER_NOT_FOUND
  OBVIOUS
<1>5. DelUser(r, d, g) = Reply(resp_simple(r.cmd, st), u.db, g)
  BY <1>1, <1>4 DEF DelUser
<1>6. PICK v : v = AsMap(u.db)
  OBVIOUS
<1>7. /\ v = Deleted(m, n)
      /\ \/ u.result = "OK" /\ n \in DOMAIN m
         \/ u.result = "NOT_FOUND" /\ n \notin DOMAIN m
  BY <1>1, <1>2, <1>3, <1>6, UsersDel
<1>8. st = (IF n \in DOMAIN m THEN OK ELSE USER_NOT_FOUND) /\ st \in Nat
  BY <1>4, <1>7 DEF OK, USER_NOT_FOUND
<1>9. Truthful(e, [cmd |-> r.cmd, status |-> st, data |-> <<>>], m, g, v, g)
  <2>1. PICK re : re = [cmd |-> r.cmd, status |-> st, data |-> <<>>]
    OBVIOUS
  <2>2. re.status = st
    BY <2>1
  <2>3. v = [x \in DOMAIN m \ {n} |-> m[x]]
    BY <1>7 DEF Deleted
  <2>4. DelTold(e, re, m, v)
    BY <1>3, <1>8, <2>2, <2>3 DEF DelTold
  <2> QED
    BY <2>1, <2>4 DEF Truthful, ADD_USER, DEL_USER, LIST_USERS, GET_CONFIG, SET_CONFIG
<1>10. r.cmd \in Nat
  BY DEF DEL_USER
<1> QED
  BY <1>2, <1>5, <1>6, <1>8, <1>9, <1>10, SimplyServed

LEMMA ListServed ==
  ASSUME NEW d, IsTable(d), NEW g, NEW r, NEW e, r.cmd = LIST_USERS, e.cmd = LIST_USERS
  PROVE  Served(Reply(resp_list_users(d), d, g), r, e, d, g)
<1>1. PICK data : Answer(resp_list_users(d), LIST_USERS, OK, data) /\ Lists(data, d)
  BY ListAnswer
<1>2. PICK w : w = Reply(resp_list_users(d), d, g)
  OBVIOUS
<1>3. w.resp = resp_list_users(d) /\ w.db = d /\ w.cfg = g
  BY <1>2 DEF Reply
<1>4. PICK re : re = [cmd |-> r.cmd, status |-> OK, data |-> data]
  OBVIOUS
<1>5. ListTold(re, AsMap(d))
  BY <1>1, <1>4 DEF ListTold, Lists
<1>6. Truthful(e, re, AsMap(d), g, AsMap(d), g)
  BY <1>5 DEF Truthful, ADD_USER, DEL_USER, LIST_USERS, GET_CONFIG, SET_CONFIG
<1>7. OK \in Nat /\ data \in Seq(Nat)
  BY <1>1, AnswerData DEF OK
<1>8. Answer(w.resp, r.cmd, OK, data)
  BY <1>1, <1>3
<1> QED
  BY <1>2, <1>3, <1>4, <1>6, <1>7, <1>8 DEF Served

LEMMA GetServed ==
  ASSUME NEW d, NEW g, GoodConfig(g), NEW r, NEW e,
         r.cmd = GET_CONFIG, e.cmd = GET_CONFIG
  PROVE  Served(Reply(resp_get_config(g), d, g), r, e, d, g)
<1>1. PICK data : /\ Answer(resp_get_config(g), GET_CONFIG, OK, data)
                  /\ data = put(g.io_buffer_size, 4) \o put(g.conn_timeout_secs, 4)
                              \o <<IF g.auth_required THEN 1 ELSE 0>>
  BY ConfigAnswer
<1>2. PICK w : w = Reply(resp_get_config(g), d, g)
  OBVIOUS
<1>3. w.resp = resp_get_config(g) /\ w.db = d /\ w.cfg = g
  BY <1>2 DEF Reply
<1>4. PICK re : re = [cmd |-> r.cmd, status |-> OK, data |-> data]
  OBVIOUS
<1>5. ConfigTold(re, g)
  BY <1>1, <1>4 DEF ConfigTold
<1>6. Truthful(e, re, AsMap(d), g, AsMap(d), g)
  BY <1>5 DEF Truthful, ADD_USER, DEL_USER, LIST_USERS, GET_CONFIG, SET_CONFIG
<1>7. OK \in Nat /\ data \in Seq(Nat)
  BY <1>1, AnswerData DEF OK
<1>8. Answer(w.resp, r.cmd, OK, data)
  BY <1>1, <1>3
<1> QED
  BY <1>2, <1>3, <1>4, <1>6, <1>7, <1>8 DEF Served

LEMMA MetricsServed ==
  ASSUME NEW d, IsTable(d), NEW g, NEW r, NEW e, r.cmd = METRICS, e.cmd = METRICS
  PROVE  Served(Reply(resp_metrics(d), d, g), r, e, d, g)
<1>1. PICK data : Answer(resp_metrics(d), METRICS, OK, data)
  BY MetricsAnswer
<1>2. PICK w : w = Reply(resp_metrics(d), d, g)
  OBVIOUS
<1>3. w.resp = resp_metrics(d) /\ w.db = d /\ w.cfg = g
  BY <1>2 DEF Reply
<1>4. PICK re : re = [cmd |-> r.cmd, status |-> OK, data |-> data]
  OBVIOUS
<1>6. Truthful(e, re, AsMap(d), g, AsMap(d), g)
  BY DEF Truthful, METRICS, ADD_USER, DEL_USER, LIST_USERS, GET_CONFIG, SET_CONFIG
<1>7. OK \in Nat /\ data \in Seq(Nat)
  BY <1>1, AnswerData DEF OK
<1>8. Answer(w.resp, r.cmd, OK, data)
  BY <1>1, <1>3
<1> QED
  BY <1>2, <1>3, <1>4, <1>6, <1>7, <1>8 DEF Served

\* A command the server does not know does nothing.
LEMMA UnknownServed ==
  ASSUME NEW d, NEW g, NEW r, NEW e, r.cmd = e.cmd, r.cmd \in Nat,
         r.cmd \notin {METRICS, ADD_USER, DEL_USER, LIST_USERS, GET_CONFIG, SET_CONFIG}
  PROVE  Served(Reply(resp_simple(r.cmd, UNKNOWN_COMMAND), d, g), r, e, d, g)
<1>1. PICK re : re = [cmd |-> r.cmd, status |-> UNKNOWN_COMMAND, data |-> <<>>]
  OBVIOUS
<1>2. Truthful(e, re, AsMap(d), g, AsMap(d), g)
  BY DEF Truthful
<1>3. UNKNOWN_COMMAND \in Nat
  BY DEF UNKNOWN_COMMAND
<1> QED
  BY <1>1, <1>2, <1>3, SimplyServed

LEMMA SetServed ==
  ASSUME NEW d, NEW g, GoodConfig(g), NEW r, NEW e, r.cmd = SET_CONFIG,
         e.cmd = SET_CONFIG, r.key = e.key, r.value = e.value, r.value \in Nat
  PROVE  Served(SetConfig(r, d, g), r, e, d, g)
<1>1. PICK h : h = CASE r.key = CFG_IO_BUFFER_SIZE ->
                          [g EXCEPT !.io_buffer_size = Clamped(r.value)]
                     [] r.key = CFG_CONN_TIMEOUT ->
                          [g EXCEPT !.conn_timeout_secs = r.value]
                     [] r.key = CFG_AUTH_REQUIRED ->
                          [g EXCEPT !.auth_required = (r.value # 0)]
                     [] OTHER -> g
  OBVIOUS
<1>2. PICK st : st = IF r.key \in {CFG_IO_BUFFER_SIZE, CFG_CONN_TIMEOUT, CFG_AUTH_REQUIRED}
                     THEN OK ELSE INVALID_ARGUMENTS
  OBVIOUS
<1>3. SetConfig(r, d, g) = Reply(resp_simple(r.cmd, st), d, h)
  BY <1>1, <1>2 DEF SetConfig
<1>4. st \in Nat /\ r.cmd \in Nat
  BY <1>2 DEF OK, INVALID_ARGUMENTS, SET_CONFIG
<1>5. PICK re : re = [cmd |-> r.cmd, status |-> st, data |-> <<>>]
  OBVIOUS
<1>6. PICK v \in Nat : v = r.value
  OBVIOUS
<1>7. PICK x : x = Clamped(v)
  OBVIOUS
<1>8. /\ x \in CONFIG_MIN_BUFFER .. CONFIG_MAX_BUFFER
      /\ v \in CONFIG_MIN_BUFFER .. CONFIG_MAX_BUFFER => x = v
  <2>1. /\ CONFIG_MIN_BUFFER \in Nat /\ CONFIG_MAX_BUFFER \in Nat
        /\ CONFIG_MIN_BUFFER <= CONFIG_MAX_BUFFER
    BY MgmtAssumption, StartupAssumption
  <2> QED
    BY <1>7, <2>1 DEF Clamped
<1>9. /\ r.key = CFG_IO_BUFFER_SIZE => h = [g EXCEPT !.io_buffer_size = x]
      /\ r.key = CFG_CONN_TIMEOUT => h = [g EXCEPT !.conn_timeout_secs = v]
      /\ r.key = CFG_AUTH_REQUIRED => h = [g EXCEPT !.auth_required = (v # 0)]
      /\ r.key \notin {CFG_IO_BUFFER_SIZE, CFG_CONN_TIMEOUT, CFG_AUTH_REQUIRED} => h = g
  BY <1>1, <1>6, <1>7 DEF CFG_IO_BUFFER_SIZE, CFG_CONN_TIMEOUT, CFG_AUTH_REQUIRED
<1>11. PICK on : on = (v # 0)
  OBVIOUS
<1>12. SetTold(e, re, g, h)
  <2>1. re.status = st
    BY <1>5
  <2>2. e.key = r.key /\ e.value = v
    BY <1>6
  <2>3. CASE r.key = CFG_IO_BUFFER_SIZE
    <3>1. h.io_buffer_size = x /\ h.admin = g.admin
      <4>1. h = [g EXCEPT !.io_buffer_size = x]
        BY <1>9, <1>11, <2>3
      <4> QED
        BY <4>1 DEF GoodConfig
    <3> QED
      BY <1>8, <2>2, <2>3, <3>1
         DEF SetTold, CFG_IO_BUFFER_SIZE, CFG_CONN_TIMEOUT, CFG_AUTH_REQUIRED
  <2>4. CASE r.key = CFG_CONN_TIMEOUT
    <3>1. h.conn_timeout_secs = v /\ h.admin = g.admin
      <4>1. h = [g EXCEPT !.conn_timeout_secs = v]
        BY <1>9, <1>11, <2>4
      <4> QED
        BY <4>1 DEF GoodConfig
    <3> QED
      BY <2>2, <2>4, <3>1
         DEF SetTold, CFG_IO_BUFFER_SIZE, CFG_CONN_TIMEOUT, CFG_AUTH_REQUIRED
  <2>5. CASE r.key = CFG_AUTH_REQUIRED
    <3>1. h.auth_required = on /\ h.admin = g.admin
      <4>1. h = [g EXCEPT !.auth_required = on]
        BY <1>9, <1>11, <2>5
      <4> QED
        BY <4>1 DEF GoodConfig
    <3> QED
      BY <1>11, <2>2, <2>5, <3>1
         DEF SetTold, CFG_IO_BUFFER_SIZE, CFG_CONN_TIMEOUT, CFG_AUTH_REQUIRED
  <2>6. CASE r.key \notin {CFG_IO_BUFFER_SIZE, CFG_CONN_TIMEOUT, CFG_AUTH_REQUIRED}
    BY <1>2, <1>9, <2>1, <2>2, <2>6 DEF SetTold
  <2> QED
    BY <2>3, <2>4, <2>5, <2>6
<1>13. Truthful(e, re, AsMap(d), g, AsMap(d), h)
  BY <1>12 DEF Truthful, ADD_USER, DEL_USER, LIST_USERS, GET_CONFIG, SET_CONFIG
<1> QED
  BY <1>3, <1>4, <1>5, <1>13, SimplyServed

-----------------------------------------------------------------------------
(* What try_process makes of a message.                                    *)

Known == {METRICS, ADD_USER, DEL_USER, LIST_USERS, GET_CONFIG, SET_CONFIG}

LEMMA RequestServed ==
  ASSUME NEW d, IsTable(d), NEW g, GoodConfig(g), NEW r, NEW p, GoodRequest(r, p),
         NEW e, Says(e, r, FALSE)
  PROVE  Served(process_request(r, d, g), r, e, d, g)
<1>1. /\ e.cmd = r.cmd /\ r.cmd \in Nat /\ r.user = CString(e.user) /\ r.pass = CString(e.pass)
      /\ r.key = e.key /\ r.value = e.value /\ r.value \in Nat
      /\ r.user \in Seq(Nat) /\ r.pass \in Seq(Nat)
  BY DEF Says, GoodRequest
<1>2. CASE r.cmd = METRICS
  <2>1. process_request(r, d, g) = Reply(resp_metrics(d), d, g)
    BY <1>2 DEF process_request, METRICS, GET_CONFIG, LIST_USERS, ADD_USER, DEL_USER, SET_CONFIG
  <2>2. Served(Reply(resp_metrics(d), d, g), r, e, d, g)
    BY <1>1, <1>2, MetricsServed, Zenon
  <2> QED
    BY <2>1, <2>2
<1>3. CASE r.cmd = GET_CONFIG
  <2>1. process_request(r, d, g) = Reply(resp_get_config(g), d, g)
    BY <1>3 DEF process_request, METRICS, GET_CONFIG, LIST_USERS, ADD_USER, DEL_USER, SET_CONFIG
  <2>2. Served(Reply(resp_get_config(g), d, g), r, e, d, g)
    BY <1>1, <1>3, GetServed, Zenon
  <2> QED
    BY <2>1, <2>2
<1>4. CASE r.cmd = LIST_USERS
  <2>1. process_request(r, d, g) = Reply(resp_list_users(d), d, g)
    BY <1>4 DEF process_request, METRICS, GET_CONFIG, LIST_USERS, ADD_USER, DEL_USER, SET_CONFIG
  <2>2. Served(Reply(resp_list_users(d), d, g), r, e, d, g)
    BY <1>1, <1>4, ListServed, Zenon
  <2> QED
    BY <2>1, <2>2
<1>5. CASE r.cmd = ADD_USER
  <2>1. process_request(r, d, g) = AddUser(r, d, g)
    BY <1>5 DEF process_request, METRICS, GET_CONFIG, LIST_USERS, ADD_USER, DEL_USER, SET_CONFIG
  <2>2. Served(AddUser(r, d, g), r, e, d, g)
    BY <1>1, <1>5, AddServed, Zenon
  <2> QED
    BY <2>1, <2>2
<1>6. CASE r.cmd = DEL_USER
  <2>1. process_request(r, d, g) = DelUser(r, d, g)
    BY <1>6 DEF process_request, METRICS, GET_CONFIG, LIST_USERS, ADD_USER, DEL_USER, SET_CONFIG
  <2>2. Served(DelUser(r, d, g), r, e, d, g)
    BY <1>1, <1>6, DelServed, Zenon
  <2> QED
    BY <2>1, <2>2
<1>7. CASE r.cmd = SET_CONFIG
  <2>1. process_request(r, d, g) = SetConfig(r, d, g)
    BY <1>7 DEF process_request, METRICS, GET_CONFIG, LIST_USERS, ADD_USER, DEL_USER, SET_CONFIG
  <2>2. Served(SetConfig(r, d, g), r, e, d, g)
    BY <1>1, <1>7, SetServed, Zenon
  <2> QED
    BY <2>1, <2>2
<1>8. CASE r.cmd \notin Known
  <2>1. process_request(r, d, g) = Reply(resp_simple(r.cmd, UNKNOWN_COMMAND), d, g)
    BY <1>8 DEF process_request, Known
  <2>2. Served(Reply(resp_simple(r.cmd, UNKNOWN_COMMAND), d, g), r, e, d, g)
    BY <1>1, <1>8, UnknownServed DEF Known
  <2> QED
    BY <2>1, <2>2
<1> QED
  BY <1>2, <1>3, <1>4, <1>5, <1>6, <1>7, <1>8 DEF Known

LEMMA ParseNotUnknown ==
  ASSUME NEW p \in Seq(Nat), NEW o \in {1, 2}
  PROVE  ParsePair(p, o).rc # -2 /\ ParseName(p).rc # -2 /\ ParseSetting(p).rc # -2
<1>1. /\ Len(p) \in Nat /\ \A j \in 1 .. Len(p) : p[j] \in Nat
      /\ NeedMore.rc = 0 /\ Malformed.rc = -1
  BY NoCodes
<1>2. ASSUME NEW n, NEW u, NEW v, NEW y, NEW z
      PROVE  /\ [NoRequest EXCEPT !.rc = n, !.user = u, !.pass = v].rc = n
             /\ [NoRequest EXCEPT !.rc = n, !.user = u].rc = n
             /\ [NoRequest EXCEPT !.rc = n, !.key = y, !.value = z].rc = n
  BY DEF NoRequest
<1>3. ParseSetting(p).rc # -2
  <2>1. PICK w : w = IF p[3] = CFG_AUTH_REQUIRED THEN 1 ELSE 4
    OBVIOUS
  <2>2. w \in {1, 4}
    BY <2>1
  <2>3. ParseSetting(p).rc \in {0, 3 + w}
    BY <1>1, <1>2, <2>1 DEF ParseSetting
  <2> QED
    BY <2>2, <2>3
<1>4. ParseName(p).rc # -2
  <2>1. ParseName(p).rc \in {0, -1} \/ (~(Len(p) < 3) /\ ParseName(p).rc = 3 + p[3])
    BY <1>1, <1>2 DEF ParseName
  <2>2. ~(Len(p) < 3) => p[3] \in Nat
    BY <1>1
  <2> QED
    BY <2>1, <2>2
<1>5. ParsePair(p, o).rc # -2
  <2>1. PICK u : u = p[o + 1]
    OBVIOUS
  <2>2. PICK v : v = p[o + u + 2]
    OBVIOUS
  <2>3. \/ ParsePair(p, o).rc \in {0, -1}
        \/ /\ ~(Len(p) < o + 1) /\ ~(Len(p) < o + u + 2)
           /\ ParsePair(p, o).rc = o + 2 + u + v
    BY <1>1, <1>2, <2>1, <2>2 DEF ParsePair
  <2>4. ~(Len(p) < o + 1) => u \in Nat
    BY <1>1, <2>1
  <2>5. u \in Nat /\ ~(Len(p) < o + u + 2) => v \in Nat
    BY <1>1, <2>2
  <2>6. PICK z : z = ParsePair(p, o).rc
    OBVIOUS
  <2>7. o \in Nat
    OBVIOUS
  <2>8. z \in {0, -1} \/ (u \in Nat /\ v \in Nat /\ z = o + 2 + u + v)
    BY ONLY <2>3, <2>4, <2>5, <2>6
  <2>9. z # -2
    BY ONLY <2>7, <2>8
  <2> QED
    BY <2>6, <2>9
<1> QED
  BY <1>3, <1>4, <1>5

\* What the server says it does not know is not one of its commands.
LEMMA UnknownCommand ==
  ASSUME NEW p \in Seq(Nat), parse_request(p).rc = -2
  PROVE  parse_request(p).cmd \notin Known
<1>1. PICK x : x = p[2]
  OBVIOUS
<1>2. PICK a : a = CASE x \in {METRICS, LIST_USERS, GET_CONFIG} ->
                     [NoRequest EXCEPT !.rc = 2]
                [] x = ADD_USER   -> ParsePair(p, 2)
                [] x = DEL_USER   -> ParseName(p)
                [] x = SET_CONFIG -> ParseSetting(p)
                [] OTHER          -> [NoRequest EXCEPT !.rc = -2]
  OBVIOUS
<1>3. parse_request(p) = IF Len(p) < 2 THEN NeedMore
                         ELSE IF p[1] # SMP_VERSION THEN Malformed
                         ELSE [a EXCEPT !.cmd = x]
  BY <1>1, <1>2 DEF parse_request
<1>4. parse_request(p) = [a EXCEPT !.cmd = x]
  BY <1>3, NoCodes
<1>5. ~(Len(p) < 2) /\ x \in Nat
  <2>1. ~(Len(p) < 2)
    BY <1>3, NoCodes
  <2> QED
    BY <1>1, <2>1
<1>6. a.rc = -2
  BY ONLY <1>4, parse_request(p).rc = -2
<1>7. ParsePair(p, 2).rc # -2 /\ ParseName(p).rc # -2 /\ ParseSetting(p).rc # -2
  BY <1>5, ParseNotUnknown
<1>8. x \notin Known
  <2>1. [NoRequest EXCEPT !.rc = 2].rc # -2
    BY DEF NoRequest
  <2> QED
    BY <1>2, <1>6, <1>7, <2>1 DEF Known, METRICS, GET_CONFIG, LIST_USERS, ADD_USER, DEL_USER, SET_CONFIG
<1>9. parse_request(p).cmd = x
  BY ONLY <1>4, a.rc = -2
<1> QED
  BY <1>8, <1>9

\* The client of a connection has sent the first s messages of m: the bytes q.
Stream(q, m, s) ==
  /\ m \in Seq(Messages) /\ s \in 0 .. Len(m) /\ q = Bytes(SubSeq(m, 1, s))
  /\ \A i \in 1 .. s : SaysWhatItIs(m, i)

\* What the parser found at the begin of p is the i-th message, and there is
\* nothing behind it if it was the last.
Awaited(m, s, i, p) ==
  /\ i <= s
  /\ \/ m[i].cmd = BAD /\ Parsed(i, p).rc = -1
     \/ /\ Says(m[i], Parsed(i, p), i = 1)
        /\ Len(m[i].bytes) <= Len(p) => SubSeq(p, 1, Len(m[i].bytes)) = m[i].bytes
  /\ i = s => Len(p) <= Len(m[i].bytes)

LEMMA NextFound ==
  ASSUME NEW q \in Seq(Nat), NEW m, NEW s, Stream(q, m, s), NEW n \in 0 .. Len(q),
         NEW i \in 1 .. s + 1, NEW p \in Seq(Nat), Parsed(i, p).rc # 0
  PROVE  SubSeq(q, 1, n) = Bytes(SubSeq(m, 1, i - 1)) \o p => Awaited(m, s, i, p)
<1>0. HAVE SubSeq(q, 1, n) = Bytes(SubSeq(m, 1, i - 1)) \o p
<1>1. /\ m \in Seq(Messages) /\ s \in 0 .. Len(m) /\ q = Bytes(SubSeq(m, 1, s))
      /\ \A j \in 1 .. s : SaysWhatItIs(m, j)
  BY DEF Stream
<1>2. PICK t \in Seq(Nat) : t = SubSeq(q, n + 1, Len(q))
  BY CutSeq
<1>3. SubSeq(q, 1, n) \o t = q
  BY <1>2, CutSeq
<1>4. (Bytes(SubSeq(m, 1, i - 1)) \o p) \o t = Bytes(SubSeq(m, 1, s))
  BY <1>0, <1>1, <1>3
<1>5. i <= s /\ Found(m[i], Parsed(i, p), p, i = 1)
  BY <1>1, <1>4, NextMessage, Zenon
<1>6. i = s => Len(p) <= Len(m[i].bytes)
  <2> HAVE i = s
  <2>1. PICK a : a = Bytes(SubSeq(m, 1, i - 1))
    OBVIOUS
  <2>2. PICK b : b = m[i].bytes
    OBVIOUS
  <2>3. i \in 1 .. Len(m)
    BY <1>1, <1>5
  <2>4. a \in Seq(Nat) /\ b \in Seq(Nat) /\ q = a \o b
    BY <1>1, <2>1, <2>2, <2>3, MessageBytes, BytesGrow
  <2>5. Len(SubSeq(q, 1, n)) = n /\ n <= Len(q) /\ n \in Nat
    BY CutSeq
  <2>6. Len(a \o b) = Len(a) + Len(b) /\ Len(a \o p) = Len(a) + Len(p)
        /\ Len(a) \in Nat /\ Len(b) \in Nat /\ Len(p) \in Nat
    BY <2>4, JoinFacts
  <2>7. Len(a \o p) <= Len(a \o b)
    BY <1>0, <2>1, <2>4, <2>5
  <2> QED
    BY <2>2, <2>6, <2>7
<1> QED
  BY <1>5, <1>6 DEF Awaited, Found

All(c, o) == o \o c.wbuf.bytes
Count(c, o) == Len(Responses(All(c, o)).list)

\* The credentials that m begins with are those of a.
Admin(m, a) ==
  Head(m).cmd = AUTH /\ CString(Head(m).user) = a.name /\ CString(Head(m).pass) = a.pass

\* The message that c has not answered yet is malformed.
NextIsBad(c, o, m) ==
  LET i == Count(c, o) + (IF c.state = "AUTH" THEN 1 ELSE 2)
  IN  i <= Len(m) /\ m[i].cmd = BAD

\* The last of the responses tells the truth of what left the users of the map
\* u, the configuration g, as those of v and h.
LastTold(c, o, m, u, g, v, h) ==
  Truthful(m[Count(c, o) + 1], Responses(All(c, o)).list[Count(c, o)], u, g, v, h)

\* What a handler may leave of the conversation on connection c.
Kept(left, c, q, n, o, m, s, admin) ==
  /\ Talk(left.conn, q, n, o, m, s, admin)
  /\ left.conn.state = "closed" => NextIsBad(c, o, m)
  /\ Count(left.conn, o) > Count(c, o) =>
       LastTold(left.conn, o, m, AsMap(db), cfg, AsMap(left.db), left.cfg)
  /\ s <= 2 /\ (c.state = "AUTH" => s <= 1) /\ c.rbuf.read = 0 => left.conn.rbuf.read = 0

LEMMA WbufBytes ==
  ASSUME NEW b \in BufferOf(Nat, MGMT_WBUF)
  PROVE  b.bytes \in Seq(Nat)
<1>1. MGMT_WBUF \in Nat
  BY MgmtAssumption
<1> QED
  BY <1>1, BufferFields

LEMMA CountType ==
  ASSUME NEW c, NEW o \in Seq(Nat), c.wbuf \in BufferOf(Nat, MGMT_WBUF)
  PROVE  All(c, o) \in Seq(Nat) /\ Count(c, o) \in Nat
<1>1. PICK w : w = c.wbuf.bytes
  OBVIOUS
<1>2. w \in Seq(Nat)
  BY <1>1, WbufBytes
<1>3. PICK a : a = All(c, o)
  OBVIOUS
<1>4. a \in Seq(Nat)
  BY <1>1, <1>2, <1>3, JoinType DEF All
<1>5. Responses(a).list \in Seq(ResponseSet)
  BY <1>4, ResponsesType DEF ReadSet
<1>6. Len(Responses(a).list) \in Nat
  BY <1>5
<1> QED
  BY <1>3, <1>4, <1>6 DEF Count

LEMMA ClosedFields ==
  /\ Closed.state = "closed" /\ Closed.close_after_write = FALSE
  /\ Closed.wbuf \in BufferOf(Nat, MGMT_WBUF) /\ Closed.wbuf.bytes = <<>>
  /\ Closed.rbuf.read = 0
<1>1. PICK b : b = buffer_init(MGMT_WBUF)
  OBVIOUS
<1>2. b \in BufferOf(Nat, MGMT_WBUF) /\ b.bytes = <<>>
  <2>1. <<>> \in Seq(Nat) /\ Len(<<>>) = 0
    OBVIOUS
  <2> QED
    BY <1>1, <2>1, MgmtAssumption DEF buffer_init, BufferOf
<1>3. PICK r : r = buffer_init(MGMT_RBUF)
  OBVIOUS
<1>4. r.read = 0
  BY <1>3 DEF buffer_init
<1>5. Closed.wbuf = b /\ Closed.rbuf = r
  BY <1>1, <1>3 DEF Closed, NewConn
<1>6. Closed.state = "closed" /\ Closed.close_after_write = FALSE
  BY DEF Closed, NewConn
<1> QED
  BY <1>2, <1>4, <1>5, <1>6

(* A connection that is closed has told no more than it has sent.          *)
LEMMA TalkClosed ==
  ASSUME NEW c, NEW q, NEW n, NEW o, NEW m, NEW s \in Nat, NEW admin,
         Talk(c, q, n, o, m, s, admin)
  PROVE  /\ Talk(Closed, q, n, o, m, s, admin)
         /\ ~(Count(Closed, o) > Count(c, o))
<1>1. o \in Seq(Nat) /\ c.wbuf \in BufferOf(Nat, MGMT_WBUF) /\ Told(o \o c.wbuf.bytes, m, s)
  BY DEF Talk
<1>2. PICK w \in Seq(Nat) : w = c.wbuf.bytes
  BY <1>1, WbufBytes
<1>3. PICK y \in Seq(ResponseSet) : Responses(o \o w).list = Responses(o).list \o y
  BY <1>1, ResponsesPrefix
<1>4. PICK l : l = Responses(o).list
  OBVIOUS
<1>5. l \in Seq(ResponseSet)
  BY <1>1, <1>4, ResponsesType DEF ReadSet
<1>6. /\ Len(l) \in Nat /\ Len(y) \in Nat /\ Len(l \o y) = Len(l) + Len(y)
      /\ \A i \in 1 .. Len(l) : (l \o y)[i] = l[i] /\ i \in 1 .. Len(l \o y)
  BY <1>5
<1>7. Told(o, m, s)
  <2>1. ASSUME NEW i \in 1 .. Len(l) PROVE i < s /\ l[i].cmd = m[i + 1].cmd
    <3>1. i \in 1 .. Len(Responses(o \o w).list) /\ Responses(o \o w).list[i] = l[i]
      BY <1>3, <1>4, <1>6
    <3> QED
      BY <1>1, <1>2, <3>1 DEF Told
  <2> QED
    BY <1>4, <2>1 DEF Told
<1>8. o \o <<>> = o
  BY <1>1
<1>9. Told(o \o Closed.wbuf.bytes, m, s)
  BY <1>7, <1>8, ClosedFields
<1>10. Count(Closed, o) = Len(l) /\ Count(c, o) = Len(l \o y)
  BY <1>2, <1>3, <1>4, <1>8, ClosedFields DEF Count, All
<1>11. ~(Count(Closed, o) > Count(c, o))
  BY <1>6, <1>10
<1> QED
  BY <1>1, <1>9, <1>11, ClosedFields DEF Talk

LEMMA TalkConn ==
  ASSUME NEW c, NEW o \in Seq(Nat), c.wbuf \in BufferOf(Nat, MGMT_WBUF)
  PROVE  ~(Count(c, o) > Count(c, o))
BY CountType

\* What an answer makes of the connection c.
Replied(a, c, n, resp, st) ==
  /\ GoodMgmt(a) /\ a.state = st
  /\ a.wbuf \in BufferOf(Nat, MGMT_WBUF) /\ a.wbuf.bytes = resp
  /\ a.close_after_write = c.close_after_write
  /\ a.rbuf.bytes \in Seq(Nat) /\ SubSeq(c.rbuf.bytes, 1, n) \o a.rbuf.bytes = c.rbuf.bytes
  /\ n = Len(c.rbuf.bytes) => a.rbuf.read = 0

LEMMA AnswersReply ==
  ASSUME NEW c, GoodMgmt(c), c.wbuf \in BufferOf(Nat, MGMT_WBUF),
         NEW n \in 0 .. Len(c.rbuf.bytes), NEW resp \in Seq(Nat), Len(resp) <= MGMT_WBUF,
         NEW st
  PROVE  Replied(Answers(c, n, resp, st), c, n, resp, st)
<1>1. PICK a : a = Answers(c, n, resp, st)
  OBVIOUS
<1>2. PICK w : w = buffer_write(buffer_reset(c.wbuf), resp)
  OBVIOUS
<1>3. PICK b : b = buffer_read_adv(c.rbuf, n)
  OBVIOUS
<1>4. GoodMgmt(a) /\ a.state = st
  BY <1>1, AnswersGood
<1>5. w \in BufferOf(Nat, MGMT_WBUF) /\ w.bytes = resp
  BY <1>2, ReplyFits
<1>6. a = [c EXCEPT !.rbuf = b, !.wbuf = w, !.state = st, !.interest = {"OP_WRITE"}]
  BY <1>1, <1>2, <1>3 DEF Answers
<1>7. a.wbuf = w /\ a.rbuf = b /\ a.close_after_write = c.close_after_write
  BY <1>6 DEF GoodMgmt
<1>8. c.rbuf \in BufferOf(Nat, MGMT_RBUF) /\ MGMT_RBUF \in Nat
  BY MgmtSizes DEF GoodMgmt
<1>9. /\ b \in BufferOf(Nat, MGMT_RBUF)
      /\ SubSeq(c.rbuf.bytes, 1, n) \o b.bytes = c.rbuf.bytes
  BY <1>3, <1>8, ReadAdvDrops, Zenon
<1>10. b.bytes \in Seq(Nat)
  BY <1>8, <1>9, BufferFields
<1>11. n = Len(c.rbuf.bytes) => b.read = 0
  <2> HAVE n = Len(c.rbuf.bytes)
  <2>1. PICK p : p = c.rbuf.bytes
    OBVIOUS
  <2>2. p \in Seq(Nat) /\ Len(p) \in Nat
    BY <1>8, <2>1, BufferFields
  <2>3. SubSeq(p, n + 1, Len(p)) = <<>>
    <3>1. Len(SubSeq(p, n + 1, Len(p))) = 0 /\ SubSeq(p, n + 1, Len(p)) \in Seq(Nat)
      <4>1. n \in 0 .. Len(p) /\ Len(p) - n = 0
        BY <2>1, <2>2
      <4> QED
        BY <2>2, <4>1, CutSeq
    <3>2. PICK y \in Seq(Nat) : y = SubSeq(p, n + 1, Len(p)) /\ Len(y) = 0
      BY <3>1
    <3>3. Len(y) = 0
      BY <3>2
    <3>4. y = <<>>
      BY ONLY <3>3, y \in Seq(Nat)
    <3> QED
      BY <3>2, <3>4
  <2>4. PICK adv : adv = [c.rbuf EXCEPT !.read = @ + n, !.bytes = SubSeq(p, n + 1, Len(p))]
    OBVIOUS
  <2>5. b = buffer_compact(adv)
    BY <1>3, <2>1, <2>3, <2>4 DEF buffer_read_adv
  <2>6. c.rbuf \in [size : {MGMT_RBUF}, read : Nat, bytes : Seq(Nat)]
    BY <1>8, BufferFields
  <2>7. "read" \in DOMAIN adv
    BY <2>4, <2>6
  <2> QED
    BY <2>5, <2>7 DEF buffer_compact
<1> QED
  BY <1>1, <1>4, <1>5, <1>7, <1>9, <1>10, <1>11 DEF Replied

(* A reply to the next message keeps the conversation.                     *)
LEMMA ReplyKept ==
  ASSUME NEW c, GoodMgmt(c), c.state = "REQUEST", NEW q \in Seq(Nat), NEW m, NEW s,
         Stream(q, m, s), NEW n \in 0 .. Len(q), NEW o, NEW admin,
         Talk(c, q, n, o, m, s, admin),
         NEW i, i = Len(Responses(o).list) + 2, i <= s,
         NEW r, Says(m[i], r, FALSE), NEW x, x = Len(m[i].bytes), x <= Len(c.rbuf.bytes),
         SubSeq(c.rbuf.bytes, 1, x) = m[i].bytes,
         i = s => Len(c.rbuf.bytes) <= x,
         NEW w, Served(w, r, m[i], db, cfg),
         NEW a, a = Answers(c, x, w.resp, "RESPONSE")
  PROVE  Kept(Left(a, w.db, w.cfg), c, q, n, o, m, s, admin)
<1>1. /\ o \in Seq(Nat) /\ c.wbuf \in BufferOf(Nat, MGMT_WBUF) /\ c.wbuf.bytes = <<>>
      /\ Told(o \o c.wbuf.bytes, m, s)
      /\ Settled(o \o c.wbuf.bytes, c.rbuf.bytes, SubSeq(q, 1, n), m, s)
      /\ c.close_after_write = FALSE
  BY DEF Talk
<1>2. o \o c.wbuf.bytes = o
  BY <1>1
<1>3. PICK l : l = Responses(o).list
  OBVIOUS
<1>4. PICK p : p = c.rbuf.bytes
  OBVIOUS
<1>5. p \in Seq(Nat) /\ Len(p) \in Nat
  BY <1>4, MgmtSizes, BufferFields DEF GoodMgmt
<1>6. l \in Seq(ResponseSet) /\ Len(l) \in Nat
  <2>1. l \in Seq(ResponseSet)
    BY <1>1, <1>3, ResponsesType DEF ReadSet
  <2> QED
    BY <2>1
<1>7. /\ Len(o) >= 2 /\ Responses(o).rest = 0 /\ Len(l) < s
      /\ SubSeq(q, 1, n) = Bytes(SubSeq(m, 1, Len(l) + 1)) \o p
      /\ \A j \in 1 .. Len(l) : j < s /\ l[j].cmd = m[j + 1].cmd
  BY <1>1, <1>2, <1>3, <1>4 DEF Settled, Told
<1>8. PICK st \in Nat, data \in Seq(Nat) :
        /\ Answer(w.resp, r.cmd, st, data)
        /\ Truthful(m[i], [cmd |-> r.cmd, status |-> st, data |-> data],
                    AsMap(db), cfg, AsMap(w.db), w.cfg)
  BY DEF Served
<1>9. PICK re : re = [cmd |-> r.cmd, status |-> st, data |-> data]
  OBVIOUS
<1>10. PICK t : t = w.resp
  OBVIOUS
<1>11. Frame(t) /\ t \in Seq(Nat) /\ Len(t) <= MGMT_WBUF /\ Response(t, 1) = re
  BY <1>8, <1>9, <1>10 DEF Answer, Frame
<1>12. Responses(o \o t) = [list |-> l \o <<re>>, rest |-> 0]
  BY <1>1, <1>3, <1>7, <1>11, ResponsesGrow
<1>12a. PICK rs : rs = Responses(o \o t)
  OBVIOUS
<1>12b. rs.list = l \o <<re>> /\ rs.rest = 0
  BY <1>12, <1>12a
<1>13. m \in Seq(Messages) /\ s \in 0 .. Len(m)
  BY DEF Stream
<1>14. i = Len(l) + 2 /\ i \in 1 .. Len(m) /\ i \in Nat /\ s \in Nat
  BY <1>3, <1>6, <1>13
<1>15. m[i].bytes \in Seq(Nat) /\ x \in Nat /\ x \in 0 .. Len(p)
  <2>1. m[i].bytes \in Seq(Nat)
    BY <1>13, <1>14, MessageBytes
  <2> QED
    BY <1>4, <1>5, <2>1
<1>16. Replied(a, c, x, t, "RESPONSE")
  BY <1>1, <1>4, <1>10, <1>11, <1>15, AnswersReply, Zenon
<1>17. PICK z : z = a.rbuf.bytes
  OBVIOUS
<1>18. /\ a.state = "RESPONSE" /\ a.wbuf \in BufferOf(Nat, MGMT_WBUF) /\ a.wbuf.bytes = t
       /\ a.close_after_write = FALSE /\ z \in Seq(Nat) /\ m[i].bytes \o z = p
       /\ x = Len(p) => a.rbuf.read = 0
  BY <1>1, <1>4, <1>16, <1>17 DEF Replied
<1>19. PICK k : k = l \o <<re>>
  OBVIOUS
<1>20. re \in ResponseSet
  <2>2. o \o t \in Seq(Nat)
    BY <1>1, <1>11, JoinType
  <2>3. l \o <<re>> \in Seq(ResponseSet)
    <3>1. rs \in ReadSet
      BY <1>12a, <2>2, ResponsesType
    <3> QED
      BY <1>12b, <3>1 DEF ReadSet
  <2>4. r.cmd \in Nat
    <3>1. Response(t, 1).cmd = t[2] /\ re.cmd = r.cmd
      BY <1>9 DEF Response
    <3>2. t[2] \in Nat
      <4>1. Len(t) >= 5
        BY <1>11 DEF Frame
      <4> QED
        BY <1>11, <4>1, SMTT(30)
    <3> QED
      BY <1>11, <3>1, <3>2
  <2> QED
    BY <1>9, <2>4 DEF ResponseSet
<1>21. /\ Len(k) = Len(l) + 1 /\ k[Len(l) + 1] = re
       /\ \A j \in 1 .. Len(l) : k[j] = l[j]
  BY <1>6, <1>19, <1>20
<1>22. re.cmd = m[i].cmd
  <2>1. re.cmd = r.cmd
    BY <1>9
  <2> QED
    BY <2>1 DEF Says
<1>23. Told(o \o t, m, s)
  <2>1. ASSUME NEW j \in 1 .. Len(k) PROVE j < s /\ k[j].cmd = m[j + 1].cmd
    <3>1. CASE j \in 1 .. Len(l)
      BY <1>7, <1>21, <3>1
    <3>2. CASE j = Len(l) + 1
      <4>1. j + 1 = i /\ j < s
        BY <1>6, <1>14, <3>2
      <4> QED
        BY <1>21, <1>22, <3>2, <4>1
    <3>3. j \in 1 .. Len(l) \/ j = Len(l) + 1
      <4>1. PICK u \in Nat : u = Len(l)
        BY <1>6
      <4>2. j \in 1 .. u + 1
        BY <1>21, <4>1
      <4>3. j \in 1 .. u \/ j = u + 1
        BY ONLY <4>2, u \in Nat
      <4> QED
        BY <4>1, <4>3, Zenon
    <3> QED
      BY <3>1, <3>2, <3>3
  <2>2. Responses(o \o t).list = k
    BY <1>12a, <1>12b, <1>19
  <2> QED
    BY <2>1, <2>2 DEF Told
<1>24. Settled(o \o t, z, SubSeq(q, 1, n), m, s)
  <2>1. PICK b : b = Bytes(SubSeq(m, 1, Len(l) + 1))
    OBVIOUS
  <2>2. Len(l) + 1 = i - 1 /\ Len(k) + 1 = i /\ Len(k) < s
    BY <1>6, <1>14, <1>21
  <2>3. PICK e : e = m[i].bytes
    OBVIOUS
  <2>4. Bytes(SubSeq(m, 1, i)) = b \o e /\ b \in Seq(Nat) /\ e \in Seq(Nat)
    BY <1>13, <1>14, <1>15, <2>1, <2>2, <2>3, BytesGrow
  <2>5. (b \o e) \o z = b \o (e \o z)
    BY <1>18, <2>4, Assoc, ZenonT(40)
  <2>6. SubSeq(q, 1, n) = Bytes(SubSeq(m, 1, Len(k) + 1)) \o z
    BY <1>7, <1>18, <2>1, <2>2, <2>3, <2>4, <2>5
  <2>7. Len(o \o t) >= 2
    <3>1. Len(o \o t) = Len(o) + Len(t)
      BY <1>1, <1>11, JoinType
    <3>2. Len(t) \in Nat /\ Len(o) \in Nat
      BY <1>1, <1>11
    <3> QED
      BY <1>7, <3>1, <3>2
  <2>8. Responses(o \o t).list = k /\ Responses(o \o t).rest = 0
    BY <1>12a, <1>12b, <1>19
  <2> QED
    BY <2>2, <2>6, <2>7, <2>8 DEF Settled
<1>25. Talk(a, q, n, o, m, s, admin)
  BY <1>1, <1>17, <1>18, <1>23, <1>24 DEF Talk
<1>26. Count(a, o) = Len(l) + 1 /\ LastTold(a, o, m, AsMap(db), cfg, AsMap(w.db), w.cfg)
  <2>1. All(a, o) = o \o t /\ Responses(o \o t).list = k
    BY <1>12a, <1>12b, <1>18, <1>19 DEF All
  <2>2. Count(a, o) = Len(l) + 1
    BY <1>21, <2>1 DEF Count
  <2>3. Count(a, o) + 1 = i
    BY <1>6, <1>14, <2>2
  <2>4. Responses(All(a, o)).list[Count(a, o)] = re
    BY <1>21, <2>1, <2>2
  <2> QED
    BY <1>8, <1>9, <2>2, <2>3, <2>4 DEF LastTold
<1>27. s <= 2 => a.rbuf.read = 0
  <2> HAVE s <= 2
  <2>1. i = s
    BY <1>6, <1>14
  <2>2. x = Len(p)
    BY <1>4, <1>5, <1>15, <2>1
  <2> QED
    BY <1>18, <2>2
<1>28. PICK left : left = Left(a, w.db, w.cfg)
  OBVIOUS
<1>29. left.conn = a /\ left.db = w.db /\ left.cfg = w.cfg
  BY <1>28 DEF Left
<1> QED
  BY <1>18, <1>25, <1>26, <1>27, <1>28, <1>29 DEF Kept

\* A handler that leaves the connection as it is.
LEMMA SameKept ==
  ASSUME NEW c, NEW q, NEW n, NEW o, NEW m, NEW s, NEW admin,
         Talk(c, q, n, o, m, s, admin), c.state # "closed"
  PROVE  Kept(Left(c, db, cfg), c, q, n, o, m, s, admin)
<1>1. PICK left : left = Left(c, db, cfg)
  OBVIOUS
<1>2. left.conn = c
  BY <1>1 DEF Left
<1>3. o \in Seq(Nat) /\ c.wbuf \in BufferOf(Nat, MGMT_WBUF)
  BY DEF Talk
<1>4. ~(Count(c, o) > Count(c, o))
  BY <1>3, TalkConn
<1> QED
  BY <1>1, <1>2, <1>4 DEF Kept

\* One that closes it because the next message is malformed.
LEMMA DoneKept ==
  ASSUME NEW c, NEW q, NEW n, NEW o, NEW m, NEW s \in Nat, NEW admin,
         Talk(c, q, n, o, m, s, admin), NextIsBad(c, o, m)
  PROVE  Kept(mgmt_done, c, q, n, o, m, s, admin)
<1>1. PICK left : left = mgmt_done
  OBVIOUS
<1>2. left.conn = Closed
  BY <1>1 DEF mgmt_done, Left
<1>3. /\ Talk(Closed, q, n, o, m, s, admin)
      /\ ~(Count(Closed, o) > Count(c, o))
  BY TalkClosed
<1> QED
  BY <1>1, <1>2, <1>3, ClosedFields DEF Kept

LEMMA ReqKept ==
  ASSUME NEW c, GoodMgmt(c), c.state = "REQUEST", IsTable(db), GoodConfig(cfg),
         NEW q \in Seq(Nat), NEW m, NEW s, Stream(q, m, s), NEW n \in 0 .. Len(q),
         NEW o, NEW admin, Talk(c, q, n, o, m, s, admin)
  PROVE  Kept(ProcessRequest(c), c, q, n, o, m, s, admin)
<1>1. /\ o \in Seq(Nat) /\ c.wbuf \in BufferOf(Nat, MGMT_WBUF) /\ c.wbuf.bytes = <<>>
      /\ Settled(o \o c.wbuf.bytes, c.rbuf.bytes, SubSeq(q, 1, n), m, s)
  BY DEF Talk
<1>2. o \o c.wbuf.bytes = o
  BY <1>1
<1>3. PICK l : l = Responses(o).list
  OBVIOUS
<1>4. PICK p : p = c.rbuf.bytes
  OBVIOUS
<1>5. p \in Seq(Nat) /\ Len(p) \in Nat
  BY <1>4, MgmtSizes, BufferFields DEF GoodMgmt
<1>6. l \in Seq(ResponseSet) /\ Len(l) \in Nat
  <2>1. l \in Seq(ResponseSet)
    BY <1>1, <1>3, ResponsesType DEF ReadSet
  <2> QED
    BY <2>1
<1>7. Len(l) < s /\ SubSeq(q, 1, n) = Bytes(SubSeq(m, 1, Len(l) + 1)) \o p
  BY <1>1, <1>2, <1>3, <1>4 DEF Settled
<1>8. m \in Seq(Messages) /\ s \in 0 .. Len(m) /\ Len(m) \in Nat /\ s \in Nat
  BY DEF Stream
<1>9. PICK i \in Nat : i = Len(l) + 2
  BY <1>6
<1>10. i \in 1 .. s + 1 /\ i # 1 /\ i - 1 = Len(l) + 1
  BY <1>6, <1>7, <1>8, <1>9
<1>11. PICK r : r = parse_request(p)
  OBVIOUS
<1>12. Parsed(i, p) = r
  BY <1>10, <1>11 DEF Parsed
<1>13. GoodRequest(r, p) /\ (r.rc = -2 => Len(p) >= 2 /\ r.cmd \notin Known)
  BY <1>5, <1>11, ParseRequestGood, UnknownCommand
<1>14. r.rc \in Int /\ -2 <= r.rc /\ r.rc <= Len(p) /\ r.cmd \in Nat
  BY <1>13 DEF GoodRequest
<1>15. r.rc # 0 =>
         /\ i <= s /\ (i = s => Len(p) <= Len(m[i].bytes))
         /\ \/ m[i].cmd = BAD /\ r.rc = -1
            \/ /\ Says(m[i], r, FALSE)
               /\ Len(m[i].bytes) <= Len(p) => SubSeq(p, 1, Len(m[i].bytes)) = m[i].bytes
  <2> HAVE r.rc # 0
  <2>1. Parsed(i, p).rc # 0
    BY <1>12
  <2>2. SubSeq(q, 1, n) = Bytes(SubSeq(m, 1, i - 1)) \o p
    BY <1>7, <1>10
  <2>3. Awaited(m, s, i, p)
    BY <1>5, <1>10, <2>1, <2>2, NextFound, Zenon
  <2>4. Says(m[i], r, i = 1) => Says(m[i], r, FALSE)
    BY <1>10 DEF Says
  <2> QED
    BY <1>12, <2>3, <2>4, Zenon DEF Awaited
<1>16. PICK e : e = m[i]
  OBVIOUS
<1>17. i <= s => e.bytes \in Seq(Nat) /\ Len(e.bytes) \in Nat
  <2> HAVE i <= s
  <2>1. i \in 1 .. Len(m)
    BY <1>8, <1>10
  <2>2. e.bytes \in Seq(Nat)
    BY <1>8, <1>16, <2>1, MessageBytes
  <2> QED
    BY <2>2
<1>18. PICK w : w = process_request(r, db, cfg)
  OBVIOUS
<1>19. PICK u : u = Reply(resp_simple(r.cmd, UNKNOWN_COMMAND), db, cfg)
  OBVIOUS
<1>20. u.resp = resp_simple(r.cmd, UNKNOWN_COMMAND) /\ u.db = db /\ u.cfg = cfg
  BY <1>19 DEF Reply
<1>21. PICK a : a = Answers(c, r.rc, w.resp, "RESPONSE")
  OBVIOUS
<1>22. PICK b : b = Answers(c, 2, u.resp, "RESPONSE")
  OBVIOUS
<1>23. ProcessRequest(c) = CASE r.rc = 0  -> Left(c, db, cfg)
                             [] r.rc = -1 -> mgmt_done
                             [] r.rc = -2 -> Left(b, u.db, u.cfg)
                             [] r.rc > 0  -> Left(a, w.db, w.cfg)
  BY <1>4, <1>11, <1>18, <1>20, <1>21, <1>22 DEF ProcessRequest
<1>28. (r.rc = -2 \/ r.rc > 0) => r.rc # 0 /\ r.rc # -1
  BY <1>14
<1>29. r.rc = -1 => r.rc # 0
  OBVIOUS
<1>24. CASE r.rc = 0
  <2>1. ProcessRequest(c) = Left(c, db, cfg)
    BY <1>23, <1>24
  <2> QED
    BY <2>1, SameKept
<1>25. CASE r.rc = -1
  <2>1. ProcessRequest(c) = mgmt_done
    BY <1>23, <1>25
  <2>2. i <= s /\ ((e.cmd = BAD /\ r.rc = -1) \/ Says(e, r, FALSE))
    BY <1>15, <1>16, <1>25, <1>29, Zenon
  <2>3. e.cmd = BAD
    BY <1>17, <1>25, <2>2 DEF Says
  <2>4. NextIsBad(c, o, m)
    <3>1. Count(c, o) = Len(l)
      BY <1>2, <1>3 DEF Count, All
    <3>2. Count(c, o) + (IF c.state = "AUTH" THEN 1 ELSE 2) = i
      BY <1>9, <3>1
    <3>3. i <= Len(m) /\ m[i].cmd = BAD
      BY <1>8, <1>16, <2>2, <2>3
    <3> QED
      BY <3>2, <3>3 DEF NextIsBad
  <2> QED
    BY <1>8, <2>1, <2>4, DoneKept
<1>26. CASE r.rc = -2
  <2>1. ProcessRequest(c) = Left(b, u.db, u.cfg)
    BY <1>23, <1>26
  <2>2. i <= s /\ (i = s => Len(p) <= Len(e.bytes))
    BY <1>15, <1>16, <1>26, <1>28, Zenon
  <2>3. Says(e, r, FALSE) /\ (Len(e.bytes) <= Len(p) => SubSeq(p, 1, Len(e.bytes)) = e.bytes)
    BY <1>15, <1>16, <1>26, <1>28, Zenon
  <2>4. Len(e.bytes) = 2
    <3>1. PICK len \in Nat : len = Len(e.bytes)
      BY <1>17, <2>2
    <3>2. r.rc = IF r.rc = -2 THEN -len ELSE len
      BY <2>3, <3>1 DEF Says
    <3>3. -2 = -len
      BY <1>26, <3>2
    <3>4. len = 2
      BY ONLY <3>3, len \in Nat
    <3> QED
      BY <3>1, <3>4
  <2>5. Served(u, r, e, db, cfg)
    <3>1. r.cmd = e.cmd
      BY <2>3 DEF Says
    <3> QED
      BY <1>13, <1>14, <1>19, <1>26, <3>1, UnknownServed DEF Known
  <2>6. 2 <= Len(p) /\ SubSeq(p, 1, 2) = e.bytes
    BY <1>13, <1>26, <2>3, <2>4
  <2>7. Kept(Left(b, u.db, u.cfg), c, q, n, o, m, s, admin)
    BY <1>3, <1>4, <1>9, <1>16, <1>22, <2>2, <2>3, <2>4, <2>5, <2>6, ReplyKept, ZenonT(40)
  <2> QED
    BY <2>1, <2>7
<1>27. CASE r.rc > 0
  <2>1. ProcessRequest(c) = Left(a, w.db, w.cfg)
    BY <1>23, <1>27
  <2>2. i <= s /\ (i = s => Len(p) <= Len(e.bytes))
    BY <1>15, <1>16, <1>27, <1>28, Zenon
  <2>3. Says(e, r, FALSE) /\ (Len(e.bytes) <= Len(p) => SubSeq(p, 1, Len(e.bytes)) = e.bytes)
    BY <1>15, <1>16, <1>27, <1>28, Zenon
  <2>4. Len(e.bytes) = r.rc
    BY <1>17, <1>27, <2>2, <2>3 DEF Says
  <2>5. Served(w, r, e, db, cfg)
    BY <1>13, <1>18, <2>3, RequestServed
  <2>6. r.rc <= Len(p) /\ SubSeq(p, 1, r.rc) = e.bytes
    BY <1>14, <2>3, <2>4
  <2>7. Kept(Left(a, w.db, w.cfg), c, q, n, o, m, s, admin)
    BY <1>3, <1>4, <1>9, <1>16, <1>21, <2>2, <2>3, <2>4, <2>5, <2>6, ReplyKept, ZenonT(40)
  <2> QED
    BY <2>1, <2>7
<1> QED
  BY <1>14, <1>24, <1>25, <1>26, <1>27

\* There is no response in the reply to the authentication.
LEMMA NoResponses ==
  ASSUME NEW q \in Seq(Nat), Len(q) <= 2
  PROVE  Responses(q).list = <<>> /\ Responses(q).rest = 0
<1>1. Len(q) < 3
  BY Len(q) \in Nat
<1>2. Responses(q) = [list |-> <<>>, rest |-> 0]
  BY <1>1, ResponsesType
<1> QED
  BY <1>2

LEMMA AuthVerdict ==
  ASSUME NEW p \in Seq(Nat)
  PROVE  GoodRequest(parse_auth(p), p) /\ parse_auth(p).rc # -2
<1>1. ParsePair(p, 1).rc # -2 /\ GoodRequest(ParsePair(p, 1), p)
  BY ParseNotUnknown, ParsePairGood
<1>2. GoodRequest(NeedMore, p) /\ GoodRequest(Malformed, p)
  BY NoRequestGood
<1> QED
  BY <1>1, <1>2, NoCodes DEF parse_auth

LEMMA AuthKept ==
  ASSUME NEW c, GoodMgmt(c), c.state = "AUTH", NEW q \in Seq(Nat), NEW m, NEW s,
         Stream(q, m, s), NEW n \in 0 .. Len(q), NEW o,
         Talk(c, q, n, o, m, s, Admin(m, cfg.admin))
  PROVE  Kept(ProcessAuth(c), c, q, n, o, m, s, Admin(m, cfg.admin))
<1>1. /\ o = <<>> /\ c.wbuf \in BufferOf(Nat, MGMT_WBUF) /\ c.wbuf.bytes = <<>>
      /\ o \in Seq(Nat) /\ c.rbuf.bytes = SubSeq(q, 1, n)
  BY DEF Talk
<1>2. PICK p : p = c.rbuf.bytes
  OBVIOUS
<1>3. p \in Seq(Nat) /\ Len(p) \in Nat
  BY <1>2, MgmtSizes, BufferFields DEF GoodMgmt
<1>4. m \in Seq(Messages) /\ s \in 0 .. Len(m) /\ Len(m) \in Nat /\ s \in Nat
  BY DEF Stream
<1>5. Bytes(SubSeq(m, 1, 0)) = <<>> /\ <<>> \o p = p /\ 1 - 1 = 0 /\ 1 \in 1 .. s + 1
  BY <1>3, <1>4, BytesAll
<1>6. PICK r : r = parse_auth(p)
  OBVIOUS
<1>7. Parsed(1, p) = r
  BY <1>6 DEF Parsed
<1>8. GoodRequest(r, p) /\ r.rc # -2
  BY <1>3, <1>6, AuthVerdict
<1>9. r.rc \in Int /\ -2 <= r.rc /\ r.rc <= Len(p)
  BY <1>8 DEF GoodRequest
<1>10. PICK e : e = m[1]
  OBVIOUS
<1>11. r.rc # 0 =>
         /\ 1 <= s /\ (1 = s => Len(p) <= Len(e.bytes))
         /\ \/ e.cmd = BAD /\ r.rc = -1
            \/ /\ Says(e, r, TRUE)
               /\ Len(e.bytes) <= Len(p) => SubSeq(p, 1, Len(e.bytes)) = e.bytes
  <2> HAVE r.rc # 0
  <2>1. Parsed(1, p).rc # 0
    BY <1>7
  <2>2. SubSeq(q, 1, n) = Bytes(SubSeq(m, 1, 1 - 1)) \o p
    BY <1>1, <1>2, <1>5
  <2>3. Awaited(m, s, 1, p)
    BY <1>3, <1>5, <2>1, <2>2, NextFound, Zenon
  <2>4. Says(m[1], r, 1 = 1) => Says(m[1], r, TRUE)
    BY DEF Says
  <2> QED
    BY <1>7, <1>10, <2>3, <2>4, Zenon DEF Awaited
<1>12. 1 <= s => e.bytes \in Seq(Nat) /\ Len(e.bytes) \in Nat
  <2> HAVE 1 <= s
  <2>1. 1 \in 1 .. Len(m)
    BY <1>4
  <2>2. e.bytes \in Seq(Nat)
    BY <1>4, <1>10, <2>1, MessageBytes
  <2> QED
    BY <2>2
<1>13. PICK ok : ok = (r.user = cfg.admin.name /\ r.pass = cfg.admin.pass)
  OBVIOUS
<1>14. ok \in BOOLEAN
  BY <1>13, Zenon
<1>15. PICK resp : resp = <<SMP_VERSION, IF ok THEN 0 ELSE 1>>
  OBVIOUS
<1>16. PICK a : a = Answers(c, r.rc, resp, "AUTH_REPLY")
  OBVIOUS
<1>17. PICK b : b = [a EXCEPT !.auth_ok = ok, !.close_after_write = ~ok]
  OBVIOUS
<1>18. ProcessAuth(c) = CASE r.rc = 0 -> Left(c, db, cfg)
                          [] r.rc < 0 -> mgmt_done
                          [] r.rc > 0 -> Left(b, db, cfg)
  BY <1>2, <1>6, <1>13, <1>15, <1>16, <1>17, Zenon DEF ProcessAuth
<1>19. All(c, o) = <<>> /\ Count(c, o) = 0
  <2>1. All(c, o) = <<>> /\ <<>> \in Seq(Nat) /\ Len(<<>>) = 0
    BY <1>1 DEF All
  <2>2. Len(o) = 0 /\ Len(o) <= 2
    BY <1>1, <2>1
  <2>3. Responses(o).list = <<>>
    BY <1>1, <2>2, NoResponses
  <2> QED
    BY <1>1, <2>1, <2>3 DEF Count
<1>20. CASE r.rc = 0
  <2>1. ProcessAuth(c) = Left(c, db, cfg)
    BY <1>18, <1>20
  <2> QED
    BY <2>1, SameKept
<1>21. CASE r.rc < 0
  <2>1. ProcessAuth(c) = mgmt_done
    BY <1>9, <1>18, <1>21
  <2>2. r.rc # 0 /\ r.rc = -1
    BY <1>8, <1>9, <1>21
  <2>3. 1 <= s /\ (e.cmd = BAD \/ Says(e, r, TRUE))
    BY <1>11, <2>2, Zenon
  <2>4. e.cmd = BAD
    BY <1>12, <2>2, <2>3 DEF Says
  <2>5. NextIsBad(c, o, m)
    BY <1>4, <1>10, <1>19, <2>3, <2>4 DEF NextIsBad
  <2> QED
    BY <1>4, <2>1, <2>5, DoneKept
<1>22. CASE r.rc > 0
  <2>1. ProcessAuth(c) = Left(b, db, cfg)
    BY <1>18, <1>22
  <2>2. r.rc # 0 /\ r.rc # -1
    BY <1>9, <1>22
  <2>3. /\ 1 <= s /\ (1 = s => Len(p) <= Len(e.bytes)) /\ Says(e, r, TRUE)
        /\ Len(e.bytes) <= Len(p) => SubSeq(p, 1, Len(e.bytes)) = e.bytes
    BY <1>11, <2>2, Zenon
  <2>4. /\ Len(e.bytes) = r.rc /\ e.cmd = AUTH
        /\ r.user = CString(e.user) /\ r.pass = CString(e.pass)
    BY <1>8, <2>3 DEF Says
  <2>5. PICK x \in 0 .. Len(p) : x = r.rc
    BY <1>3, <1>9, <1>22
  <2>6. x = Len(e.bytes) /\ SubSeq(p, 1, x) = e.bytes /\ (1 = s => x = Len(p))
    BY <1>3, <1>12, <2>3, <2>4, <2>5
  <2>7. resp \in Seq(Nat) /\ Len(resp) = 2 /\ Len(resp) <= MGMT_WBUF
    BY <1>15, MgmtAssumption DEF SMP_VERSION
  <2>8. Replied(a, c, x, resp, "AUTH_REPLY")
    BY <1>1, <1>2, <1>16, <2>5, <2>7, AnswersReply, Zenon
  <2>9. PICK z : z = a.rbuf.bytes
    OBVIOUS
  <2>10. /\ GoodMgmt(a) /\ a.state = "AUTH_REPLY" /\ a.wbuf \in BufferOf(Nat, MGMT_WBUF)
         /\ a.wbuf.bytes = resp /\ z \in Seq(Nat) /\ e.bytes \o z = p
         /\ x = Len(p) => a.rbuf.read = 0
    BY <1>2, <2>6, <2>8, <2>9 DEF Replied
  <2>11. PICK nok \in BOOLEAN : nok = ~ok
    BY <1>14
  <2>12. /\ b.state = "AUTH_REPLY" /\ b.wbuf = a.wbuf /\ b.rbuf = a.rbuf
         /\ b.close_after_write = nok
    <3>1. b = [a EXCEPT !.auth_ok = ok, !.close_after_write = nok]
      BY <1>17, <2>11
    <3> QED
      BY <2>10, <3>1 DEF GoodMgmt
  <2>13. nok => ~Admin(m, cfg.admin)
    <3>1. Head(m) = e
      <4>1. m \in Seq(Messages) /\ m # <<>>
        BY <1>4, <2>3
      <4> QED
        BY <1>10, <4>1, HeadTailProperties
    <3> QED
      BY <1>13, <2>4, <2>11, <3>1, Zenon DEF Admin
  <2>14. All(b, o) = resp
    BY <1>1, <2>7, <2>10, <2>12 DEF All
  <2>15. PICK rs : rs = Responses(resp)
    OBVIOUS
  <2>16. rs.list = <<>> /\ rs.rest = 0 /\ Len(rs.list) = 0
    <3>1. Len(resp) <= 2
      BY <2>7
    <3>2. Responses(resp).list = <<>> /\ Responses(resp).rest = 0
      BY <2>7, <3>1, NoResponses
    <3> QED
      BY <2>15, <3>2
  <2>17. Count(b, o) = 0
    BY <2>14, <2>15, <2>16 DEF Count
  <2>18. Told(resp, m, s)
    BY <2>15, <2>16 DEF Told
  <2>19. Settled(resp, z, SubSeq(q, 1, n), m, s)
    <3>1. Bytes(SubSeq(m, 1, 0 + 1)) = e.bytes
      <4>1. 1 \in 1 .. Len(m) /\ 0 + 1 = 1
        BY <1>4, <2>3
      <4>2. Bytes(SubSeq(m, 1, 1)) = Bytes(SubSeq(m, 1, 1 - 1)) \o m[1].bytes
        BY <1>4, <4>1, BytesGrow
      <4>3. <<>> \o e.bytes = e.bytes
        BY <1>12, <2>3
      <4> QED
        BY <1>5, <1>10, <4>1, <4>2, <4>3
    <3>2. SubSeq(q, 1, n) = Bytes(SubSeq(m, 1, Len(rs.list) + 1)) \o z
      BY <1>1, <1>2, <2>10, <2>16, <3>1
    <3>3. Len(rs.list) < s
      BY <1>4, <2>3, <2>16
    <3> QED
      <4>1. Len(resp) >= 2
        BY ONLY <2>7
      <4>2. Responses(resp).rest = 0 /\ Responses(resp).list = rs.list
        BY <2>15, <2>16
      <4> QED
        BY <3>2, <3>3, <4>1, <4>2, Zenon DEF Settled
  <2>20. Talk(b, q, n, o, m, s, Admin(m, cfg.admin))
    <3>1. o \o b.wbuf.bytes = resp
      BY <2>14 DEF All
    <3> QED
      BY <1>1, <2>9, <2>10, <2>12, <2>13, <2>18, <2>19, <3>1 DEF Talk
  <2>21. s <= 1 => b.rbuf.read = 0
    BY <1>4, <2>3, <2>6, <2>10, <2>12
  <2>22. PICK left : left = Left(b, db, cfg)
    OBVIOUS
  <2>23. left.conn = b
    BY <2>22 DEF Left
  <2>24. Kept(left, c, q, n, o, m, s, Admin(m, cfg.admin))
    BY <1>19, <2>12, <2>17, <2>20, <2>21, <2>23 DEF Kept
  <2> QED
    BY <2>1, <2>22, <2>24
<1> QED
  BY <1>9, <1>20, <1>21, <1>22

LEMMA TryKept ==
  ASSUME NEW c, GoodMgmt(c), c.state \in {"AUTH", "REQUEST"}, IsTable(db), GoodConfig(cfg),
         NEW q \in Seq(Nat), NEW m, NEW s, Stream(q, m, s), NEW n \in 0 .. Len(q),
         NEW o, Talk(c, q, n, o, m, s, Admin(m, cfg.admin))
  PROVE  Kept(mgmt_try_process(c), c, q, n, o, m, s, Admin(m, cfg.admin))
<1>1. CASE c.state = "AUTH"
  <2>1. mgmt_try_process(c) = ProcessAuth(c)
    BY <1>1 DEF mgmt_try_process
  <2> QED
    BY <1>1, <2>1, AuthKept
<1>2. CASE c.state = "REQUEST"
  <2>1. mgmt_try_process(c) = ProcessRequest(c)
    BY <1>2 DEF mgmt_try_process
  <2> QED
    BY <1>2, <2>1, ReqKept
<1> QED
  BY <1>1, <1>2

-----------------------------------------------------------------------------
(* The conversation on every connection, as an invariant.                  *)

\* The client of k has sent s messages, and the server answers them.
TalkHere(k, s) ==
  /\ Said(k, At(k), sent[k], script[k], s)
  /\ Talk(mc[k], sent[k], pos[k], out[k], script[k], s, Admin(script[k], cfg.admin))
  /\ k \in Programs => Waits(mc[k], out[k], s)

TalkInv ==
  /\ \A k \in MConns : \E s \in Nat : TalkHere(k, s)
  /\ \A k \in Programs : prog[k].at = "exit" /\ prog[k].rc = 0 => Carried(out[k])

\* Why the server may end connection k.
Ended(k) ==
  \/ gone[k] \/ ~Admin(script[k], cfg.admin) \/ NextIsBad(mc[k], out[k], script[k])
  \/ k \notin Programs /\ WriteSpace(mc[k].rbuf) = 0

\* A handler may leave the connection e of k, the users d and the configuration
\* g, having received p bytes and sent those of o.
Serves(k, s, e, d, g, p, o) ==
  /\ Talk(e, sent[k], p, o, script[k], s, Admin(script[k], cfg.admin))
  /\ k \in Programs => Waits(e, o, s)
  /\ Count(e, o) > Count(mc[k], out[k]) =>
       LastTold(e, o, script[k], AsMap(db), cfg, AsMap(d), g)
  /\ mc[k].state \notin {"backlog", "closed"} /\ e.state = "closed" => Ended(k)
  /\ g.admin = cfg.admin /\ (Carried(out[k]) => Carried(o))

\* What a step of the server does to the conversation on connection k.
ServesNext(k, s) ==
  \E left, p, o :
    /\ Leaves(k, left) /\ Serves(k, s, left.conn, left.db, left.cfg, p, o)
    /\ pos' = [pos EXCEPT ![k] = p] /\ out' = [out EXCEPT ![k] = o]
    /\ UNCHANGED <<script, sent, gone, prog>>

LEMMA StreamHere ==
  ASSUME ClientInv, ScriptInv, NEW k \in MConns, NEW s \in Nat, TalkHere(k, s)
  PROVE  /\ Stream(sent[k], script[k], s) /\ script[k] \in Seq(Messages)
         /\ Len(script[k]) \in Nat /\ Len(script[k]) > 0
         /\ k \in Programs => /\ s <= 2 /\ Len(script[k]) = 2
                              /\ \A i \in 1 .. s : Len(script[k][i].bytes) <= MGMT_RBUF
<1>1. /\ script[k] \in Seq(Messages) /\ Len(script[k]) > 0
      /\ k \in Programs => Len(script[k]) = 2
           /\ \A i \in {1, 2} : Len(script[k][i].bytes) <= MGMT_RBUF
  BY ClientAssumption DEF ScriptInv
<1>2. /\ s \in 0 .. Len(script[k]) /\ sent[k] = Bytes(SubSeq(script[k], 1, s))
      /\ \A i \in 1 .. s : SaysWhatItIs(script[k], i)
  BY DEF TalkHere, Said
<1>3. k \in Programs => s <= 2 /\ \A i \in 1 .. s : i \in {1, 2}
  <2> HAVE k \in Programs
  <2>1. Len(script[k]) = 2
    BY <1>1
  <2>2. s <= 2
    BY <1>2, <2>1
  <2> QED
    BY ONLY <2>2, s \in Nat
<1> QED
  BY <1>1, <1>2, <1>3 DEF Stream

LEMMA SameStreams ==
  ASSUME ClientInv, NEW k \in MConns
  PROVE  pos = [pos EXCEPT ![k] = pos[k]] /\ out = [out EXCEPT ![k] = out[k]]
<1>1. pos \in [MConns -> Nat] /\ out = [i \in MConns |-> out[i]]
  BY DEF ClientInv, StreamsGood
<1> QED
  BY <1>1

LEMMA CarriedOn ==
  ASSUME NEW o \in Seq(Nat), NEW x \in Seq(Nat), Carried(o)
  PROVE  Carried(o \o x)
<1>1. PICK y \in Seq(ResponseSet) : Responses(o \o x).list = Responses(o).list \o y
  BY ResponsesPrefix
<1>2. PICK l : l = Responses(o).list
  OBVIOUS
<1>3. l \in Seq(ResponseSet) /\ Len(l) > 0 /\ l[1].status = OK
  BY <1>2, ResponsesType DEF ReadSet, Carried
<1>4. Len(l \o y) > 0 /\ (l \o y)[1] = l[1]
  BY <1>3
<1>5. Responses(o \o x).list = l \o y
  BY <1>1, <1>2
<1> QED
  BY <1>3, <1>4, <1>5 DEF Carried

LEMMA LostServes ==
  ASSUME ClientInv, NEW k \in MConns, NEW s \in Nat, TalkHere(k, s),
         mgmt_lost(k), UNCHANGED prog
  PROVE  ServesNext(k, s)
<1>1. /\ Talk(Closed, sent[k], pos[k], out[k], script[k], s, Admin(script[k], cfg.admin))
      /\ ~(Count(Closed, out[k]) > Count(mc[k], out[k]))
  BY TalkClosed DEF TalkHere
<1>2. k \in Programs => Waits(Closed, out[k], s)
  BY ClosedFields DEF TalkHere, Waits
<1>3. gone[k] /\ Leaves(k, mgmt_done) /\ UNCHANGED <<script, sent, pos, out, gone>>
  BY DEF mgmt_lost
<1>4. Serves(k, s, Closed, db, cfg, pos[k], out[k])
  BY <1>1, <1>2, <1>3 DEF Serves, Ended
<1>5. mgmt_done.conn = Closed /\ mgmt_done.db = db /\ mgmt_done.cfg = cfg
  BY DEF mgmt_done, Left
<1>6. pos' = [pos EXCEPT ![k] = pos[k]] /\ out' = [out EXCEPT ![k] = out[k]]
  BY <1>3, SameStreams
<1> QED
  BY <1>3, <1>4, <1>5, <1>6 DEF ServesNext

LEMMA AcceptServes ==
  ASSUME ClientInv, NEW k \in MConns, NEW s \in Nat, TalkHere(k, s),
         mgmt_passive_accept(k), UNCHANGED prog
  PROVE  ServesNext(k, s)
<1>1. mc[k].state = "backlog" /\ UNCHANGED <<script, sent, pos, out, gone>>
  BY DEF mgmt_passive_accept
<1>2. PICK e \in {NewConn, Closed} : Leaves(k, Left(e, db, cfg))
  BY DEF mgmt_passive_accept
<1>3. out[k] = <<>> /\ pos[k] = 0 /\ sent[k] \in Seq(Nat) /\ mc[k].wbuf.bytes = <<>>
  BY <1>1, Here DEF Access
<1>4. /\ NewConn.wbuf = Closed.wbuf /\ NewConn.state = "AUTH" /\ NewConn.rbuf.read = 0
      /\ NewConn.close_after_write = FALSE /\ NewConn.rbuf.bytes = <<>>
  BY DEF NewConn, Closed, buffer_init
<1>5. NewConn.wbuf \in BufferOf(Nat, MGMT_WBUF) /\ NewConn.wbuf.bytes = <<>>
  BY <1>4, ClosedFields
<1>6. /\ Talk(Closed, sent[k], pos[k], out[k], script[k], s, Admin(script[k], cfg.admin))
      /\ ~(Count(Closed, out[k]) > Count(mc[k], out[k]))
  BY TalkClosed DEF TalkHere
<1>7. SubSeq(sent[k], 1, 0) = <<>>
  BY <1>3
<1>8. Talk(NewConn, sent[k], pos[k], out[k], script[k], s, Admin(script[k], cfg.admin))
  <2>1. Told(out[k] \o NewConn.wbuf.bytes, script[k], s) /\ out[k] \in Seq(Nat)
    BY <1>4, <1>6 DEF Talk
  <2> QED
    BY <1>3, <1>4, <1>5, <1>7, <2>1 DEF Talk
<1>9. Count(NewConn, out[k]) = Count(Closed, out[k])
  BY <1>4 DEF Count, All
<1>10. k \in Programs => Waits(e, out[k], s)
  BY <1>2, <1>4, ClosedFields DEF TalkHere, Waits
<1>11. Serves(k, s, e, db, cfg, pos[k], out[k])
  BY <1>1, <1>6, <1>8, <1>9, <1>10 DEF Serves
<1>12. PICK left : left = Left(e, db, cfg)
  OBVIOUS
<1>13. left.conn = e /\ left.db = db /\ left.cfg = cfg
  BY <1>12 DEF Left
<1>14. pos' = [pos EXCEPT ![k] = pos[k]] /\ out' = [out EXCEPT ![k] = out[k]]
  BY <1>1, SameStreams
<1> QED
  BY <1>1, <1>2, <1>11, <1>12, <1>13, <1>14 DEF ServesNext

(* All that a program has not yet been answered is one message.            *)
LastOf(m, s, i, p) == i = s /\ Len(p) < Len(m[s].bytes)

LEMMA LastFits ==
  ASSUME NEW q \in Seq(Nat), NEW m, NEW s, Stream(q, m, s), NEW n \in 0 .. Len(q),
         n < Len(q), NEW i \in 1 .. s + 1, i >= s, NEW p \in Seq(Nat)
  PROVE  SubSeq(q, 1, n) = Bytes(SubSeq(m, 1, i - 1)) \o p =>
           LastOf(m, s, i, p)
<1>0. HAVE SubSeq(q, 1, n) = Bytes(SubSeq(m, 1, i - 1)) \o p
<1>1. m \in Seq(Messages) /\ s \in 0 .. Len(m) /\ q = Bytes(SubSeq(m, 1, s)) /\ s \in Nat
  BY DEF Stream
<1>2. PICK a : a = Bytes(SubSeq(m, 1, i - 1))
  OBVIOUS
<1>3. i - 1 \in 0 .. Len(m) /\ i \in Nat
  BY <1>1
<1>4. a \in Seq(Nat)
  BY <1>1, <1>2, <1>3, BytesType
<1>5. Len(SubSeq(q, 1, n)) = n /\ n \in Nat
  BY CutSeq
<1>6. Len(a \o p) = Len(a) + Len(p) /\ Len(a) \in Nat /\ Len(p) \in Nat
  BY <1>4, JoinFacts
<1>7. n = Len(a) + Len(p)
  BY <1>0, <1>2, <1>5, <1>6
<1>8. i = s
  <2>1. ASSUME i = s + 1 PROVE FALSE
    <3>1. a = q
      BY <1>1, <1>2, <2>1
    <3> QED
      BY <1>6, <1>7, <3>1
  <2> QED
    BY <1>1, <1>3, <2>1
<1>9. PICK b : b = m[s].bytes
  OBVIOUS
<1>10. q = a \o b /\ b \in Seq(Nat)
  <2>1. i \in 1 .. Len(m)
    BY <1>1, <1>8
  <2> QED
    BY <1>1, <1>2, <1>8, <1>9, <2>1, BytesGrow, MessageBytes
<1>11. Len(a \o b) = Len(a) + Len(b) /\ Len(b) \in Nat
  BY <1>4, <1>10, JoinFacts
<1>12. Len(p) < Len(b)
  BY <1>6, <1>7, <1>10, <1>11
<1> QED
  BY <1>8, <1>9, <1>12 DEF LastOf

LEMMA FilledTalk ==
  ASSUME ClientInv, ScriptInv, NEW k \in MConns, NEW s \in Nat, TalkHere(k, s),
         NEW c, NEW n, Gained(c, k, n), mc[k].state \in {"AUTH", "REQUEST"}
  PROVE  Talk(c, sent[k], pos[k] + n, out[k], script[k], s, Admin(script[k], cfg.admin))
<1>1. PICK q : q = sent[k]
  OBVIOUS
<1>2. PICK o : o = out[k]
  OBVIOUS
<1>3. PICK m : m = script[k]
  OBVIOUS
<1>4. PICK p : p = mc[k].rbuf.bytes
  OBVIOUS
<1>5. PICK got : got = SubSeq(q, pos[k] + 1, pos[k] + n)
  OBVIOUS
<1>6. PICK a : a = All(mc[k], o)
  OBVIOUS
<1>7. PICK z : z = SubSeq(q, 1, pos[k] + n)
  OBVIOUS
<1>8. PICK y : y = SubSeq(q, 1, pos[k])
  OBVIOUS
<1>9. /\ c.rbuf.bytes = p \o got /\ got \in Seq(Nat) /\ z = y \o got
      /\ c.state = mc[k].state /\ c.wbuf = mc[k].wbuf
      /\ c.close_after_write = mc[k].close_after_write
  BY <1>1, <1>4, <1>5, <1>7, <1>8 DEF Gained
<1>10. p \in Seq(Nat) /\ GoodMgmt(mc[k])
  BY <1>4, Here, MgmtSizes, BufferFields DEF GoodMgmt
<1>11. Talk(mc[k], q, pos[k], o, m, s, Admin(m, cfg.admin))
  BY <1>1, <1>2, <1>3 DEF TalkHere
<1>12. /\ o \in Seq(Nat) /\ c.wbuf \in BufferOf(Nat, MGMT_WBUF) /\ Told(a, m, s)
       /\ o \o c.wbuf.bytes = a /\ All(c, o) = a
       /\ mc[k].state = "REQUEST" => Settled(a, p, y, m, s) /\ c.wbuf.bytes = <<>>
       /\ mc[k].state = "AUTH" => o = <<>> /\ c.wbuf.bytes = <<>> /\ p = y
       /\ c.close_after_write \in BOOLEAN /\ ~c.close_after_write
  BY <1>4, <1>6, <1>8, <1>9, <1>11 DEF Talk, All
<1>13. CASE mc[k].state = "AUTH"
  BY <1>1, <1>2, <1>3, <1>7, <1>9, <1>12, <1>13 DEF Talk
<1>14. CASE mc[k].state = "REQUEST"
  <2>1. PICK b : b = Bytes(SubSeq(m, 1, Len(Responses(a).list) + 1))
    OBVIOUS
  <2>2. y = b \o p /\ Len(a) >= 2 /\ Responses(a).rest = 0 /\ Len(Responses(a).list) < s
    BY <1>12, <1>14, <2>1 DEF Settled
  <2>3. b \in Seq(Nat)
    <3>1. Stream(q, m, s) /\ m \in Seq(Messages)
      BY <1>1, <1>3, StreamHere
    <3>2. Len(Responses(a).list) \in Nat
      BY <1>6, <1>9, <1>12, CountType DEF Count
    <3>3. Len(Responses(a).list) + 1 \in 0 .. Len(m)
      <4>1. s \in 0 .. Len(m) /\ Len(m) \in Nat
        BY <3>1 DEF Stream
      <4> QED
        BY <2>2, <3>2, <4>1
    <3> QED
      BY <2>1, <3>1, <3>3, BytesType
  <2>4. z = b \o (p \o got)
    <3>1. (b \o p) \o got = b \o (p \o got)
      BY <1>9, <1>10, <2>3, Assoc, Zenon
    <3> QED
      BY <1>9, <2>2, <3>1
  <2>5. Settled(a, p \o got, z, m, s)
    BY <2>1, <2>2, <2>4, Zenon DEF Settled
  <2> QED
    BY <1>1, <1>2, <1>3, <1>7, <1>9, <1>12, <1>14, <2>5 DEF Talk
<1> QED
  BY <1>13, <1>14

(* What a program has sent fits the request buffer.                        *)
LEMMA FullIsNoProgram ==
  ASSUME ClientInv, ScriptInv, NEW k \in MConns, NEW s \in Nat, TalkHere(k, s),
         mc[k].state \in {"AUTH", "REQUEST"}, Unreceived(k) > 0,
         WriteSpace(mc[k].rbuf) = 0
  PROVE  k \notin Programs
<1> SUFFICES ASSUME k \in Programs PROVE FALSE
  OBVIOUS
<1>1. PICK q \in Seq(Nat) : q = sent[k]
  BY Here
<1>2. PICK n \in 0 .. Len(q) : n = pos[k]
  BY <1>1, Here
<1>3. PICK m : m = script[k]
  OBVIOUS
<1>4. PICK p : p = mc[k].rbuf.bytes
  OBVIOUS
<1>5. GoodMgmt(mc[k]) /\ Waits(mc[k], out[k], s)
      /\ Talk(mc[k], q, n, out[k], m, s, Admin(m, cfg.admin))
  BY <1>1, <1>2, <1>3, Here DEF TalkHere
<1>6. p \in Seq(Nat) /\ Len(p) \in Nat /\ Len(p) = MGMT_RBUF
  <2>1. /\ mc[k].rbuf \in BufferOf(Nat, MGMT_RBUF) /\ MGMT_RBUF \in Nat
        /\ mc[k].rbuf.read = 0
    BY <1>5, MgmtSizes DEF GoodMgmt, Waits
  <2>2. p \in Seq(Nat) /\ Len(p) \in Nat /\ 0 = MGMT_RBUF - (0 + Len(p))
    BY <1>4, <2>1, BufferFields
  <2> QED
    BY <2>1, <2>2
<1>7. n < Len(q)
  BY <1>1, <1>2 DEF Unreceived
<1>8. /\ Stream(q, m, s) /\ s <= 2
      /\ \A i \in 1 .. s : Len(m[i].bytes) <= MGMT_RBUF
  BY <1>1, <1>3, StreamHere
<1>9. ASSUME NEW i \in 1 .. s + 1, i >= s, SubSeq(q, 1, n) = Bytes(SubSeq(m, 1, i - 1)) \o p
      PROVE  FALSE
  <2>1. i = s /\ Len(p) < Len(m[s].bytes)
    <3>1. p \in Seq(Nat)
      BY <1>6
    <3>2. Stream(q, m, s)
      BY <1>8
    <3>3. i \in 1 .. s + 1 /\ i >= s /\ SubSeq(q, 1, n) = Bytes(SubSeq(m, 1, i - 1)) \o p
      BY <1>9
    <3>4. q \in Seq(Nat) /\ n \in 0 .. Len(q)
      BY <1>1, <1>2
    <3>5. LastOf(m, s, i, p)
      BY <1>7, <3>1, <3>2, <3>3, <3>4, LastFits, Zenon
    <3> QED
      BY <3>5 DEF LastOf
  <2>2. s \in 1 .. s
    BY <2>1
  <2>3. PICK x : x = Len(m[s].bytes)
    OBVIOUS
  <2>4. x <= Len(p) /\ Len(p) < x
    BY <1>6, <1>8, <2>1, <2>2, <2>3
  <2>5. x \in Nat
    <3>1. m \in Seq(Messages) /\ s \in 1 .. Len(m)
      BY <1>8, <2>2 DEF Stream
    <3>2. m[s].bytes \in Seq(Nat)
      BY <3>1, MessageBytes
    <3> QED
      BY <2>3, <3>2
  <2> QED
    BY <1>6, <2>4, <2>5
<1>10. CASE mc[k].state = "AUTH"
  <2>1. out[k] = <<>> /\ p = SubSeq(q, 1, n)
    BY <1>4, <1>5, <1>10 DEF Talk
  <2>2. ~(Len(out[k]) >= 2)
    BY <2>1
  <2>3. s # 2
    BY <1>5, <2>2 DEF Waits
  <2>4. 1 \in 1 .. s + 1 /\ 1 >= s /\ 1 - 1 = 0
    BY <1>8, <2>3
  <2>5. Bytes(SubSeq(m, 1, 0)) = <<>> /\ <<>> \o p = p
    BY <1>6, <1>8, BytesAll DEF Stream
  <2> QED
    BY <1>9, <2>1, <2>4, <2>5
<1>11. CASE mc[k].state = "REQUEST"
  <2>1. PICK l : l = Count(mc[k], out[k])
    OBVIOUS
  <2>2. Settled(All(mc[k], out[k]), p, SubSeq(q, 1, n), m, s)
    BY <1>4, <1>5, <1>11 DEF Talk, All
  <2>3. l < s /\ SubSeq(q, 1, n) = Bytes(SubSeq(m, 1, l + 1)) \o p
    BY <2>1, <2>2 DEF Settled, Count
  <2>4. l \in Nat
    BY <1>5, <2>1, CountType DEF Talk
  <2>5. l + 2 \in 1 .. s + 1 /\ l + 2 >= s /\ (l + 2) - 1 = l + 1
    BY <1>8, <2>3, <2>4
  <2> QED
    BY <1>9, <2>3, <2>5
<1> QED
  BY <1>10, <1>11

LEMMA ReadServes ==
  ASSUME ClientInv, ScriptInv, NEW k \in MConns, NEW s \in Nat, TalkHere(k, s),
         mgmt_read(k), UNCHANGED prog
  PROVE  ServesNext(k, s)
<1>1. /\ UNCHANGED <<script, sent, out, gone>> /\ "OP_READ" \in mc[k].interest
      /\ Unreceived(k) > 0
  BY DEF mgmt_read
<1>2. mc[k].state \in {"AUTH", "REQUEST"}
  <2>1. Access(mc[k], sent[k], pos[k], out[k], cfg.admin)
    BY Here
  <2>2. Mode(mc[k])
    BY <2>1, Zenon DEF Access
  <2> QED
    BY <1>1, <2>2 DEF Mode
<1>3. out' = [out EXCEPT ![k] = out[k]]
  BY <1>1, SameStreams
<1>4. CASE WriteSpace(mc[k].rbuf) = 0 /\ Leaves(k, mgmt_done) /\ UNCHANGED pos
  <2>1. /\ Talk(Closed, sent[k], pos[k], out[k], script[k], s, Admin(script[k], cfg.admin))
        /\ ~(Count(Closed, out[k]) > Count(mc[k], out[k]))
    BY TalkClosed DEF TalkHere
  <2>2. k \notin Programs
    BY <1>1, <1>2, <1>4, FullIsNoProgram
  <2>3. Serves(k, s, Closed, db, cfg, pos[k], out[k])
    BY <1>4, <2>1, <2>2 DEF Serves, Ended
  <2>4. mgmt_done.conn = Closed /\ mgmt_done.db = db /\ mgmt_done.cfg = cfg
    BY DEF mgmt_done, Left
  <2>5. pos' = [pos EXCEPT ![k] = pos[k]]
    BY <1>4, SameStreams
  <2> QED
    BY <1>1, <1>3, <1>4, <2>3, <2>4, <2>5 DEF ServesNext
<1>5. ASSUME NEW n, NEW c, Gained(c, k, n), Leaves(k, mgmt_try_process(c)),
             pos' = [pos EXCEPT ![k] = @ + n]
      PROVE  ServesNext(k, s)
  <2>1. PICK left : left = mgmt_try_process(c)
    OBVIOUS
  <2>2. PICK p : p = pos[k] + n
    OBVIOUS
  <2>3. /\ GoodMgmt(c) /\ c.state = mc[k].state /\ c.wbuf = mc[k].wbuf
        /\ c.rbuf.read = mc[k].rbuf.read /\ p \in 0 .. Len(sent[k])
    BY <1>5, <2>2 DEF Gained
  <2>4. Talk(c, sent[k], p, out[k], script[k], s, Admin(script[k], cfg.admin))
    BY <1>2, <1>5, <2>2, FilledTalk
  <2>5. /\ sent[k] \in Seq(Nat) /\ IsTable(db) /\ GoodConfig(cfg)
        /\ Stream(sent[k], script[k], s) /\ (k \in Programs => s <= 2)
    BY Here, StreamHere
  <2>6. Kept(left, c, sent[k], p, out[k], script[k], s, Admin(script[k], cfg.admin))
    <3>1. c.state \in {"AUTH", "REQUEST"}
      BY <1>2, <2>3
    <3> QED
      BY <2>1, <2>3, <2>4, <2>5, <3>1, TryKept, ZenonT(40)
  <2>7. Count(c, out[k]) = Count(mc[k], out[k])
    BY <2>3 DEF Count, All
  <2>8. NextIsBad(c, out[k], script[k]) => NextIsBad(mc[k], out[k], script[k])
    BY <2>3, <2>7 DEF NextIsBad
  <2>9. k \in Programs => Waits(left.conn, out[k], s)
    <3> HAVE k \in Programs
    <3>1. Waits(mc[k], out[k], s)
      BY DEF TalkHere
    <3>2. c.state = "AUTH" => s <= 1
      <4> HAVE c.state = "AUTH"
      <4>1. out[k] = <<>>
        BY <2>4 DEF Talk
      <4>2. ~(Len(out[k]) >= 2)
        BY <4>1
      <4> QED
        BY <2>5, <3>1, <4>2 DEF Waits
    <3> QED
      BY <2>3, <2>5, <2>6, <3>1, <3>2 DEF Kept, Waits
  <2>12. left.cfg.admin = cfg.admin
    <3>1. c.state \in {"AUTH", "REQUEST"}
      BY <1>2, <2>3
    <3> QED
      BY <2>1, <2>3, <2>5, <3>1, TryProcessGood DEF GoodLeft
  <2>10. Serves(k, s, left.conn, left.db, left.cfg, p, out[k])
    BY <2>6, <2>7, <2>8, <2>9, <2>12 DEF Kept, Serves, Ended, LastTold
  <2>11. pos' = [pos EXCEPT ![k] = p]
    BY <1>5, <2>2
  <2> QED
    BY <1>1, <1>3, <1>5, <2>1, <2>10, <2>11 DEF ServesNext
<1> QED
  BY <1>4, <1>5, ReadConn

\* The connection c is k with some of its answer sent: o is all that was.
Drained(c, k, o) ==
  /\ GoodMgmt(c) /\ c.state = mc[k].state /\ c.rbuf = mc[k].rbuf
  /\ c.close_after_write = mc[k].close_after_write
  /\ c.wbuf \in BufferOf(Nat, MGMT_WBUF) /\ o \in Seq(Nat)
  /\ All(c, o) = All(mc[k], out[k]) /\ Len(out[k]) <= Len(o)
  /\ Carried(out[k]) => Carried(o)

\* And d is c, looking for the next request.
Asks(d, c) ==
  /\ GoodMgmt(d) /\ d.state = "REQUEST" /\ d.rbuf = c.rbuf /\ d.wbuf = c.wbuf
  /\ d.close_after_write = c.close_after_write

LEMMA WriteConn ==
  ASSUME ClientInv, NEW k \in MConns, mgmt_write(k), out[k] \in Seq(Nat),
         mc[k].wbuf \in BufferOf(Nat, MGMT_WBUF)
  PROVE  \E c, o :
           /\ Drained(c, k, o) /\ out' = [out EXCEPT ![k] = o]
           /\ \/ Leaves(k, Left(c, db, cfg))
              \/ c.close_after_write /\ Leaves(k, mgmt_done)
              \/ /\ c.wbuf.bytes = <<>> /\ ~c.close_after_write
                 /\ \E d : Asks(d, c) /\ Leaves(k, mgmt_try_process(d))
<1>1. PICK b : b = mc[k].wbuf
  OBVIOUS
<1>2. PICK w \in Sendable(b) : /\ Leaves(k, Written(k, w))
                               /\ out' = [out EXCEPT ![k] = @ \o SubSeq(b.bytes, 1, w)]
  BY <1>1 DEF mgmt_write
<1>3. PICK x : x = b.bytes
  OBVIOUS
<1>4. x \in Seq(Nat) /\ Len(x) \in Nat /\ MGMT_WBUF \in Nat /\ b \in BufferOf(Nat, MGMT_WBUF)
  BY <1>1, <1>3, WbufBytes, MgmtAssumption
<1>5. w \in 0 .. Len(x)
  <2>1. SendCuts \subseteq Nat
    BY MgmtAssumption
  <2>2. w = Len(x) \/ (w \in SendCuts /\ w < Len(x))
    BY <1>2, <1>3 DEF Sendable
  <2>3. PICK l \in Nat : l = Len(x)
    BY <1>4
  <2>4. w = l \/ (w \in Nat /\ w < l)
    BY <2>1, <2>2, <2>3
  <2>5. w \in 0 .. l
    BY ONLY <2>3, <2>4, l \in Nat
  <2> QED
    BY <2>3, <2>5
<1>6. PICK e : e = buffer_read_adv(b, w)
  OBVIOUS
<1>7. PICK took : took = SubSeq(x, 1, w)
  OBVIOUS
<1>8. e \in BufferOf(Nat, MGMT_WBUF) /\ took \o e.bytes = x /\ took \in Seq(Nat)
  BY <1>3, <1>4, <1>5, <1>6, <1>7, ReadAdvDrops
<1>9. e.bytes \in Seq(Nat)
  BY <1>8, WbufBytes
<1>10. PICK o : o = out[k] \o took
  OBVIOUS
<1>11. o \in Seq(Nat) /\ Len(out[k]) <= Len(o)
  <2>1. out[k] \o took \in Seq(Nat) /\ Len(out[k] \o took) = Len(out[k]) + Len(took)
        /\ Len(out[k]) \in Nat /\ Len(took) \in Nat
    BY <1>8, JoinFacts
  <2> QED
    BY <1>10, <2>1
<1>12. o \o e.bytes = out[k] \o x
  <2>1. (out[k] \o took) \o e.bytes = out[k] \o (took \o e.bytes)
    BY <1>8, <1>9, Assoc, Zenon
  <2> QED
    BY <1>8, <1>10, <2>1
<1>13. PICK m : m = mc[k]
  OBVIOUS
<1>14. PICK c : c = [m EXCEPT !.wbuf = e]
  OBVIOUS
<1>15. GoodMgmt(m)
  BY <1>13, Here
<1>16. /\ GoodMgmt(c) /\ c.state = m.state /\ c.rbuf = m.rbuf /\ c.wbuf = e
       /\ c.close_after_write = m.close_after_write
  <2>1. GoodMgmt(c)
    BY <1>14, <1>15, GoodExcept
  <2> QED
    BY <1>14, <1>15, <2>1 DEF GoodMgmt
<1>17. Drained(c, k, o)
  <2>1. Carried(out[k]) => Carried(o)
    BY <1>8, <1>10, CarriedOn
  <2> QED
    BY <1>1, <1>3, <1>8, <1>11, <1>12, <1>13, <1>16, <2>1 DEF Drained, All
<1>18. PICK d1 : d1 = [c EXCEPT !.state = "REQUEST"]
  OBVIOUS
<1>19. /\ GoodMgmt(d1) /\ d1.state = "REQUEST" /\ d1.rbuf = c.rbuf /\ d1.wbuf = c.wbuf
       /\ d1.close_after_write = c.close_after_write
  <2>1. GoodMgmt(d1)
    BY <1>16, <1>18, GoodExcept
  <2> QED
    BY <1>16, <1>18, <2>1 DEF GoodMgmt
<1>20. PICK d : d = [d1 EXCEPT !.interest = {"OP_READ"}]
  OBVIOUS
<1>21. Asks(d, c)
  <2>1. GoodMgmt(d)
    BY <1>19, <1>20, GoodExcept
  <2> QED
    BY <1>19, <1>20, <2>1 DEF GoodMgmt, Asks
<1>22. d = [c EXCEPT !.state = "REQUEST", !.interest = {"OP_READ"}]
  BY <1>18, <1>20
<1>23. Written(k, w) = IF buffer_can_read(c.wbuf) THEN Left(c, db, cfg)
                       ELSE IF c.close_after_write THEN mgmt_done
                       ELSE mgmt_try_process(d)
  BY <1>1, <1>6, <1>13, <1>14, <1>22 DEF Written
<1>24. buffer_can_read(c.wbuf) \/ c.wbuf.bytes = <<>>
  BY <1>4, <1>8, <1>16, BufferFields
<1>25. out' = [out EXCEPT ![k] = o]
  BY <1>2, <1>3, <1>7, <1>10
<1>26. CASE buffer_can_read(c.wbuf)
  BY <1>2, <1>17, <1>23, <1>25, <1>26
<1>27. CASE ~buffer_can_read(c.wbuf) /\ c.close_after_write
  BY <1>2, <1>17, <1>23, <1>25, <1>27
<1>28. CASE ~buffer_can_read(c.wbuf) /\ ~c.close_after_write
  BY <1>2, <1>17, <1>21, <1>23, <1>24, <1>25, <1>28
<1> QED
  BY <1>26, <1>27, <1>28

LEMMA WriteServes ==
  ASSUME ClientInv, ScriptInv, NEW k \in MConns, NEW s \in Nat, TalkHere(k, s),
         mgmt_write(k), UNCHANGED prog
  PROVE  ServesNext(k, s)
<1>1. UNCHANGED <<script, sent, pos, gone>> /\ "OP_WRITE" \in mc[k].interest
  BY DEF mgmt_write
<1>2. mc[k].state \in {"AUTH_REPLY", "RESPONSE"}
  <2>1. Access(mc[k], sent[k], pos[k], out[k], cfg.admin)
    BY Here
  <2>2. Mode(mc[k])
    BY <2>1, Zenon DEF Access
  <2> QED
    BY <1>1, <2>2 DEF Mode
<1>3. PICK q : q = sent[k]
  OBVIOUS
<1>4. PICK n : n = pos[k]
  OBVIOUS
<1>5. PICK m : m = script[k]
  OBVIOUS
<1>6. PICK a : a = Admin(m, cfg.admin)
  OBVIOUS
<1>7. Talk(mc[k], q, n, out[k], m, s, a) /\ (k \in Programs => Waits(mc[k], out[k], s))
  BY <1>3, <1>4, <1>5, <1>6 DEF TalkHere
<1>8. /\ out[k] \in Seq(Nat) /\ mc[k].wbuf \in BufferOf(Nat, MGMT_WBUF)
      /\ Told(All(mc[k], out[k]), m, s)
      /\ Settled(All(mc[k], out[k]), mc[k].rbuf.bytes, SubSeq(q, 1, n), m, s)
      /\ mc[k].close_after_write \in BOOLEAN /\ (mc[k].close_after_write => ~a)
      /\ mc[k].close_after_write => mc[k].state = "AUTH_REPLY"
  BY <1>2, <1>7 DEF Talk, All
<1>9. PICK c, o : 
        /\ Drained(c, k, o) /\ out' = [out EXCEPT ![k] = o]
        /\ \/ Leaves(k, Left(c, db, cfg))
           \/ c.close_after_write /\ Leaves(k, mgmt_done)
           \/ /\ c.wbuf.bytes = <<>> /\ ~c.close_after_write
              /\ \E d : Asks(d, c) /\ Leaves(k, mgmt_try_process(d))
  BY <1>8, WriteConn
<1>10. /\ GoodMgmt(c) /\ c.state = mc[k].state /\ c.rbuf = mc[k].rbuf
       /\ c.close_after_write = mc[k].close_after_write
       /\ c.wbuf \in BufferOf(Nat, MGMT_WBUF) /\ o \in Seq(Nat)
       /\ All(c, o) = All(mc[k], out[k]) /\ Len(out[k]) <= Len(o)
       /\ Carried(out[k]) => Carried(o)
  BY <1>9 DEF Drained
<1>11. Talk(c, q, n, o, m, s, a)
  BY <1>2, <1>8, <1>10 DEF Talk, All
<1>12. k \in Programs => s <= 2 /\ mc[k].rbuf.read = 0 /\ (s = 2 => Len(o) >= 2)
  <2> HAVE k \in Programs
  <2>1. Len(out[k]) \in Nat /\ Len(o) \in Nat
    BY <1>8, <1>10
  <2>2. s <= 2
    BY StreamHere
  <2> QED
    BY <1>7, <1>10, <2>1, <2>2 DEF Waits
<1>13. Count(c, o) = Count(mc[k], out[k])
  BY <1>10 DEF Count
<1>14. ~(Count(c, o) > Count(mc[k], out[k]))
  BY <1>10, <1>13, CountType
<1>15. pos' = [pos EXCEPT ![k] = n]
  BY <1>1, <1>4, SameStreams
<1>16. CASE Leaves(k, Left(c, db, cfg))
  <2>1. k \in Programs => Waits(c, o, s)
    BY <1>10, <1>12 DEF Waits
  <2>2. Serves(k, s, c, db, cfg, n, o)
    BY <1>2, <1>3, <1>5, <1>6, <1>10, <1>11, <1>14, <2>1 DEF Serves
  <2>3. PICK left : left = Left(c, db, cfg)
    OBVIOUS
  <2>4. left.conn = c /\ left.db = db /\ left.cfg = cfg
    BY <2>3 DEF Left
  <2> QED
    BY <1>1, <1>9, <1>15, <1>16, <2>2, <2>3, <2>4 DEF ServesNext
<1>17. CASE c.close_after_write /\ Leaves(k, mgmt_done)
  <2>1. /\ Talk(Closed, q, n, o, m, s, a) /\ ~(Count(Closed, o) > Count(c, o))
    BY <1>11, TalkClosed
  <2>2. k \in Programs => Waits(Closed, o, s)
    BY <1>12, ClosedFields DEF Waits
  <2>3. Ended(k)
    BY <1>5, <1>6, <1>8, <1>10, <1>17, Zenon DEF Ended
  <2>4. Serves(k, s, Closed, db, cfg, n, o)
    BY <1>3, <1>5, <1>6, <1>10, <1>13, <2>1, <2>2, <2>3 DEF Serves
  <2>5. mgmt_done.conn = Closed /\ mgmt_done.db = db /\ mgmt_done.cfg = cfg
    BY DEF mgmt_done, Left
  <2> QED
    BY <1>1, <1>9, <1>15, <1>17, <2>4, <2>5 DEF ServesNext
<1>18. ASSUME NEW d, c.wbuf.bytes = <<>>, ~c.close_after_write, Asks(d, c), Leaves(k, mgmt_try_process(d))
       PROVE  ServesNext(k, s)
  <2>1. /\ GoodMgmt(d) /\ d.state = "REQUEST" /\ d.rbuf = c.rbuf /\ d.wbuf = c.wbuf
        /\ d.close_after_write = c.close_after_write
    BY <1>18 DEF Asks
  <2>2. PICK left : left = mgmt_try_process(d)
    OBVIOUS
  <2>3. All(d, o) = All(c, o)
    BY <2>1 DEF All
  <2>4. Talk(d, q, n, o, m, s, a)
    BY <1>8, <1>10, <1>18, <2>1, <2>3 DEF Talk, All
  <2>5. /\ q \in Seq(Nat) /\ n \in 0 .. Len(q) /\ IsTable(db) /\ GoodConfig(cfg)
        /\ Stream(q, m, s)
    BY <1>3, <1>4, <1>5, Here, StreamHere
  <2>6. Kept(left, d, q, n, o, m, s, a)
    BY <1>6, <2>1, <2>2, <2>4, <2>5, TryKept
  <2>7. Count(d, o) = Count(mc[k], out[k])
    BY <1>13, <2>3 DEF Count
  <2>8. NextIsBad(d, o, m) => NextIsBad(mc[k], out[k], m)
    <3>1. d.state # "AUTH" /\ mc[k].state # "AUTH"
      BY <1>2, <2>1
    <3> QED
      BY <2>7, <3>1 DEF NextIsBad
  <2>9. k \in Programs => Waits(left.conn, o, s)
    <3>1. d.state # "AUTH" /\ d.rbuf.read = mc[k].rbuf.read
      BY <1>10, <2>1
    <3> QED
      BY <1>12, <2>6, <3>1 DEF Kept, Waits
  <2>11. left.cfg.admin = cfg.admin
    BY <2>1, <2>2, <2>5, TryProcessGood DEF GoodLeft
  <2>10. Serves(k, s, left.conn, left.db, left.cfg, n, o)
    BY <1>3, <1>5, <1>6, <1>10, <2>6, <2>7, <2>8, <2>9, <2>11 DEF Kept, Serves, Ended, LastTold
  <2> QED
    BY <1>1, <1>9, <1>15, <1>18, <2>2, <2>10 DEF ServesNext
<1> QED
  BY <1>9, <1>16, <1>17, <1>18

-----------------------------------------------------------------------------
(* The invariant is kept.                                                  *)

LEMMA ServerServes ==
  ASSUME ClientInv, ScriptInv, NEW k \in MConns, NEW s \in Nat, TalkHere(k, s),
         Server(k), UNCHANGED prog
  PROVE  ServesNext(k, s)
BY AcceptServes, LostServes, ReadServes, WriteServes DEF Server

\* What a step of the server on connection k leaves of the connections.
ConnsLeft(k, e, o) ==
  /\ mc'[k] = e /\ out'[k] = o
  /\ \A j \in MConns : j # k => mc'[j] = mc[j] /\ out'[j] = out[j] /\ pos'[j] = pos[j]

LEMMA ServesLeft ==
  ASSUME ClientInv, NEW k \in MConns, NEW left, NEW p, NEW o, Leaves(k, left),
         pos' = [pos EXCEPT ![k] = p], out' = [out EXCEPT ![k] = o]
  PROVE  /\ ConnsLeft(k, left.conn, o) /\ db' = left.db /\ cfg' = left.cfg
         /\ pos'[k] = p
<1>1. /\ mc = [i \in MConns |-> mc[i]] /\ out = [i \in MConns |-> out[i]]
      /\ pos = [i \in MConns |-> pos[i]]
  BY DEF ClientInv, ConnsGood, StreamsGood
<1>2. mc' = [mc EXCEPT ![k] = left.conn] /\ db' = left.db /\ cfg' = left.cfg
  BY DEF Leaves
<1> QED
  BY <1>1, <1>2 DEF ConnsLeft

LEMMA OutputIs ==
  ASSUME NEW k \in MConns
  PROVE  /\ Output(k) = All(mc[k], out[k]) /\ Answered(k) = Count(mc[k], out[k])
         /\ Output(k)' = All(mc'[k], out'[k]) /\ Answered(k)' = Count(mc'[k], out'[k])
         /\ IsAdmin(k) <=> Admin(script[k], cfg.admin)
BY DEF Output, All, Answered, Count, IsAdmin, Admin

LEMMA TalkServed ==
  ASSUME ClientInv, ScriptInv, TalkInv, NEW k \in MConns, Server(k), UNCHANGED prog
  PROVE  TalkInv'
<1>1. PICK s \in Nat : TalkHere(k, s)
  BY DEF TalkInv
<1>2. ServesNext(k, s)
  BY <1>1, ServerServes
<1>3. PICK left, p, o :
        /\ Leaves(k, left) /\ Serves(k, s, left.conn, left.db, left.cfg, p, o)
        /\ pos' = [pos EXCEPT ![k] = p] /\ out' = [out EXCEPT ![k] = o]
        /\ UNCHANGED <<script, sent, gone, prog>>
  BY <1>2 DEF ServesNext
<1>4. /\ ConnsLeft(k, left.conn, o) /\ cfg' = left.cfg /\ pos'[k] = p
  BY <1>3, ServesLeft
<1>5. cfg'.admin = cfg.admin
  BY <1>3, <1>4 DEF Serves
<1>6. ASSUME NEW j \in MConns PROVE At(j)' = At(j) /\ Admin(script'[j], cfg'.admin) = Admin(script[j], cfg.admin)
  BY <1>3, <1>5 DEF At, Admin
<1>7. \A j \in MConns : \E z \in Nat : TalkHere(j, z)'
  <2>1. ASSUME NEW j \in MConns PROVE \E z \in Nat : TalkHere(j, z)'
    <3>1. CASE j = k
      <4>1. Said(k, At(k)', sent'[k], script'[k], s)
        BY <1>1, <1>3, <1>6 DEF TalkHere
      <4>2. Talk(mc'[k], sent'[k], pos'[k], out'[k], script'[k], s, Admin(script'[k], cfg'.admin))
        BY <1>3, <1>4, <1>6 DEF Serves, ConnsLeft
      <4>3. k \in Programs => Waits(mc'[k], out'[k], s)
        BY <1>3, <1>4 DEF Serves, ConnsLeft
      <4>4. TalkHere(k, s)'
        BY <4>1, <4>2, <4>3 DEF TalkHere
      <4> QED
        BY <3>1, <4>4
    <3>2. CASE j # k
      <4>1. PICK z \in Nat : TalkHere(j, z)
        BY DEF TalkInv
      <4>2. mc'[j] = mc[j] /\ out'[j] = out[j] /\ pos'[j] = pos[j] /\ sent' = sent /\ script' = script
        BY <1>3, <1>4, <3>2 DEF ConnsLeft
      <4>3. TalkHere(j, z)'
        BY <1>6, <4>1, <4>2 DEF TalkHere
      <4> QED
        BY <4>3
    <3> QED
      BY <3>1, <3>2
  <2> QED
    BY <2>1
<1>8. ASSUME NEW j \in Programs, prog'[j].at = "exit", prog'[j].rc = 0
      PROVE  Carried(out'[j])
  <2>1. Carried(out[j])
    BY <1>3, <1>8 DEF TalkInv
  <2>2. j \in MConns
    BY ClientAssumption
  <2>3. Carried(out[k]) => Carried(o)
    BY <1>3 DEF Serves
  <2> QED
    BY <1>4, <2>1, <2>2, <2>3 DEF ConnsLeft
<1> QED
  BY <1>7, <1>8 DEF TalkInv

-----------------------------------------------------------------------------
(* The steps of the programs.                                              *)

\* What the client takes for an answer with the status OK is one.
LEMMA AnswerCarried ==
  ASSUME NEW o \in Seq(Nat), Len(o) >= 7, Len(o) >= 7 + DataLen(o, 2), o[5] = OK
  PROVE  Carried(o)
<1>1. PICK f : /\ Reads(f, o)
               /\ Responses(o) = IF Len(o) < 3 THEN [list |-> <<>>, rest |-> 0] ELSE f[3]
  BY ResponsesRead
<1>2. Len(o) \in Nat /\ 3 \in 1 .. Len(o) + 1 /\ ~(Len(o) < 3)
  OBVIOUS
<1>3. Whole(o, 3)
  <2>1. PICK d : d = DataLen(o, 2)
    OBVIOUS
  <2>2. d \in Nat
    <3>1. o[6] \in Nat /\ o[7] \in Nat /\ BYTE \in Nat
      <4>1. 6 \in 1 .. Len(o) /\ 7 \in 1 .. Len(o)
        BY <1>2
      <4>2. \A x \in 1 .. Len(o) : o[x] \in Nat
        OBVIOUS
      <4> QED
        BY ONLY <4>1, <4>2, MgmtAssumption
    <3>2. PICK a \in Nat : a = o[6]
      BY <3>1
    <3>3. PICK b \in Nat : b = o[7]
      BY <3>1
    <3>4. d = a * BYTE + b
      BY <2>1, <3>2, <3>3 DEF DataLen
    <3> QED
      BY <3>1, <3>4, SMTT(30)
  <2>3. DataLen(o, 3 - 1) = d
    BY <2>1
  <2>4. NextAt(o, 3) = 3 + 5 + d
    BY <2>3 DEF NextAt
  <2> QED
    BY <1>2, <2>1, <2>2, <2>4, SMTT(30) DEF Whole
<1>4. PICK r : r = Response(o, 3)
  OBVIOUS
<1>5. PICK y : y = f[NextAt(o, 3)].list
  OBVIOUS
<1>6. r \in ResponseSet /\ r.status = OK
  BY <1>2, <1>3, <1>4, WholeFacts, SMTT(30) DEF Response
<1>7. y \in Seq(ResponseSet)
  <2>1. NextAt(o, 3) \in 1 .. Len(o) + 1
    BY <1>2, <1>3, WholeFacts
  <2>2. f[NextAt(o, 3)] \in ReadSet
    BY <1>1, <2>1 DEF Reads
  <2> QED
    BY <1>5, <2>2 DEF ReadSet
<1>8. Responses(o).list = <<r>> \o y
  <2>1. f[3] = [list |-> <<r>> \o y, rest |-> f[NextAt(o, 3)].rest]
    BY <1>1, <1>2, <1>3, <1>4, <1>5 DEF Reads
  <2> QED
    BY <1>1, <1>2, <2>1
<1>9. <<r>> \in Seq(ResponseSet) /\ Len(<<r>> \o y) > 0 /\ (<<r>> \o y)[1] = r
  BY <1>6, <1>7
<1>10. PICK l : l = <<r>> \o y
  OBVIOUS
<1> QED
  BY <1>6, <1>8, <1>9, <1>10 DEF Carried

LEMMA TalkMore ==
  ASSUME NEW c, NEW q \in Seq(Nat), NEW n \in 0 .. Len(q), NEW o, NEW m, NEW s \in Nat,
         NEW a, Talk(c, q, n, o, m, s, a), NEW x \in Seq(Nat)
  PROVE  Talk(c, q \o x, n, o, m, s + 1, a)
<1>1. n \in Nat /\ n <= Len(q) /\ 1 \in Nat /\ 1 >= 1
  OBVIOUS
<1>2. SubSeq(q \o x, 1, n) = SubSeq(q, 1, n)
  BY <1>1, SubSeqOfPrefix, Zenon
<1>3. PICK z : z = q \o x
  OBVIOUS
<1>4. PICK y : y = All(c, o)
  OBVIOUS
<1>5. /\ y \in Seq(Nat) /\ Len(Responses(y).list) \in Nat
      /\ o \in Seq(Nat) /\ c.wbuf \in BufferOf(Nat, MGMT_WBUF)
  BY <1>4, CountType DEF Talk, Count
<1>6. Told(y, m, s) => Told(y, m, s + 1)
  BY <1>5 DEF Told
<1>7. ASSUME NEW p, Settled(y, p, SubSeq(q, 1, n), m, s)
      PROVE  Settled(y, p, SubSeq(z, 1, n), m, s + 1)
  <2>1. Len(Responses(y).list) < s => Len(Responses(y).list) < s + 1
    BY <1>5
  <2> QED
    BY <1>2, <1>3, <1>7, <2>1, Zenon DEF Settled
<1>8. SubSeq(z, 1, n) = SubSeq(q, 1, n) /\ o \o c.wbuf.bytes = y
  BY <1>2, <1>3, <1>4 DEF All
<1>9. Talk(c, z, n, o, m, s + 1, a)
  BY <1>6, <1>7, <1>8 DEF Talk
<1> QED
  BY <1>3, <1>9

LEMMA ExitsTalk ==
  ASSUME ScriptInv, TalkInv, NEW k \in Programs, NEW rc \in {0, 1}, Exits(k, rc),
         UNCHANGED <<db, cfg, mc, script, sent, pos, out>>, rc = 0 => Carried(out[k])
  PROVE  TalkInv'
<1>1. /\ prog'[k].at = "exit" /\ prog'[k].rc = rc
      /\ \A i \in Programs : i # k => prog'[i] = prog[i]
  BY DEF Exits, ScriptInv
<1>2. ASSUME NEW i \in MConns PROVE \E s \in Nat : TalkHere(i, s)'
  <2>1. PICK s \in Nat : TalkHere(i, s)
    BY DEF TalkInv
  <2>2. Said(i, At(i)', sent[i], script[i], s)
    <3>1. CASE i = k
      <4>1. At(i)' = "exit"
        BY <1>1, <3>1 DEF At
      <4>2. Said(i, "exit", sent[i], script[i], s)
        BY <2>1 DEF TalkHere, Said
      <4> QED
        BY <4>1, <4>2
    <3>2. CASE i # k
      <4>1. At(i)' = At(i)
        BY <1>1, <3>2 DEF At
      <4> QED
        BY <2>1, <4>1 DEF TalkHere
    <3> QED
      BY <3>1, <3>2
  <2>3. TalkHere(i, s)'
    BY <2>1, <2>2 DEF TalkHere
  <2> QED
    BY <2>3
<1>3. \A i \in Programs : prog'[i].at = "exit" /\ prog'[i].rc = 0 => Carried(out'[i])
  BY <1>1 DEF TalkInv
<1> QED
  BY <1>2, <1>3 DEF TalkInv

LEMMA SendsTalk ==
  ASSUME ClientInv, ScriptInv, TalkInv, NEW k \in Programs, NEW i \in {1, 2}, NEW at,
         at = IF i = 1 THEN "auth" ELSE "request",
         prog[k].at = IF i = 1 THEN "start" ELSE "auth", i = 2 => Len(out[k]) >= 2,
         Sends(k, script[k][i], at), UNCHANGED <<db, cfg, mc, script, pos, out>>
  PROVE  TalkInv'
<1>1. CASE Refused(script[k][i])
  <2>1. Exits(k, 1) /\ UNCHANGED sent
    BY <1>1 DEF Sends
  <2> QED
    BY <2>1, ExitsTalk
<1>2. CASE ~Refused(script[k][i])
  <2>1. PICK m : m = script[k]
    OBVIOUS
  <2>2. PICK x : x = m[i].bytes
    OBVIOUS
  <2>3. PICK q : q = sent[k]
    OBVIOUS
  <2>4. sent' = [sent EXCEPT ![k] = @ \o x] /\ prog' = [prog EXCEPT ![k].at = at]
    BY <1>2, <2>1, <2>2 DEF Sends
  <2>5. k \in MConns /\ m \in Seq(Messages) /\ Len(m) = 2
    BY <2>1, ClientAssumption DEF ScriptInv
  <2>6. x \in Seq(Nat) /\ q \in Seq(Nat) /\ pos[k] \in 0 .. Len(q)
    <3>1. i \in 1 .. Len(m)
      BY <2>5
    <3> QED
      BY <2>2, <2>3, <2>5, <3>1, MessageBytes, Here
  <2>7. PICK s \in Nat : TalkHere(k, s)
    BY <2>5 DEF TalkInv
  <2>8. Said(k, At(k), q, m, s) /\ At(k) = prog[k].at
    BY <2>1, <2>3, <2>7 DEF TalkHere, At
  <2>9. i = s + 1
    <3>1. CASE i = 1
      BY <2>8, <3>1 DEF Said
    <3>2. CASE i = 2
      BY <2>8, <3>2 DEF Said
    <3> QED
      BY <3>1, <3>2
  <2>10. Said(k, at, q \o x, m, i)
    <3>1. SaysWhatItIs(m, i) \/ Refused(m[i])
      <4>1. i \in 1 .. Len(m)
        BY <2>5
      <4> QED
        BY <2>1, <2>5, <4>1, ClientAssumption DEF ScriptInv
    <3> QED
      BY <1>2, <2>1, <2>2, <2>5, <2>8, <2>9, <3>1, SaysNext
  <2>11. Talk(mc[k], q \o x, pos[k], out[k], m, i, Admin(m, cfg.admin))
    <3>1. Talk(mc[k], q, pos[k], out[k], m, s, Admin(m, cfg.admin))
      BY <2>1, <2>3, <2>7 DEF TalkHere
    <3> QED
      BY <2>6, <2>9, <3>1, TalkMore
  <2>12. Waits(mc[k], out[k], i)
    BY <2>7 DEF TalkHere, Waits
  <2>13. /\ sent'[k] = q \o x
         /\ \A j \in MConns : j # k => sent'[j] = sent[j]
    BY <2>3, <2>4, <2>5 DEF ScriptInv
  <2>14. /\ prog'[k].at = at /\ \A j \in Programs : j # k => prog'[j] = prog[j]
    <3>1. prog \in [Programs -> [at : {"start", "auth", "request", "exit"}, rc : {0, 1}]]
      BY DEF ScriptInv
    <3> QED
      BY ONLY <2>4, <3>1, k \in Programs
  <2>15. ASSUME NEW j \in MConns PROVE \E z \in Nat : TalkHere(j, z)'
    <3>1. CASE j = k
      <4>1. At(k)' = at
        BY <2>14 DEF At
      <4>2. TalkHere(k, i)'
        BY <2>1, <2>10, <2>11, <2>12, <2>13, <4>1 DEF TalkHere
      <4>3. i \in Nat
        OBVIOUS
      <4> QED
        BY <3>1, <4>2, <4>3
    <3>2. CASE j # k
      <4>1. PICK z \in Nat : TalkHere(j, z)
        BY DEF TalkInv
      <4>2. At(j)' = At(j) /\ sent'[j] = sent[j]
        BY <2>13, <2>14, <3>2 DEF At
      <4>3. TalkHere(j, z)'
        BY <4>1, <4>2 DEF TalkHere
      <4> QED
        BY <4>3
    <3> QED
      BY <3>1, <3>2
  <2>16. \A j \in Programs : prog'[j].at = "exit" /\ prog'[j].rc = 0 => Carried(out'[j])
    <3>1. at # "exit"
      OBVIOUS
    <3> QED
      BY <2>14, <3>1 DEF TalkInv
  <2> QED
    BY <2>15, <2>16 DEF TalkInv
<1> QED
  BY <1>1, <1>2

LEMMA ProgramTalk ==
  ASSUME ClientInv, ScriptInv, TalkInv, NEW k \in Programs, Program(k)
  PROVE  TalkInv' /\ UNCHANGED <<db, cfg, mc, out>>
<1>1. CASE StartsAuth(k)
  BY <1>1, SendsTalk DEF StartsAuth, Running
<1>2. CASE AuthAnswered(k)
  <2>1. UNCHANGED <<db, cfg, mc, script, pos, out>> /\ prog[k].at = "auth" /\ Len(out[k]) >= 2
    BY <1>2 DEF AuthAnswered, Running
  <2>2. CASE Sends(k, script[k][2], "request")
    BY <2>1, <2>2, SendsTalk
  <2>3. CASE Exits(k, 1) /\ UNCHANGED sent
    BY <2>1, <2>3, ExitsTalk
  <2> QED
    BY <1>2, <2>1, <2>2, <2>3 DEF AuthAnswered
<1>3. CASE RequestAnswered(k)
  <2>1. UNCHANGED <<db, cfg, mc, script, sent, pos, out>> /\ ResponseIsIn(k)
    BY <1>3 DEF RequestAnswered
  <2>2. Exits(k, 1) \/ (Exits(k, 0) /\ out[k][5] = OK)
    BY <1>3 DEF RequestAnswered
  <2>3. CASE Exits(k, 1)
    BY <2>1, <2>3, ExitsTalk
  <2>4. CASE Exits(k, 0) /\ out[k][5] = OK
    <3>1. k \in MConns
      BY ClientAssumption
    <3>2. out[k] \in Seq(Nat)
      BY <3>1 DEF TalkInv, TalkHere, Talk
    <3>3. Carried(out[k])
      BY <2>1, <2>4, <3>2, AnswerCarried DEF ResponseIsIn
    <3> QED
      BY <2>1, <2>4, <3>3, ExitsTalk
  <2> QED
    BY <2>1, <2>2, <2>3, <2>4
<1>4. CASE PrematureEnd(k)
  <2>1. UNCHANGED <<db, cfg, mc, script, sent, pos, out>> /\ Exits(k, 1)
    BY <1>4 DEF PrematureEnd
  <2> QED
    BY <2>1, ExitsTalk
<1> QED
  BY <1>1, <1>2, <1>3, <1>4 DEF Program

LEMMA SameTalk ==
  ASSUME TalkInv, UNCHANGED <<mc, script, sent, pos, out, prog>>, cfg' = cfg
  PROVE  TalkInv'
<1>1. ASSUME NEW k \in MConns PROVE \E s \in Nat : TalkHere(k, s)'
  <2>1. PICK s \in Nat : TalkHere(k, s)
    BY DEF TalkInv
  <2>2. At(k)' = At(k)
    BY DEF At
  <2>3. TalkHere(k, s)'
    BY <2>1, <2>2 DEF TalkHere
  <2> QED
    BY <2>3
<1>2. \A k \in Programs : prog'[k].at = "exit" /\ prog'[k].rc = 0 => Carried(out'[k])
  BY DEF TalkInv
<1> QED
  BY <1>1, <1>2 DEF TalkInv

LEMMA TalkNext ==
  ASSUME ClientInv, ScriptInv, TalkInv, [ClientNext]_clientVars
  PROVE  /\ TalkInv'
         /\ \/ UNCHANGED <<db, cfg, mc, out>>
            \/ \E k \in MConns : Server(k) /\ UNCHANGED prog
<1>1. CASE UNCHANGED clientVars
  BY <1>1, SameTalk DEF clientVars, mgmtVars
<1>2. ASSUME NEW k \in MConns, Server(k), UNCHANGED prog PROVE TalkInv'
  BY <1>2, TalkServed
<1>3. ASSUME NEW k \in MConns, ClientLeaves(k), UNCHANGED prog
      PROVE  TalkInv' /\ UNCHANGED <<db, cfg, mc, out>>
  BY <1>3, SameTalk DEF ClientLeaves
<1>4. ASSUME NEW k \in Programs, Program(k) PROVE TalkInv' /\ UNCHANGED <<db, cfg, mc, out>>
  BY <1>4, ProgramTalk
<1> QED
  BY <1>1, <1>2, <1>3, <1>4 DEF ClientNext

LEMMA TalkInit ==
  ASSUME ClientInit
  PROVE  TalkInv
<1>1. ClientInv /\ ScriptInv
  BY InitGood
<1>2. /\ mc = [k \in MConns |-> Waiting]
      /\ pos = [k \in MConns |-> 0] /\ out = [k \in MConns |-> <<>>]
      /\ prog = [k \in Programs |-> [at |-> "start", rc |-> 1]]
  BY DEF ClientInit
<1>3. /\ Waiting.wbuf = Closed.wbuf /\ Waiting.state = "backlog" /\ Waiting.rbuf.read = 0
      /\ Waiting.close_after_write = FALSE /\ Waiting.rbuf.bytes = <<>>
  BY DEF Waiting, NewConn, Closed, buffer_init
<1>4. <<>> \in Seq(Nat) /\ Len(<<>>) = 0 /\ <<>> \o <<>> = <<>>
  OBVIOUS
<1>5. PICK rs : rs = Responses(<<>>)
  OBVIOUS
<1>6. rs.list = <<>>
  <2>1. PICK q \in Seq(Nat) : q = <<>>
    BY <1>4
  <2>2. Len(q) <= 2
    BY <2>1
  <2>3. Responses(q).list = <<>>
    BY <2>2, NoResponses
  <2> QED
    BY <1>5, <2>1, <2>3
<1>7. ASSUME NEW k \in MConns PROVE \E s \in Nat : TalkHere(k, s)
  <2>1. PICK s \in Nat : Said(k, At(k), sent[k], script[k], s)
    BY <1>1 DEF ScriptInv
  <2>2. Told(<<>>, script[k], s)
    <3>1. Len(rs.list) = 0
      BY <1>4, <1>6
    <3> QED
      BY <1>5, <3>1 DEF Told
  <2>3. /\ mc[k] = Waiting /\ pos[k] = 0 /\ out[k] = <<>> /\ sent[k] \in Seq(Nat)
    BY <1>1, <1>2 DEF ScriptInv
  <2>4. SubSeq(sent[k], 1, 0) = <<>>
    BY <2>3
  <2>5. Waiting.wbuf \in BufferOf(Nat, MGMT_WBUF) /\ Waiting.wbuf.bytes = <<>>
    BY <1>3, ClosedFields
  <2>6. PICK a : a = Admin(script[k], cfg.admin)
    OBVIOUS
  <2>7. Talk(Waiting, sent[k], 0, <<>>, script[k], s, a)
    BY <1>3, <1>4, <2>2, <2>4, <2>5 DEF Talk
  <2>8. k \in Programs => s # 2
    <3> HAVE k \in Programs
    <3>1. At(k) = "start"
      BY <1>2 DEF At
    <3> QED
      BY <2>1, <3>1 DEF Said
  <2>9. k \in Programs => Waits(Waiting, <<>>, s)
    BY <1>3, <2>8 DEF Waits
  <2>10. TalkHere(k, s)
    BY <2>1, <2>3, <2>6, <2>7, <2>9 DEF TalkHere
  <2> QED
    BY <2>10
<1>8. \A k \in Programs : ~(prog[k].at = "exit")
  BY <1>2
<1> QED
  BY <1>7, <1>8 DEF TalkInv

(* Whatever the server has answered on a connection answers the messages   *)
(* that the client of it has sent, one by one, and the request buffer      *)
(* holds what is behind them.                                              *)
THEOREM ClientTalks == ClientSpec => []TalkInv
<1>1. ClientInit => ClientInv /\ ScriptInv /\ TalkInv
  BY InitGood, TalkInit
<1>2. ClientInv /\ ScriptInv /\ TalkInv /\ [ClientNext]_clientVars
        => (ClientInv /\ ScriptInv /\ TalkInv)'
  BY NextGood, TalkNext
<1> QED
  BY <1>1, <1>2, PTL DEF ClientSpec

-----------------------------------------------------------------------------
(* What the conversations show.                                            *)

LEMMA BytesLeft ==
  ASSUME NEW q \in Seq(Nat), NEW m, NEW s \in Nat, Stream(q, m, s), NEW n \in 0 .. Len(q),
         NEW a \in Seq(Nat), NEW p \in Seq(Nat), Settled(a, p, SubSeq(q, 1, n), m, s)
  PROVE  n - Len(p) = Len(Bytes(SubSeq(m, 1, Len(Responses(a).list) + 1)))
<1>1. PICK l : l = Len(Responses(a).list)
  OBVIOUS
<1>2. l \in Nat /\ l < s
  <2>1. Responses(a).list \in Seq(ResponseSet)
    BY ResponsesType DEF ReadSet
  <2>2. Len(Responses(a).list) \in Nat
    BY <2>1
  <2> QED
    BY <1>1, <2>2 DEF Settled
<1>3. PICK b : b = Bytes(SubSeq(m, 1, l + 1))
  OBVIOUS
<1>4. SubSeq(q, 1, n) = b \o p
  BY <1>1, <1>3 DEF Settled
<1>5. b \in Seq(Nat)
  <2>1. m \in Seq(Messages) /\ s \in 0 .. Len(m) /\ Len(m) \in Nat
    BY DEF Stream
  <2>2. l + 1 \in 0 .. Len(m)
    BY <1>2, <2>1
  <2> QED
    BY <1>3, <2>1, <2>2, BytesType
<1>6. Len(SubSeq(q, 1, n)) = n /\ n \in Nat
  BY CutSeq
<1>7. Len(b \o p) = Len(b) + Len(p) /\ Len(b) \in Nat /\ Len(p) \in Nat
  BY <1>5, JoinFacts
<1>8. n - Len(p) = Len(b)
  BY <1>4, <1>6, <1>7
<1> QED
  BY <1>1, <1>3, <1>8

LEMMA TalkFollows ==
  ASSUME ClientInv, ScriptInv, TalkInv, NEW k \in MConns
  PROVE  LET rs == Responses(Output(k)) IN
           /\ \A i \in 1 .. Len(rs.list) : rs.list[i].cmd = script[k][i + 1].cmd
           /\ mc[k].state # "closed" => rs.rest = 0
           /\ mc[k].state \in {"AUTH_REPLY", "REQUEST", "RESPONSE"} =>
                Consumed(k) = Len(Bytes(SubSeq(script[k], 1, Len(rs.list) + 1)))
<1>1. PICK s \in Nat : TalkHere(k, s)
  BY DEF TalkInv
<1>2. PICK m : m = script[k]
  OBVIOUS
<1>3. PICK o : o = out[k]
  OBVIOUS
<1>4. PICK a : a = All(mc[k], o)
  OBVIOUS
<1>5. PICK q \in Seq(Nat) : q = sent[k]
  BY Here
<1>6. PICK n \in 0 .. Len(q) : n = pos[k]
  BY <1>5, Here
<1>7. PICK p : p = mc[k].rbuf.bytes
  OBVIOUS
<1>8. /\ o \in Seq(Nat) /\ mc[k].wbuf \in BufferOf(Nat, MGMT_WBUF)
      /\ Told(a, m, s) /\ Output(k) = a
      /\ mc[k].state \in {"backlog", "AUTH"} => o = <<>> /\ mc[k].wbuf.bytes = <<>>
      /\ mc[k].state \in {"AUTH_REPLY", "REQUEST", "RESPONSE"} =>
           Settled(a, p, SubSeq(q, 1, n), m, s)
  <2>1. Talk(mc[k], q, n, o, m, s, Admin(m, cfg.admin))
    BY <1>1, <1>2, <1>3, <1>5, <1>6 DEF TalkHere
  <2>2. o \o mc[k].wbuf.bytes = a /\ Output(k) = a
    BY <1>3, <1>4 DEF All, Output
  <2> QED
    BY <1>7, <2>1, <2>2 DEF Talk
<1>9. a \in Seq(Nat)
  BY <1>4, <1>8, CountType
<1>10. p \in Seq(Nat) /\ GoodMgmt(mc[k])
  BY <1>7, Here, MgmtSizes, BufferFields DEF GoodMgmt
<1>11. PICK rs : rs = Responses(a)
  OBVIOUS
<1>12. \A i \in 1 .. Len(rs.list) : rs.list[i].cmd = m[i + 1].cmd
  BY <1>8, <1>11 DEF Told
<1>13. mc[k].state # "closed" => rs.rest = 0
  <2> HAVE mc[k].state # "closed"
  <2>1. CASE mc[k].state \in {"backlog", "AUTH"}
    <3>1. a = <<>>
      <4>1. <<>> \o <<>> = <<>>
        OBVIOUS
      <4> QED
        BY <1>4, <1>8, <2>1, <4>1 DEF All
    <3>2. Len(a) <= 2
      BY <3>1
    <3> QED
      BY <1>9, <1>11, <3>2, NoResponses
  <2>2. CASE mc[k].state \in {"AUTH_REPLY", "REQUEST", "RESPONSE"}
    BY <1>8, <1>11, <2>2 DEF Settled
  <2>3. mc[k].state \in {"backlog", "AUTH", "AUTH_REPLY", "REQUEST", "RESPONSE"}
    <3>1. Mode(mc[k])
      BY DEF ClientInv, AccessGood, Access
    <3> QED
      BY <3>1 DEF Mode
  <2> QED
    BY <2>1, <2>2, <2>3
<1>14. mc[k].state \in {"AUTH_REPLY", "REQUEST", "RESPONSE"} =>
         Consumed(k) = Len(Bytes(SubSeq(m, 1, Len(rs.list) + 1)))
  <2> HAVE mc[k].state \in {"AUTH_REPLY", "REQUEST", "RESPONSE"}
  <2>1. Stream(q, m, s)
    BY <1>1, <1>2, <1>5, StreamHere
  <2>2. n - Len(p) = Len(Bytes(SubSeq(m, 1, Len(Responses(a).list) + 1)))
    BY <1>8, <1>9, <1>10, <2>1, BytesLeft
  <2> QED
    BY <1>6, <1>7, <1>11, <2>2 DEF Consumed
<1> QED
  BY <1>2, <1>8, <1>11, <1>12, <1>13, <1>14

LEMMA TalkExits ==
  ASSUME ScriptInv, TalkInv, NEW k \in Programs, prog[k].at = "exit", prog[k].rc = 0
  PROVE  LET rs == Responses(out[k]).list
         IN  Len(rs) = 1 /\ rs[1].status = OK /\ rs[1].cmd = script[k][2].cmd
<1>1. k \in MConns /\ Len(script[k]) = 2
  BY ClientAssumption DEF ScriptInv
<1>2. PICK s \in Nat : TalkHere(k, s)
  BY <1>1 DEF TalkInv
<1>3. PICK m : m = script[k]
  OBVIOUS
<1>4. PICK o : o = out[k]
  OBVIOUS
<1>5. PICK w : w = mc[k].wbuf.bytes
  OBVIOUS
<1>6. /\ o \in Seq(Nat) /\ w \in Seq(Nat) /\ Told(o \o w, m, s) /\ s <= 2
  <2>1. Talk(mc[k], sent[k], pos[k], o, m, s, Admin(m, cfg.admin))
    BY <1>2, <1>3, <1>4 DEF TalkHere
  <2>2. s <= 2
    BY <1>1, <1>2 DEF TalkHere, Said
  <2> QED
    BY <1>5, <2>1, <2>2, WbufBytes DEF Talk
<1>7. PICK y \in Seq(ResponseSet) : Responses(o \o w).list = Responses(o).list \o y
  BY <1>6, ResponsesPrefix
<1>8. PICK rs : rs = Responses(o).list
  OBVIOUS
<1>9. rs \in Seq(ResponseSet) /\ Len(rs) > 0 /\ rs[1].status = OK
  <2>1. Carried(o)
    BY <1>4 DEF TalkInv
  <2> QED
    BY <1>6, <1>8, <2>1, ResponsesType DEF ReadSet, Carried
<1>10. \A i \in 1 .. Len(rs) : i \in 1 .. Len(rs \o y) /\ (rs \o y)[i] = rs[i]
  BY <1>9
<1>11. \A i \in 1 .. Len(rs) : i < s /\ rs[i].cmd = m[i + 1].cmd
  BY <1>6, <1>7, <1>8, <1>10 DEF Told
<1>12. Len(rs) = 1
  <2>1. PICK l \in Nat : l = Len(rs)
    BY <1>9
  <2>2. l > 0 /\ l \in 1 .. l
    BY <1>9, <2>1
  <2>3. l < s
    BY <1>11, <2>1, <2>2
  <2>4. l = 1
    BY ONLY <1>6, <2>2, <2>3, l \in Nat, s \in Nat
  <2> QED
    BY <2>1, <2>4
<1>13. rs[1].cmd = m[2].cmd
  BY <1>11, <1>12
<1> QED
  BY <1>3, <1>4, <1>8, <1>9, <1>12, <1>13

(* However the bytes are cut by recv and send, the responses that          *)
(* process_requests appends answer the requests one by one, in order.      *)
THEOREM ClientAnswers == ClientSpec => []AnswersFollowRequests
<1>1. ClientInv /\ ScriptInv /\ TalkInv => AnswersFollowRequests
  BY TalkFollows DEF AnswersFollowRequests
<1> QED
  BY <1>1, ClientInvariant, ClientTalks, PTL

(* main of src/client.c returns 0 only when the server carried out the     *)
(* request of this run of it, and when the whole answer was read.          *)
THEOREM ClientExits == ClientSpec => []ExitCodeIsTrue
<1>1. ScriptInv /\ TalkInv => ExitCodeIsTrue
  BY TalkExits DEF ExitCodeIsTrue
<1> QED
  BY <1>1, ClientInvariant, ClientTalks, PTL

\* One step of the server, on connection k.
LEMMA StepServes ==
  ASSUME ClientInv, ScriptInv, TalkInv, NEW k \in MConns, Server(k), UNCHANGED prog
  PROVE  \E s, e, d, g, p, o :
           /\ Serves(k, s, e, d, g, p, o) /\ ConnsLeft(k, e, o)
           /\ db' = d /\ cfg' = g
           /\ UNCHANGED <<script, gone>>
<1>1. PICK s \in Nat : TalkHere(k, s)
  BY DEF TalkInv
<1>2. ServesNext(k, s)
  BY <1>1, ServerServes
<1>3. PICK left, p, o :
        /\ Leaves(k, left) /\ Serves(k, s, left.conn, left.db, left.cfg, p, o)
        /\ pos' = [pos EXCEPT ![k] = p] /\ out' = [out EXCEPT ![k] = o]
        /\ UNCHANGED <<script, sent, gone, prog>>
  BY <1>2 DEF ServesNext
<1>4. ConnsLeft(k, left.conn, o) /\ db' = left.db /\ cfg' = left.cfg
  BY <1>3, ServesLeft
<1> QED
  BY <1>3, <1>4

LEMMA AnsweredType ==
  ASSUME TalkInv, NEW k \in MConns
  PROVE  Count(mc[k], out[k]) \in Nat
<1>1. PICK s \in Nat : TalkHere(k, s)
  BY DEF TalkInv
<1>2. out[k] \in Seq(Nat) /\ mc[k].wbuf \in BufferOf(Nat, MGMT_WBUF)
  BY <1>1 DEF TalkHere, Talk
<1> QED
  BY <1>2, CountType

\* What the step told on connection j.
ToldTrue(j) ==
  Answered(j)' > Answered(j) =>
    Truthful(script[j][Answered(j)' + 1], Responses(Output(j)').list[Answered(j)'],
             AsMap(db), cfg, AsMap(db'), cfg')

\* Why connection j ended in the step.
EndedTrue(j) ==
  mc[j].state \notin {"backlog", "closed"} /\ mc'[j].state = "closed" =>
    \/ gone[j] \/ ~IsAdmin(j)
    \/ LET n == Answered(j) + IF mc[j].state = "AUTH" THEN 1 ELSE 2
       IN  n <= Len(script[j]) /\ script[j][n].cmd = BAD
    \/ j \notin Programs /\ WriteSpace(mc[j].rbuf) = 0

LEMMA NothingTold ==
  ASSUME TalkInv, NEW j \in MConns, mc'[j] = mc[j], out'[j] = out[j]
  PROVE  ToldTrue(j) /\ EndedTrue(j)
<1>1. Answered(j)' = Answered(j) /\ Answered(j) \in Nat
  BY OutputIs, AnsweredType
<1>2. ~(Answered(j)' > Answered(j))
  BY <1>1
<1>3. ~(mc[j].state # "closed" /\ mc'[j].state = "closed")
  OBVIOUS
<1> QED
  BY <1>2, <1>3 DEF ToldTrue, EndedTrue

LEMMA StepTold ==
  ASSUME ClientInv, ScriptInv, TalkInv, [ClientNext]_clientVars, NEW j \in MConns
  PROVE  ToldTrue(j) /\ EndedTrue(j)
<1>1. CASE UNCHANGED <<db, cfg, mc, out>>
  BY <1>1, NothingTold
<1>2. ASSUME NEW k \in MConns, Server(k), UNCHANGED prog
      PROVE  ToldTrue(j) /\ EndedTrue(j)
  <2>1. PICK s, e, d, g, p, o :
          /\ Serves(k, s, e, d, g, p, o) /\ ConnsLeft(k, e, o)
          /\ db' = d /\ cfg' = g
          /\ UNCHANGED <<script, gone>>
    BY <1>2, StepServes
  <2>2. CASE j # k
    <3>1. mc'[j] = mc[j] /\ out'[j] = out[j]
      BY <2>1, <2>2 DEF ConnsLeft
    <3> QED
      BY <3>1, NothingTold
  <2>3. CASE j = k
    <3>1. mc'[j] = e /\ out'[j] = o
      BY <2>1, <2>3 DEF ConnsLeft
    <3>2. /\ Answered(j)' = Count(e, o) /\ Output(j)' = All(e, o)
          /\ Answered(j) = Count(mc[j], out[j]) /\ (IsAdmin(j) <=> Admin(script[j], cfg.admin))
      BY <3>1, OutputIs
    <3>3. ToldTrue(j)
      <4> SUFFICES ASSUME Answered(j)' > Answered(j)
                   PROVE  Truthful(script[j][Answered(j)' + 1],
                            Responses(Output(j)').list[Answered(j)'],
                            AsMap(db), cfg, AsMap(db'), cfg')
        BY Zenon DEF ToldTrue
      <4>1. LastTold(e, o, script[j], AsMap(db), cfg, AsMap(d), g)
        BY <2>1, <2>3, <3>2 DEF Serves
      <4> QED
        BY <2>1, <3>2, <4>1 DEF LastTold
    <3>4. EndedTrue(j)
      <4> SUFFICES ASSUME mc[j].state \notin {"backlog", "closed"}, mc'[j].state = "closed"
                   PROVE  EndedTrue(j)
        BY DEF EndedTrue
      <4>1. Ended(j)
        BY <2>1, <2>3, <3>1 DEF Serves
      <4> QED
        BY <3>2, <4>1 DEF Ended, NextIsBad, EndedTrue
    <3> QED
      BY <3>3, <3>4
  <2> QED
    BY <2>2, <2>3
<1>3. \/ UNCHANGED <<db, cfg, mc, out>>
      \/ \E k \in MConns : Server(k) /\ UNCHANGED prog
  BY TalkNext
<1> QED
  BY <1>1, <1>2, <1>3

(* Each response that process_requests appends tells what its handler did  *)
(* to the user table and the configuration, or found there, whichever      *)
(* other connections changed them before.                                  *)
THEOREM ClientTruthful == ClientSpec => RepliesAreTruthful
<1>1. ClientInv /\ ScriptInv /\ TalkInv /\ [ClientNext]_clientVars
        => [\A k \in MConns : Answered(k)' > Answered(k) =>
              Truthful(script[k][Answered(k)' + 1],
                       Responses(Output(k)').list[Answered(k)'],
                       AsMap(db), cfg, AsMap(db'), cfg')]_clientVars
  BY StepTold DEF ToldTrue
<1> QED
  BY <1>1, ClientInvariant, ClientTalks, PTL DEF ClientSpec, RepliesAreTruthful

(* mgmt_done is reached only for a client that is gone, that is not the    *)
(* administrator, that sent a malformed message or that filled the request *)
(* buffer; the terminal client, which waits for its answers, never does.   *)
THEOREM ClientEnds == ClientSpec => EndedForCause
<1>1. ClientInv /\ ScriptInv /\ TalkInv /\ [ClientNext]_clientVars
        => [\A k \in MConns :
              mc[k].state \notin {"backlog", "closed"} /\ mc'[k].state = "closed" =>
                \/ gone[k] \/ ~IsAdmin(k)
                \/ LET n == Answered(k) + IF mc[k].state = "AUTH" THEN 1 ELSE 2
                   IN  n <= Len(script[k]) /\ script[k][n].cmd = BAD
                \/ k \notin Programs /\ WriteSpace(mc[k].rbuf) = 0]_clientVars
  BY StepTold DEF EndedTrue
<1> QED
  BY <1>1, ClientInvariant, ClientTalks, PTL DEF ClientSpec, EndedForCause
=============================================================================
