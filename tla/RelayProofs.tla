---------------------------- MODULE RelayProofs -----------------------------
(* Theorems about Relay, for buffers, kernel queues and byte sets of any   *)
(* size and any bytes the client may have pipelined.                       *)
EXTENDS Relay, DataProofs

-----------------------------------------------------------------------------
(* The relay's inductive invariant.                                        *)

\* A direction is only taken as ended when it has, or its source was reset.
EndsAreSeen ==
  \A p \in Side : s.eof[p] /\ ~reset[p] => fin[p] /\ inq[p] = <<>>

\* A side that was shut down, or a connection that closed with no peer having
\* reset, has nothing left to forward.
ShutMeansDrained ==
  /\ \A p \in Side : s.wr_shut[Other(p)] => Drained(s, p)
  /\ s.st = "DONE" /\ (\A p \in Side : ~reset[p]) =>
       \A p \in Side : Drained(s, p)

\* A side that has ended is not read, a side with nothing for it not written.
InterestsAreDue ==
  s.st = "COPY" =>
    \A p \in Side :
      /\ "OP_READ" \in s.interest[p] => ~s.eof[p]
      /\ "OP_WRITE" \in s.interest[p] => buffer_can_read(s.buf[Other(p)])

RelayIInv ==
  /\ RelayTypeOK /\ NothingIsLost /\ EndsAreSeen /\ ShutMeansDrained
  /\ InterestsAreDue

\* A handler never takes back what it handed over or shut down.
Grows ==
  \A p \in Side : /\ Len(out[p]) <= Len(out'[p])
                  /\ s.wr_shut[p] => s'.wr_shut[p]

LEMMA Sides ==
  \A p \in Side : Other(p) \in Side /\ Other(Other(p)) = p /\ Other(p) # p
BY DEF Side, Other

(* What copy_update leaves alone, and what it establishes.                 *)
LEMMA UpdateFacts ==
  ASSUME NEW r \in ConnState
  PROVE  /\ copy_update(r) \in ConnState
         /\ copy_update(r).buf = r.buf /\ copy_update(r).eof = r.eof
         /\ copy_update(r).wr_shut =
              [p \in Side |-> r.wr_shut[p] \/ Drained(r, Other(p))]
         /\ copy_update(r).st =
              IF \A p \in Side : Drained(r, p) THEN "DONE" ELSE r.st
         /\ (\E p \in Side : ~Drained(r, p)) =>
              \A p \in Side :
                /\ "OP_READ" \in copy_update(r).interest[p] => ~r.eof[p]
                /\ "OP_WRITE" \in copy_update(r).interest[p] =>
                     buffer_can_read(r.buf[Other(p)])
<1> DEFINE w == [p \in Side |-> r.wr_shut[p] \/ Drained(r, Other(p))]
           shut == [r EXCEPT !.wr_shut = w]
           watch == [p \in Side |->
             {op \in {"OP_READ"} : ~shut.eof[p] /\ buffer_can_write(shut.buf[p])}
             \cup {op \in {"OP_WRITE"} : buffer_can_read(shut.buf[Other(p)])}]
<1>1. w \in [Side -> BOOLEAN]
  <2>1. \A p \in Side : (r.wr_shut[p] \/ Drained(r, Other(p))) \in BOOLEAN
    BY Zenon
  <2> QED
    BY <2>1
<1>2. watch \in [Side -> SUBSET {"OP_READ", "OP_WRITE"}]
  OBVIOUS
<1>3. /\ shut \in ConnState /\ shut.buf = r.buf /\ shut.eof = r.eof
      /\ shut.st = r.st /\ shut.wr_shut = w
  BY <1>1 DEF ConnState
<1>4. copy_update(r) = IF \A p \in Side : Drained(r, p)
                       THEN [shut EXCEPT !.st = "DONE"]
                       ELSE [shut EXCEPT !.interest = watch]
  BY DEF copy_update, copy_compute_interests
<1>5. \A p \in Side :
        /\ "OP_READ" \in watch[p] => ~r.eof[p]
        /\ "OP_WRITE" \in watch[p] => buffer_can_read(r.buf[Other(p)])
  BY <1>3
<1> HIDE DEF w, shut, watch
<1>6. CASE \A p \in Side : Drained(r, p)
  BY <1>3, <1>4, <1>6 DEF ConnState, w
<1>7. CASE ~ \A p \in Side : Drained(r, p)
  BY <1>2, <1>3, <1>4, <1>5, <1>7 DEF ConnState, w
<1> QED
  BY <1>6, <1>7

(* What the socket takes is a prefix of the buffer, within the room.       *)
LEMMA SendableFits ==
  ASSUME RelayTypeOK, NEW p \in Side, NEW b \in BufferOf(Byte, io_buffer_size)
  PROVE  /\ Sendable(p, b) \in 0 .. Len(b.bytes)
         /\ Len(out[p]) + Sendable(p, b) - got[p] <= SNDBUF
<1>1. /\ got[p] \in Nat /\ SNDBUF \in Nat /\ out[p] \in Seq(Byte)
      /\ got[p] <= Len(out[p]) /\ Len(out[p]) - got[p] <= SNDBUF
  BY RelayAssumption DEF RelayTypeOK
<1>2. Len(out[p]) \in Nat /\ Len(b.bytes) \in Nat
  BY <1>1, LenProperties, BufferFields, RelayAssumption
<1> QED
  BY <1>1, <1>2 DEF Sendable

(* copy_pump followed by copy_update, on the buffer that q fills.          *)
LEMMA PumpFacts ==
  ASSUME RelayIInv, s.st = "COPY",
         NEW q \in Side, NEW b \in BufferOf(Byte, io_buffer_size),
         ~s.wr_shut[Other(q)], PumpAndUpdate(q, b)
  PROVE  /\ s' \in ConnState /\ out' \in [Side -> Seq(Byte)]
         /\ out'[q] = out[q] /\ s'.buf[Other(q)] = s.buf[Other(q)]
         /\ out'[Other(q)] \o s'.buf[q].bytes = out[Other(q)] \o b.bytes
         /\ Len(out'[Other(q)]) \in Nat /\ Len(out[Other(q)]) <= Len(out'[Other(q)])
         /\ Len(out'[Other(q)]) - got[Other(q)] <= SNDBUF
         /\ s'.eof = s.eof
         /\ \A p \in Side : s.wr_shut[p] => s'.wr_shut[p]
         /\ \A p \in Side : s'.wr_shut[Other(p)] => Drained(s', p)
         /\ s'.st = "DONE" /\ (\A p \in Side : ~reset[p]) =>
              \A p \in Side : Drained(s', p)
         /\ s'.st = "COPY" =>
              \A p \in Side :
                /\ "OP_READ" \in s'.interest[p] => ~s'.eof[p]
                /\ "OP_WRITE" \in s'.interest[p] => buffer_can_read(s'.buf[Other(p)])
<1> DEFINE d == Other(q)
           k == Sendable(d, b)
<1>1. /\ d \in Side /\ d # q /\ Other(d) = q /\ Other(q) = d
      /\ Side = {d, q}
  BY Sides DEF Side, Other
<1> HIDE DEF d
<1>2. /\ s \in ConnState /\ out \in [Side -> Seq(Byte)]
      /\ out[d] \in Seq(Byte) /\ Len(out[d]) \in Nat /\ got[d] \in Nat
      /\ Len(out[d]) - got[d] <= SNDBUF /\ io_buffer_size \in Nat
      /\ \A p \in Side : s.wr_shut[Other(p)] => Drained(s, p)
      /\ ~s.wr_shut[d]
  BY <1>1, LenProperties, RelayAssumption DEF RelayIInv, RelayTypeOK, ShutMeansDrained
<1>3. CASE reset[d]
  <2>1. s' = [s EXCEPT !.buf[q] = b, !.st = "DONE"] /\ out' = out
    BY <1>1, <1>3 DEF PumpAndUpdate
  <2>2. /\ s' \in ConnState /\ s'.buf[q] = b /\ s'.buf[d] = s.buf[d]
        /\ s'.eof = s.eof /\ s'.wr_shut = s.wr_shut /\ s'.st = "DONE"
    BY <1>1, <1>2, <2>1 DEF ConnState
  <2>3. \A p \in Side : s'.wr_shut[Other(p)] => Drained(s', p)
    BY <1>1, <1>2, <2>2 DEF Drained
  <2>4. ~ \A p \in Side : ~reset[p]
    BY <1>1, <1>3
  <2>5. out'[d] \o s'.buf[q].bytes = out[d] \o b.bytes
    BY <2>1, <2>2
  <2>6. Len(out'[d]) \in Nat /\ Len(out[d]) <= Len(out'[d])
    BY <1>2, <2>1
  <2> QED
    BY <1>1, <1>2, <2>1, <2>2, <2>3, <2>4, <2>5, <2>6
<1>4. CASE ~reset[d]
  <2> DEFINE c == buffer_read_adv(b, k)
             r == [s EXCEPT !.buf[q] = c]
  <2>1. /\ out' = [out EXCEPT ![d] = @ \o SubSeq(b.bytes, 1, k)]
        /\ s' = copy_update(r)
    BY <1>1, <1>4 DEF PumpAndUpdate
  <2>2. k \in 0 .. Len(b.bytes) /\ Len(out[d]) + k - got[d] <= SNDBUF
    BY <1>1, SendableFits DEF RelayIInv
  <2> HIDE DEF k
  <2>3. /\ c \in BufferOf(Byte, io_buffer_size)
        /\ SubSeq(b.bytes, 1, k) \o c.bytes = b.bytes
        /\ SubSeq(b.bytes, 1, k) \in Seq(Byte)
        /\ Len(SubSeq(b.bytes, 1, k)) = k
    <3>1. io_buffer_size \in Nat /\ k \in 0 .. Len(b.bytes)
      BY <1>2, <2>2
    <3> QED
      BY <3>1, ReadAdvDrops, ZenonT(40)
  <2>4. c.bytes \in Seq(Byte)
    BY <1>2, <2>3, BufferFields
  <2> HIDE DEF c
  <2>5. /\ r \in ConnState /\ r.buf[q] = c /\ r.buf[d] = s.buf[d]
        /\ r.eof = s.eof /\ r.wr_shut = s.wr_shut /\ r.st = "COPY"
    BY <1>1, <1>2, <2>3 DEF ConnState
  <2> HIDE DEF r
  <2>6. /\ s' \in ConnState /\ s'.buf = r.buf /\ s'.eof = r.eof
        /\ s'.wr_shut = [p \in Side |-> r.wr_shut[p] \/ Drained(r, Other(p))]
        /\ s'.st = IF \A p \in Side : Drained(r, p) THEN "DONE" ELSE r.st
        /\ (\E p \in Side : ~Drained(r, p)) =>
             \A p \in Side :
               /\ "OP_READ" \in s'.interest[p] => ~r.eof[p]
               /\ "OP_WRITE" \in s'.interest[p] => buffer_can_read(r.buf[Other(p)])
    BY <2>1, <2>5, UpdateFacts
  <2>7. \A p \in Side : Drained(s', p) <=> Drained(r, p)
    BY <2>6 DEF Drained
  <2>8. \A p \in Side : s'.wr_shut[Other(p)] => Drained(s', p)
    <3> SUFFICES ASSUME NEW p \in Side, s'.wr_shut[Other(p)]
                 PROVE  Drained(r, p)
      BY <2>7
    <3>1. Other(p) \in Side /\ Other(Other(p)) = p
      BY Sides
    <3>2. s.wr_shut[Other(p)] \/ Drained(r, p)
      BY <2>5, <2>6, <3>1
    <3>3. CASE s.wr_shut[Other(p)]
      <4>1. p = d /\ Drained(s, p)
        BY <1>1, <1>2, <3>3
      <4> QED
        BY <4>1, <2>5 DEF Drained
    <3> QED
      BY <3>2, <3>3
  <2>9. out'[d] \o s'.buf[q].bytes = out[d] \o b.bytes
    <3>1. out'[d] = out[d] \o SubSeq(b.bytes, 1, k)
      BY <1>1, <1>2, <2>1
    <3>2. s'.buf[q].bytes = c.bytes
      BY <2>5, <2>6
    <3> DEFINE x == out[d]
               y == SubSeq(b.bytes, 1, k)
               z == c.bytes
    <3>3. x \in Seq(Byte) /\ y \in Seq(Byte) /\ z \in Seq(Byte)
      BY <1>2, <2>3, <2>4
    <3>4. /\ out'[d] \o s'.buf[q].bytes = (x \o y) \o z
          /\ out[d] \o b.bytes = x \o (y \o z)
      BY <2>3, <3>1, <3>2
    <3> HIDE DEF x, y, z
    <3>5. (x \o y) \o z = x \o (y \o z)
      BY <3>3
    <3> QED
      BY <3>4, <3>5
  <2>10. /\ out' \in [Side -> Seq(Byte)] /\ out'[q] = out[q]
         /\ Len(out'[d]) = Len(out[d]) + k
    BY <1>1, <1>2, <2>1, <2>3, ConcatProperties
  <2>11. /\ Len(out'[d]) \in Nat /\ Len(out[d]) <= Len(out'[d])
         /\ Len(out'[d]) - got[d] <= SNDBUF
    BY <1>2, <2>2, <2>10, SMTT(30)
  <2>12. s'.st = "COPY" =>
           \A p \in Side :
             /\ "OP_READ" \in s'.interest[p] => ~s'.eof[p]
             /\ "OP_WRITE" \in s'.interest[p] => buffer_can_read(s'.buf[Other(p)])
    BY <2>6
  <2>13. s'.st = "DONE" => \A p \in Side : Drained(s', p)
    BY <2>5, <2>6, <2>7
  <2>14. s'.buf[d] = s.buf[d] /\ s'.eof = s.eof /\ s' \in ConnState
    BY <2>5, <2>6
  <2>15. \A p \in Side : s.wr_shut[p] => s'.wr_shut[p]
    BY <2>5, <2>6
  <2> QED
    BY <1>1, <2>8, <2>9, <2>10, <2>11, <2>12, <2>13, <2>14, <2>15
<1> QED
  BY <1>3, <1>4

(* copy_arrival starts the relay in a state that satisfies the invariant.  *)
LEMMA InitHolds == RelayInit => RelayIInv
<1> SUFFICES ASSUME RelayInit PROVE RelayIInv
  OBVIOUS
<1>1. PICK left \in Pipelined : \E read \in 0 .. io_buffer_size - Len(left) :
        /\ sent = [p \in Side |-> IF p = "client" THEN left ELSE <<>>]
        /\ inq = [p \in Side |-> <<>>]
        /\ fin = [p \in Side |-> FALSE] /\ reset = [p \in Side |-> FALSE]
        /\ out = [p \in Side |-> <<>>] /\ got = [p \in Side |-> 0]
        /\ bytes = [p \in Side |-> 0]
        /\ s = copy_arrival(left, read)
  BY DEF RelayInit
<1>2. PICK read \in 0 .. io_buffer_size - Len(left) :
        /\ sent = [p \in Side |-> IF p = "client" THEN left ELSE <<>>]
        /\ inq = [p \in Side |-> <<>>]
        /\ fin = [p \in Side |-> FALSE] /\ reset = [p \in Side |-> FALSE]
        /\ out = [p \in Side |-> <<>>] /\ got = [p \in Side |-> 0]
        /\ bytes = [p \in Side |-> 0]
        /\ s = copy_arrival(left, read)
  BY <1>1
<1>3. /\ left \in Seq(Byte) /\ Len(left) \in Nat /\ Len(left) < io_buffer_size
      /\ io_buffer_size \in Nat /\ SNDBUF \in Nat
      /\ <<>> \in Seq(Byte) /\ Len(<<>>) = 0
  BY RelayAssumption, LenProperties, EmptySeq
<1> DEFINE cb == [size |-> io_buffer_size, read |-> read, bytes |-> left]
           ob == buffer_init(io_buffer_size)
           bufs == [p \in Side |-> IF p = "client" THEN cb ELSE ob]
           watch == [p \in Side |->
             {op \in {"OP_READ"} : ~[x \in Side |-> FALSE][p] /\ buffer_can_write(bufs[p])}
             \cup {op \in {"OP_WRITE"} : buffer_can_read(bufs[Other(p)])}]
<1>4. cb \in BufferOf(Byte, io_buffer_size) /\ ob \in BufferOf(Byte, io_buffer_size)
  <2>1. /\ cb \in [size : {io_buffer_size}, read : Nat, bytes : Seq(Byte)]
        /\ cb.read + Len(cb.bytes) <= io_buffer_size
    BY <1>2, <1>3
  <2>2. /\ ob \in [size : {io_buffer_size}, read : Nat, bytes : Seq(Byte)]
        /\ ob.read + Len(ob.bytes) <= io_buffer_size
    BY <1>3 DEF buffer_init
  <2> HIDE DEF cb, ob
  <2> QED
    BY <1>3, <2>1, <2>2, BufferIn
<1>5. bufs \in [Side -> BufferOf(Byte, io_buffer_size)]
  BY <1>4
<1>6. watch \in [Side -> SUBSET {"OP_READ", "OP_WRITE"}]
  OBVIOUS
<1>7. bufs["client"].bytes = left /\ bufs["origin"].bytes = <<>>
  BY DEF buffer_init, Side
<1>8. s = [st |-> "COPY", eof |-> [p \in Side |-> FALSE],
           wr_shut |-> [p \in Side |-> FALSE], interest |-> watch, buf |-> bufs]
  BY <1>2 DEF copy_arrival, copy_compute_interests
<1> HIDE DEF bufs, watch
<1>9. s \in ConnState
  BY <1>5, <1>6, <1>8 DEF ConnState
<1>10. RelayTypeOK
  BY <1>2, <1>3, <1>9 DEF RelayTypeOK
<1>11. NothingIsLost
  <2>1. \A q \in Seq(Byte) : <<>> \o q = q /\ q \o <<>> = q
    BY ConcatEmptySeq
  <2>2. out["origin"] \o s.buf["client"].bytes \o inq["client"] = sent["client"]
    BY <1>2, <1>3, <1>7, <1>8, <2>1 DEF Side
  <2>3. out["client"] \o s.buf["origin"].bytes \o inq["origin"] = sent["origin"]
    BY <1>2, <1>3, <1>7, <1>8, <2>1 DEF Side
  <2> QED
    BY <2>2, <2>3 DEF NothingIsLost, Side, Other
<1>12. EndsAreSeen /\ ShutMeansDrained /\ InterestsAreDue
  <2>1. \A p \in Side : "OP_WRITE" \in watch[p] => buffer_can_read(bufs[Other(p)])
    BY DEF watch
  <2> QED
    BY <1>8, <2>1, Sides DEF EndsAreSeen, ShutMeansDrained, InterestsAreDue
<1> QED
  BY <1>10, <1>11, <1>12 DEF RelayIInv

(* A step of a peer keeps the invariant.                                   *)
LEMMA PeerStep ==
  ASSUME RelayIInv, NEW p \in Side,
         PeerSends(p) \/ PeerEnds(p) \/ PeerResets(p) \/ PeerReads(p)
  PROVE  RelayIInv'
<1>1. /\ RelayTypeOK /\ NothingIsLost /\ EndsAreSeen /\ ShutMeansDrained
      /\ InterestsAreDue
  BY DEF RelayIInv
<1>2. s' = s /\ out' = out /\ bytes' = bytes
  BY DEF PeerSends, PeerEnds, PeerResets, PeerReads
<1>3. InterestsAreDue'
  BY <1>1, <1>2 DEF InterestsAreDue
<1>4. CASE PeerSends(p)
  <2>1. PICK b \in Byte : /\ sent' = [sent EXCEPT ![p] = Append(@, b)]
                          /\ inq' = [inq EXCEPT ![p] = Append(@, b)]
    BY <1>4 DEF PeerSends
  <2>2. /\ ~fin[p] /\ ~reset[p] /\ fin' = fin /\ reset' = reset /\ got' = got
    BY <1>4 DEF PeerSends
  <2>3. sent[p] \in Seq(Byte) /\ inq[p] \in Seq(Byte)
    BY <1>1 DEF RelayTypeOK
  <2>4. RelayTypeOK'
    BY <1>1, <1>2, <2>1, <2>2, <2>3, AppendProperties DEF RelayTypeOK
  <2>5. NothingIsLost'
    <3> SUFFICES ASSUME NEW q \in Side
                 PROVE  out[Other(q)] \o s.buf[q].bytes \o inq'[q] = sent'[q]
      BY <1>2 DEF NothingIsLost
    <3>1. out[Other(q)] \o s.buf[q].bytes \o inq[q] = sent[q]
      BY <1>1 DEF NothingIsLost
    <3>2. CASE q # p
      BY <1>1, <2>1, <3>1, <3>2 DEF RelayTypeOK
    <3>3. CASE q = p
      <4> DEFINE x == out[Other(q)] \o s.buf[q].bytes
      <4>1. out[Other(q)] \in Seq(Byte) /\ s.buf[q].bytes \in Seq(Byte)
        <5>1. out[Other(q)] \in Seq(Byte) /\ s.buf[q] \in BufferOf(Byte, io_buffer_size)
          BY <1>1, Sides DEF RelayTypeOK, ConnState
        <5> QED
          BY <5>1, BufferFields, RelayAssumption
      <4>2. x \in Seq(Byte)
        BY <4>1, ConcatProperties
      <4>3. inq'[q] = Append(inq[q], b) /\ sent'[q] = Append(sent[q], b)
        BY <1>1, <2>1, <3>3 DEF RelayTypeOK
      <4> HIDE DEF x
      <4>4. x \o Append(inq[q], b) = Append(x \o inq[q], b)
        BY <2>3, <3>3, <4>2
      <4> QED
        BY <3>1, <4>3, <4>4 DEF x
    <3> QED
      BY <3>2, <3>3
  <2>6. EndsAreSeen'
    BY <1>1, <1>2, <2>1, <2>2 DEF EndsAreSeen, RelayTypeOK
  <2>7. ShutMeansDrained'
    BY <1>1, <1>2, <2>2 DEF ShutMeansDrained, Drained
  <2> QED
    BY <1>3, <2>4, <2>5, <2>6, <2>7 DEF RelayIInv
<1>5. CASE PeerEnds(p)
  <2>1. /\ fin' = [fin EXCEPT ![p] = TRUE]
        /\ sent' = sent /\ inq' = inq /\ reset' = reset /\ got' = got
    BY <1>5 DEF PeerEnds
  <2>2. RelayTypeOK' /\ NothingIsLost' /\ EndsAreSeen' /\ ShutMeansDrained'
    BY <1>1, <1>2, <2>1
    DEF RelayTypeOK, NothingIsLost, EndsAreSeen, ShutMeansDrained, Drained
  <2> QED
    BY <1>3, <2>2 DEF RelayIInv
<1>6. CASE PeerResets(p)
  <2>1. /\ reset' = [reset EXCEPT ![p] = TRUE]
        /\ sent' = sent /\ inq' = inq /\ fin' = fin /\ got' = got
    BY <1>6 DEF PeerResets
  <2>2. RelayTypeOK' /\ NothingIsLost' /\ EndsAreSeen' /\ ShutMeansDrained'
    BY <1>1, <1>2, <2>1
    DEF RelayTypeOK, NothingIsLost, EndsAreSeen, ShutMeansDrained, Drained
  <2> QED
    BY <1>3, <2>2 DEF RelayIInv
<1>7. CASE PeerReads(p)
  <2>1. /\ got' = [got EXCEPT ![p] = @ + 1] /\ got[p] < Len(out[p])
        /\ sent' = sent /\ inq' = inq /\ fin' = fin /\ reset' = reset
    BY <1>7 DEF PeerReads
  <2>2. NothingIsLost' /\ EndsAreSeen' /\ ShutMeansDrained'
    BY <1>1, <1>2, <2>1 DEF NothingIsLost, EndsAreSeen, ShutMeansDrained, Drained
  <2>3. \A q \in Side : Len(out[q]) \in Nat /\ got[q] \in Nat
    BY <1>1, LenProperties DEF RelayTypeOK
  <2>4. RelayTypeOK'
    BY <1>1, <1>2, <2>1, <2>3, RelayAssumption DEF RelayTypeOK
  <2> QED
    BY <1>3, <2>2, <2>4 DEF RelayIInv
<1> QED
  BY <1>4, <1>5, <1>6, <1>7

(* A handler keeps the invariant: recv returned bytes.                     *)
LEMMA ReadDataStep ==
  ASSUME RelayIInv, NEW p \in Side, copy_read_data(p)
  PROVE  RelayIInv' /\ Grows
<1> DEFINE d == Other(p)
           n == Receivable(p)
           b == buffer_write_adv(s.buf[p], SubSeq(inq[p], 1, n))
<1>1. /\ RelayTypeOK /\ NothingIsLost /\ EndsAreSeen /\ ShutMeansDrained
      /\ InterestsAreDue
  BY DEF RelayIInv
<1>2. /\ d \in Side /\ d # p /\ Other(d) = p /\ Side = {p, d}
  BY Sides DEF Side, Other
<1>3. /\ s.st = "COPY" /\ "OP_READ" \in s.interest[p]
      /\ inq' = [inq EXCEPT ![p] = SubSeq(@, n + 1, Len(@))]
      /\ bytes' = [bytes EXCEPT ![p] = @ + n]
      /\ PumpAndUpdate(p, b)
      /\ sent' = sent /\ fin' = fin /\ reset' = reset /\ got' = got
  BY DEF copy_read_data, peerVars
<1>4. /\ inq[p] \in Seq(Byte) /\ Len(inq[p]) \in Nat /\ io_buffer_size \in Nat
      /\ s.buf[p] \in BufferOf(Byte, io_buffer_size)
  BY <1>1, LenProperties, RelayAssumption DEF RelayTypeOK, ConnState
<1>5. /\ WriteSpace(s.buf[p]) \in Nat /\ s.buf[p].bytes \in Seq(Byte)
  BY <1>4, BufferFields
<1>6. n \in 0 .. Len(inq[p]) /\ n <= WriteSpace(s.buf[p])
  BY <1>4, <1>5 DEF Receivable
<1> HIDE DEF n, d
<1>7. /\ SubSeq(inq[p], 1, n) \in Seq(Byte) /\ Len(SubSeq(inq[p], 1, n)) = n
      /\ SubSeq(inq[p], n + 1, Len(inq[p])) \in Seq(Byte)
      /\ SubSeq(inq[p], 1, n) \o SubSeq(inq[p], n + 1, Len(inq[p])) = inq[p]
  BY <1>4, <1>6, CutSeq
<1>8. /\ b \in BufferOf(Byte, io_buffer_size)
      /\ b.bytes = s.buf[p].bytes \o SubSeq(inq[p], 1, n)
  <2>1. Len(SubSeq(inq[p], 1, n)) <= WriteSpace(s.buf[p])
    BY <1>6, <1>7
  <2>2. io_buffer_size \in Nat /\ SubSeq(inq[p], 1, n) \in Seq(Byte)
    BY <1>4, <1>7
  <2> QED
    BY <1>4, <2>1, <2>2, WriteAdvFits, ZenonT(40)
<1> HIDE DEF b
<1>9. ~s.eof[p]
  BY <1>1, <1>3 DEF InterestsAreDue
<1>10. ~s.wr_shut[d]
  BY <1>1, <1>2, <1>9 DEF ShutMeansDrained, Drained, d
<1>11. /\ s' \in ConnState /\ out' \in [Side -> Seq(Byte)]
       /\ out'[p] = out[p] /\ s'.buf[d] = s.buf[d]
       /\ out'[d] \o s'.buf[p].bytes = out[d] \o b.bytes
       /\ Len(out'[d]) \in Nat /\ Len(out[d]) <= Len(out'[d])
       /\ Len(out'[d]) - got[d] <= SNDBUF
       /\ s'.eof = s.eof
       /\ \A q \in Side : s.wr_shut[q] => s'.wr_shut[q]
       /\ \A q \in Side : s'.wr_shut[Other(q)] => Drained(s', q)
       /\ s'.st = "DONE" /\ (\A q \in Side : ~reset[q]) =>
            \A q \in Side : Drained(s', q)
       /\ s'.st = "COPY" =>
            \A q \in Side :
              /\ "OP_READ" \in s'.interest[q] => ~s'.eof[q]
              /\ "OP_WRITE" \in s'.interest[q] => buffer_can_read(s'.buf[Other(q)])
  BY <1>3, <1>8, <1>10, PumpFacts DEF d
<1>12. /\ inq' \in [Side -> Seq(Byte)] /\ inq'[d] = inq[d]
       /\ inq'[p] = SubSeq(inq[p], n + 1, Len(inq[p]))
  BY <1>1, <1>2, <1>3, <1>7 DEF RelayTypeOK
<1>13. RelayTypeOK'
  <2>1. bytes' \in [Side -> Nat]
    BY <1>1, <1>3, <1>4, <1>6 DEF RelayTypeOK
  <2>2. \A q \in Side : got[q] <= Len(out'[q]) /\ Len(out'[q]) - got[q] <= SNDBUF
    <3>1. /\ got[d] \in Nat /\ Len(out[d]) \in Nat /\ got[d] <= Len(out[d])
      BY <1>1, <1>2, LenProperties DEF RelayTypeOK
    <3>2. got[d] <= Len(out'[d]) /\ Len(out'[d]) - got[d] <= SNDBUF
      BY <1>11, <3>1
    <3>3. got[p] <= Len(out'[p]) /\ Len(out'[p]) - got[p] <= SNDBUF
      BY <1>1, <1>11 DEF RelayTypeOK
    <3> QED
      BY <1>2, <3>2, <3>3
  <2> QED
    BY <1>1, <1>3, <1>11, <1>12, <2>1, <2>2 DEF RelayTypeOK
<1>14. NothingIsLost'
  <2>1. out'[d] \o s'.buf[p].bytes \o inq'[p] = sent'[p]
    <3> DEFINE x == out[d]
               y == s.buf[p].bytes
               u == SubSeq(inq[p], 1, n)
               v == SubSeq(inq[p], n + 1, Len(inq[p]))
    <3>1. x \in Seq(Byte) /\ y \in Seq(Byte) /\ u \in Seq(Byte) /\ v \in Seq(Byte)
      BY <1>1, <1>2, <1>5, <1>7 DEF RelayTypeOK
    <3>2. (x \o y) \o (u \o v) = sent[p]
      BY <1>1, <1>7 DEF NothingIsLost, d
    <3>3. out'[d] \o s'.buf[p].bytes \o inq'[p] = (x \o (y \o u)) \o v
      BY <1>8, <1>11, <1>12
    <3> HIDE DEF x, y, u, v
    <3>4. (x \o (y \o u)) \o v = (x \o y) \o (u \o v)
      BY <3>1, SMTT(40)
    <3> QED
      BY <1>3, <3>2, <3>3, <3>4
  <2>2. out'[p] \o s'.buf[d].bytes \o inq'[d] = sent'[d]
    BY <1>1, <1>2, <1>3, <1>11, <1>12 DEF NothingIsLost
  <2> QED
    BY <1>2, <2>1, <2>2 DEF NothingIsLost, d
<1>15. EndsAreSeen'
  BY <1>1, <1>2, <1>3, <1>9, <1>11, <1>12 DEF EndsAreSeen
<1>16. ShutMeansDrained' /\ InterestsAreDue'
  BY <1>3, <1>11 DEF ShutMeansDrained, InterestsAreDue, Drained
<1>17. Grows
  <2>1. Len(out[p]) <= Len(out'[p])
    BY <1>1, <1>11, LenProperties DEF RelayTypeOK
  <2> QED
    BY <1>2, <1>11, <2>1 DEF Grows
<1> QED
  BY <1>13, <1>14, <1>15, <1>16, <1>17 DEF RelayIInv

(* A handler keeps the invariant: a descriptor was writable.               *)
LEMMA WriteStep ==
  ASSUME RelayIInv, NEW d \in Side, copy_write(d)
  PROVE  RelayIInv' /\ Grows
<1> DEFINE p == Other(d)
           b == s.buf[p]
<1>1. /\ RelayTypeOK /\ NothingIsLost /\ EndsAreSeen /\ ShutMeansDrained
      /\ InterestsAreDue
  BY DEF RelayIInv
<1>2. /\ p \in Side /\ d # p /\ Other(p) = d /\ Side = {p, d}
  BY Sides DEF Side, Other
<1>3. /\ s.st = "COPY" /\ inq' = inq /\ bytes' = bytes /\ PumpAndUpdate(p, b)
      /\ sent' = sent /\ fin' = fin /\ reset' = reset /\ got' = got
  BY DEF copy_write, peerVars
<1>4. b \in BufferOf(Byte, io_buffer_size)
  BY <1>1, <1>2 DEF RelayTypeOK, ConnState
<1>5. buffer_can_read(b)
  BY <1>1 DEF InterestsAreDue, copy_write
<1>6. ~s.wr_shut[d]
  BY <1>1, <1>2, <1>5 DEF ShutMeansDrained, Drained
<1> HIDE DEF p, b
<1>7. /\ s' \in ConnState /\ out' \in [Side -> Seq(Byte)]
      /\ out'[p] = out[p] /\ s'.buf[d] = s.buf[d]
      /\ out'[d] \o s'.buf[p].bytes = out[d] \o b.bytes
      /\ Len(out'[d]) \in Nat /\ Len(out[d]) <= Len(out'[d])
      /\ Len(out'[d]) - got[d] <= SNDBUF
      /\ s'.eof = s.eof
      /\ \A q \in Side : s.wr_shut[q] => s'.wr_shut[q]
      /\ \A q \in Side : s'.wr_shut[Other(q)] => Drained(s', q)
      /\ s'.st = "DONE" /\ (\A q \in Side : ~reset[q]) =>
           \A q \in Side : Drained(s', q)
      /\ s'.st = "COPY" =>
           \A q \in Side :
             /\ "OP_READ" \in s'.interest[q] => ~s'.eof[q]
             /\ "OP_WRITE" \in s'.interest[q] => buffer_can_read(s'.buf[Other(q)])
  BY <1>2, <1>3, <1>4, <1>6, PumpFacts
<1>8. RelayTypeOK'
  <2>1. /\ got[d] \in Nat /\ Len(out[d]) \in Nat /\ got[d] <= Len(out[d])
    BY <1>1, <1>2, LenProperties DEF RelayTypeOK
  <2>2. got[d] <= Len(out'[d]) /\ Len(out'[d]) - got[d] <= SNDBUF
    BY <1>7, <2>1
  <2>3. got[p] <= Len(out'[p]) /\ Len(out'[p]) - got[p] <= SNDBUF
    BY <1>1, <1>2, <1>7 DEF RelayTypeOK
  <2>4. \A q \in Side : got[q] <= Len(out'[q]) /\ Len(out'[q]) - got[q] <= SNDBUF
    BY <1>2, <2>2, <2>3
  <2> QED
    BY <1>1, <1>3, <1>7, <2>4 DEF RelayTypeOK
<1>9. NothingIsLost'
  <2>1. out'[d] \o s'.buf[p].bytes \o inq'[p] = sent'[p]
    BY <1>1, <1>2, <1>3, <1>7 DEF NothingIsLost, b
  <2>2. out'[p] \o s'.buf[d].bytes \o inq'[d] = sent'[d]
    BY <1>1, <1>2, <1>3, <1>7 DEF NothingIsLost, p
  <2> QED
    BY <1>2, <2>1, <2>2 DEF NothingIsLost, p
<1>10. EndsAreSeen' /\ ShutMeansDrained' /\ InterestsAreDue'
  BY <1>1, <1>3, <1>7 DEF EndsAreSeen, ShutMeansDrained, InterestsAreDue, Drained
<1>11. Grows
  <2>1. Len(out[p]) <= Len(out'[p])
    BY <1>1, <1>2, <1>7, LenProperties DEF RelayTypeOK
  <2> QED
    BY <1>2, <1>7, <2>1 DEF Grows
<1> QED
  BY <1>8, <1>9, <1>10, <1>11 DEF RelayIInv

(* A handler keeps the invariant: recv returned 0 or failed.               *)
LEMMA ReadEndStep ==
  ASSUME RelayIInv, NEW p \in Side, copy_read_end(p)
  PROVE  RelayIInv' /\ Grows
<1> DEFINE r == [s EXCEPT !.eof[p] = TRUE]
<1>1. /\ RelayTypeOK /\ NothingIsLost /\ EndsAreSeen /\ ShutMeansDrained
      /\ InterestsAreDue
  BY DEF RelayIInv
<1>2. /\ s.st = "COPY" /\ s' = copy_update(r)
      /\ reset[p] \/ (fin[p] /\ inq[p] = <<>>)
      /\ sent' = sent /\ fin' = fin /\ reset' = reset /\ got' = got
      /\ inq' = inq /\ out' = out /\ bytes' = bytes
  BY DEF copy_read_end, peerVars
<1>3. /\ r \in ConnState /\ r.buf = s.buf /\ r.wr_shut = s.wr_shut
      /\ r.st = "COPY" /\ r.eof = [s.eof EXCEPT ![p] = TRUE]
  BY <1>1, <1>2 DEF RelayTypeOK, ConnState
<1>4. s.eof \in [Side -> BOOLEAN]
  BY <1>1 DEF RelayTypeOK, ConnState
<1> HIDE DEF r
<1>5. /\ s' \in ConnState /\ s'.buf = r.buf /\ s'.eof = r.eof
      /\ s'.wr_shut = [q \in Side |-> r.wr_shut[q] \/ Drained(r, Other(q))]
      /\ s'.st = IF \A q \in Side : Drained(r, q) THEN "DONE" ELSE r.st
      /\ (\E q \in Side : ~Drained(r, q)) =>
           \A q \in Side :
             /\ "OP_READ" \in s'.interest[q] => ~r.eof[q]
             /\ "OP_WRITE" \in s'.interest[q] => buffer_can_read(r.buf[Other(q)])
  BY <1>2, <1>3, UpdateFacts
<1>6. RelayTypeOK'
  BY <1>1, <1>2, <1>5 DEF RelayTypeOK
<1>7. NothingIsLost'
  <2>1. s'.buf = s.buf /\ out' = out /\ inq' = inq /\ sent' = sent
    BY <1>2, <1>3, <1>5
  <2> QED
    BY <1>1, <2>1 DEF NothingIsLost
<1>8. EndsAreSeen'
  BY <1>1, <1>2, <1>3, <1>4, <1>5 DEF EndsAreSeen
<1>9. \A q \in Side : Drained(s', q) <=> Drained(r, q)
  BY <1>5 DEF Drained
<1>10. \A q \in Side : s'.wr_shut[Other(q)] => Drained(s', q)
  <2> SUFFICES ASSUME NEW q \in Side, s'.wr_shut[Other(q)]
               PROVE  Drained(r, q)
    BY <1>9
  <2>1. Other(q) \in Side /\ Other(Other(q)) = q
    BY Sides
  <2>2. s.wr_shut[Other(q)] \/ Drained(r, q)
    BY <1>3, <1>5, <2>1
  <2>3. Drained(s, q) => Drained(r, q)
    BY <1>3, <1>4 DEF Drained
  <2> QED
    BY <1>1, <2>2, <2>3 DEF ShutMeansDrained
<1>11. ShutMeansDrained'
  BY <1>3, <1>5, <1>9, <1>10 DEF ShutMeansDrained, Drained
<1>12. InterestsAreDue'
  BY <1>3, <1>5 DEF InterestsAreDue
<1>13. Grows
  <2>1. \A q \in Side : Len(out[q]) <= Len(out'[q])
    BY <1>1, <1>2, LenProperties DEF RelayTypeOK
  <2> QED
    BY <1>3, <1>5, <2>1 DEF Grows
<1> QED
  BY <1>6, <1>7, <1>8, <1>11, <1>12, <1>13 DEF RelayIInv

LEMMA Inductive == RelayIInv /\ [RelayNext]_relayVars => RelayIInv'
<1> SUFFICES ASSUME RelayIInv, [RelayNext]_relayVars PROVE RelayIInv'
  OBVIOUS
<1>1. CASE RelayNext
  <2> PICK p \in Side :
        \/ copy_read_data(p) \/ copy_read_end(p) \/ copy_write(p)
        \/ PeerSends(p) \/ PeerEnds(p) \/ PeerResets(p) \/ PeerReads(p)
    BY <1>1 DEF RelayNext
  <2> QED
    BY ReadDataStep, ReadEndStep, WriteStep, PeerStep
<1>2. CASE UNCHANGED relayVars
  BY <1>2 DEF relayVars, RelayIInv, RelayTypeOK, NothingIsLost, EndsAreSeen,
              ShutMeansDrained, InterestsAreDue, Drained
<1> QED
  BY <1>1, <1>2

THEOREM RelayInvariant == RelaySpec => []RelayIInv
BY InitHolds, Inductive, PTL DEF RelaySpec

-----------------------------------------------------------------------------
(* The properties.                                                         *)

(* The relay never moves a buffer's pointers out of their order, whatever  *)
(* recv and send return (the asserts of src/buffer.c).                     *)
THEOREM RelayTypeCorrect == RelaySpec => []RelayTypeOK
<1>1. RelayIInv => RelayTypeOK
  BY DEF RelayIInv
<1> QED
  BY <1>1, RelayInvariant, PTL

(* Bytes pass the relay in order and none is lost or repeated, for buffers *)
(* and kernel queues of any size.                                          *)
THEOREM RelayLosesNothing == RelaySpec => []NothingIsLost
<1>1. RelayIInv => NothingIsLost
  BY DEF RelayIInv
<1> QED
  BY <1>1, RelayInvariant, PTL

\* A drained direction whose source was not reset was forwarded in full.
DrainedIsForwarded ==
  \A p \in Side : ~reset[p] /\ Drained(s, p) => fin[p] /\ out[Other(p)] = sent[p]

LEMMA IInvDrained == RelayIInv => DrainedIsForwarded
<1> SUFFICES ASSUME RelayIInv, NEW p \in Side, ~reset[p], Drained(s, p)
             PROVE  fin[p] /\ out[Other(p)] = sent[p]
  BY DEF DrainedIsForwarded
<1>1. fin[p] /\ inq[p] = <<>>
  BY DEF RelayIInv, EndsAreSeen, Drained
<1>2. s.buf[p] \in BufferOf(Byte, io_buffer_size) /\ out[Other(p)] \in Seq(Byte)
  BY Sides DEF RelayIInv, RelayTypeOK, ConnState
<1>3. s.buf[p].bytes = <<>>
  BY <1>2, BufferFields, RelayAssumption DEF Drained
<1>4. out[Other(p)] \o <<>> \o <<>> = sent[p]
  BY <1>1, <1>3 DEF RelayIInv, NothingIsLost
<1> QED
  BY <1>1, <1>2, <1>4, ConcatEmptySeq

(* A half-close is forwarded only behind the last byte.                    *)
THEOREM EndComesLast == RelaySpec => []EndIsForwardedLast
<1>1. RelayIInv => EndIsForwardedLast
  BY IInvDrained
  DEF DrainedIsForwarded, EndIsForwardedLast, RelayIInv, ShutMeansDrained
<1> QED
  BY <1>1, RelayInvariant, PTL

(* Without a reset a connection closes only once both directions ended.    *)
THEOREM ClosesInOrder == RelaySpec => []ClosedOnlyWhenBothEnded
<1>1. RelayIInv => ClosedOnlyWhenBothEnded
  BY IInvDrained
  DEF DrainedIsForwarded, ClosedOnlyWhenBothEnded, RelayIInv, ShutMeansDrained
<1> QED
  BY <1>1, RelayInvariant, PTL

-----------------------------------------------------------------------------
(* The refinement.                                                         *)

\* A step of the abstract stream of what p sends, or none.
StreamStep(p) ==
  \/ /\ Phase(p) \in {"open", "reset"}
     /\ \E b \in Byte : sent'[p] = Append(sent[p], b)
     /\ out'[Other(p)] = out[Other(p)] /\ Phase(p)' = Phase(p)
  \/ /\ Phase(p) \in {"open", "closed", "reset"}
     /\ \E n \in Len(out[Other(p)]) .. Len(sent[p]) :
          out'[Other(p)] = SubSeq(sent[p], 1, n)
     /\ sent'[p] = sent[p] /\ Phase(p)' = Phase(p)
  \/ /\ Phase(p) = "open" /\ Phase(p)' = "closed"
     /\ sent'[p] = sent[p] /\ out'[Other(p)] = out[Other(p)]
  \/ /\ Phase(p) = "closed" /\ Phase(p)' = "ended"
     /\ out'[Other(p)] = sent[p] /\ sent'[p] = sent[p]
  \/ /\ Phase(p)' = "reset"
     /\ sent'[p] = sent[p] /\ out'[Other(p)] = out[Other(p)]
  \/ /\ Phase(p)' = Phase(p)
     /\ sent'[p] = sent[p] /\ out'[Other(p)] = out[Other(p)]

\* What was handed over is a prefix of what was written.
OutIsPrefix ==
  \A p \in Side :
    /\ Len(out[Other(p)]) \in Nat /\ Len(sent[p]) \in Nat
    /\ Len(out[Other(p)]) <= Len(sent[p])
    /\ out[Other(p)] = SubSeq(sent[p], 1, Len(out[Other(p)]))

LEMMA IInvPrefix == RelayIInv => OutIsPrefix
<1> SUFFICES ASSUME RelayIInv, NEW p \in Side
             PROVE  /\ Len(out[Other(p)]) \in Nat /\ Len(sent[p]) \in Nat
                    /\ Len(out[Other(p)]) <= Len(sent[p])
                    /\ out[Other(p)] = SubSeq(sent[p], 1, Len(out[Other(p)]))
  BY DEF OutIsPrefix
<1> DEFINE x == out[Other(p)]
           y == s.buf[p].bytes
           z == inq[p]
<1>1. s.buf[p] \in BufferOf(Byte, io_buffer_size) /\ io_buffer_size \in Nat
  BY RelayAssumption DEF RelayIInv, RelayTypeOK, ConnState
<1>2. x \in Seq(Byte) /\ y \in Seq(Byte) /\ z \in Seq(Byte)
  BY <1>1, BufferFields, Sides DEF RelayIInv, RelayTypeOK
<1>3. sent[p] = (x \o y) \o z
  BY DEF RelayIInv, NothingIsLost
<1> HIDE DEF x, y, z
<1>4. /\ (x \o y) \o z = x \o (y \o z) /\ y \o z \in Seq(Byte)
  BY <1>2
<1> DEFINE v == y \o z
<1> HIDE DEF v
<1>5. sent[p] = x \o v /\ v \in Seq(Byte)
  BY <1>3, <1>4 DEF v
<1>6. /\ Len(x) \in Nat /\ Len(x \o v) \in Nat /\ Len(x) <= Len(x \o v)
      /\ x = SubSeq(x \o v, 1, Len(x))
  BY <1>2, <1>5
<1> QED
  BY <1>5, <1>6 DEF x

(* A step of a handler delivers a little more, or tells the reader the end. *)
LEMMA HandlerStreamStep ==
  ASSUME RelayIInv, RelayIInv', Grows, NEW p \in Side,
         sent' = sent, fin' = fin, reset' = reset
  PROVE  StreamStep(p)
<1> DEFINE d == Other(p)
<1>1. d \in Side
  BY Sides
<1>2. /\ Len(out[d]) \in Nat /\ Len(out'[d]) \in Nat /\ Len(sent[p]) \in Nat
      /\ Len(out[d]) <= Len(out'[d]) /\ Len(out'[d]) <= Len(sent[p])
      /\ out'[d] = SubSeq(sent[p], 1, Len(out'[d]))
  <2>1. OutIsPrefix /\ OutIsPrefix'
    BY IInvPrefix, PTL
  <2> QED
    BY <1>1, <2>1 DEF OutIsPrefix, Grows
<1>3. \E n \in Len(out[d]) .. Len(sent[p]) : out'[d] = SubSeq(sent[p], 1, n)
  BY <1>2
<1>4. s.wr_shut[d] => s'.wr_shut[d]
  BY <1>1 DEF Grows
<1>5. CASE \E q \in Side : reset[q]
  BY <1>3, <1>5 DEF StreamStep, Phase
<1>6. CASE ~(\E q \in Side : reset[q]) /\ ~s'.wr_shut[d]
  BY <1>3, <1>4, <1>6 DEF StreamStep, Phase
<1>7. CASE ~(\E q \in Side : reset[q]) /\ s'.wr_shut[d]
  <2>1. fin[p] /\ out'[d] = sent[p]
    <3>1. ~reset'[p] /\ Drained(s, p)'
      BY <1>7 DEF RelayIInv, ShutMeansDrained
    <3>2. DrainedIsForwarded'
      BY IInvDrained, PTL
    <3> QED
      BY <3>1, <3>2 DEF DrainedIsForwarded
  <2>2. CASE ~s.wr_shut[d]
    BY <1>7, <2>1, <2>2 DEF StreamStep, Phase
  <2>3. CASE s.wr_shut[d]
    <3>1. Drained(s, p) /\ ~reset[p]
      BY <1>7, <2>3 DEF RelayIInv, ShutMeansDrained
    <3>2. out[d] = sent[p]
      BY <3>1, IInvDrained DEF DrainedIsForwarded
    <3> QED
      BY <1>7, <2>1, <2>3, <3>2 DEF StreamStep, Phase
  <2> QED
    BY <2>2, <2>3
<1> QED
  BY <1>5, <1>6, <1>7

(* A step of a peer writes, closes, resets, or is not seen by the stream.  *)
LEMMA PeerStreamStep ==
  ASSUME RelayIInv, NEW p \in Side, NEW q \in Side,
         PeerSends(q) \/ PeerEnds(q) \/ PeerResets(q) \/ PeerReads(q)
  PROVE  StreamStep(p)
<1>1. /\ s' = s /\ out' = out /\ sent \in [Side -> Seq(Byte)]
      /\ fin \in [Side -> BOOLEAN] /\ reset \in [Side -> BOOLEAN]
  BY DEF PeerSends, PeerEnds, PeerResets, PeerReads, RelayIInv, RelayTypeOK
<1>2. ~reset[p] /\ s.wr_shut[Other(p)] => fin[p]
  BY IInvDrained DEF DrainedIsForwarded, RelayIInv, ShutMeansDrained
<1>3. CASE PeerSends(q) /\ q = p
  <2>1. PICK b \in Byte : sent' = [sent EXCEPT ![p] = Append(@, b)]
    BY <1>3 DEF PeerSends
  <2>2. ~fin[p] /\ fin' = fin /\ reset' = reset /\ ~reset[p]
    BY <1>3 DEF PeerSends
  <2>3. Phase(p) \in {"open", "reset"} /\ Phase(p)' = Phase(p)
    BY <1>1, <1>2, <2>2 DEF Phase
  <2>4. sent'[p] = Append(sent[p], b)
    BY <1>1, <2>1
  <2> QED
    BY <1>1, <2>3, <2>4 DEF StreamStep
<1>4. CASE PeerEnds(q) /\ q = p
  <2>1. /\ fin' = [fin EXCEPT ![p] = TRUE] /\ ~fin[p] /\ ~reset[p]
        /\ reset' = reset /\ sent' = sent
    BY <1>4 DEF PeerEnds
  <2>2. \/ Phase(p) = "open" /\ Phase(p)' = "closed"
        \/ Phase(p)' = Phase(p)
    BY <1>1, <1>2, <2>1 DEF Phase
  <2> QED
    BY <1>1, <2>1, <2>2 DEF StreamStep
<1>5. CASE PeerResets(q)
  <2>1. Phase(p)' = "reset" /\ sent' = sent
    BY <1>1, <1>5 DEF Phase, PeerResets
  <2> QED
    BY <1>1, <2>1 DEF StreamStep
<1>6. CASE PeerReads(q) \/ ((PeerSends(q) \/ PeerEnds(q)) /\ q # p)
  <2>1. reset' = reset /\ fin'[p] = fin[p] /\ sent'[p] = sent[p]
    BY <1>1, <1>6 DEF PeerSends, PeerEnds, PeerReads
  <2>2. Phase(p)' = Phase(p)
    BY <1>1, <2>1 DEF Phase
  <2> QED
    BY <1>1, <2>1, <2>2 DEF StreamStep
<1> QED
  BY <1>3, <1>4, <1>5, <1>6

LEMMA StepRefines ==
  ASSUME RelayIInv, RelayIInv', [RelayNext]_relayVars, NEW p \in Side
  PROVE  StreamStep(p)
<1>1. CASE RelayNext
  <2>1. PICK q \in Side :
          \/ copy_read_data(q) \/ copy_read_end(q) \/ copy_write(q)
          \/ PeerSends(q) \/ PeerEnds(q) \/ PeerResets(q) \/ PeerReads(q)
    BY <1>1 DEF RelayNext
  <2>2. CASE copy_read_data(q) \/ copy_read_end(q) \/ copy_write(q)
    <3>1. Grows
      BY <2>2, ReadDataStep, ReadEndStep, WriteStep
    <3>2. sent' = sent /\ fin' = fin /\ reset' = reset
      BY <2>2 DEF copy_read_data, copy_read_end, copy_write, peerVars
    <3> QED
      BY <3>1, <3>2, HandlerStreamStep
  <2>3. CASE PeerSends(q) \/ PeerEnds(q) \/ PeerResets(q) \/ PeerReads(q)
    BY <2>3, PeerStreamStep
  <2> QED
    BY <2>1, <2>2, <2>3
<1>2. CASE UNCHANGED relayVars
  BY <1>2 DEF relayVars, StreamStep, Phase
<1> QED
  BY <1>1, <1>2

(* Forwarding from the client implements the abstract byte stream.         *)
THEOREM UploadRefinesStream == RelaySpec => UploadIsAStream
<1>1. RelayInit => Upload!StreamInit
  <2> SUFFICES ASSUME RelayInit PROVE Upload!StreamInit
    OBVIOUS
  <2>1. PICK left \in Pipelined :
          /\ sent = [p \in Side |-> IF p = "client" THEN left ELSE <<>>]
          /\ fin = [p \in Side |-> FALSE] /\ reset = [p \in Side |-> FALSE]
          /\ out = [p \in Side |-> <<>>]
          /\ \E read \in 0 .. io_buffer_size - Len(left) : s = copy_arrival(left, read)
    BY DEF RelayInit
  <2>2. s.wr_shut = [p \in Side |-> FALSE]
    BY <2>1 DEF copy_arrival, copy_compute_interests
  <2>3. Phase("client") = "open"
    BY <2>1, <2>2 DEF Phase, Side, Other
  <2> QED
    BY <2>1, <2>3 DEF Upload!StreamInit, Side
<1>2. RelayIInv /\ RelayIInv' /\ [RelayNext]_relayVars
        => [Upload!StreamNext]_(Upload!streamVars)
  <2> SUFFICES ASSUME RelayIInv, RelayIInv', [RelayNext]_relayVars
               PROVE  Upload!StreamNext \/ UNCHANGED Upload!streamVars
    OBVIOUS
  <2>1. StreamStep("client")
    BY StepRefines DEF Side
  <2>2. Other("client") = "origin"
    BY DEF Other
  <2> QED
    BY <2>1, <2>2
    DEF StreamStep, Upload!StreamNext, Upload!Write, Upload!Deliver,
        Upload!WriterCloses, Upload!ReaderSeesEnd, Upload!Reset, Upload!streamVars
<1> QED
  BY <1>1, <1>2, RelayInvariant, PTL DEF RelaySpec, UploadIsAStream, Upload!StreamSpec

(* And so does forwarding from the origin.                                 *)
THEOREM DownloadRefinesStream == RelaySpec => DownloadIsAStream
<1>1. RelayInit => Download!StreamInit
  <2> SUFFICES ASSUME RelayInit PROVE Download!StreamInit
    OBVIOUS
  <2>1. PICK left \in Pipelined :
          /\ sent = [p \in Side |-> IF p = "client" THEN left ELSE <<>>]
          /\ fin = [p \in Side |-> FALSE] /\ reset = [p \in Side |-> FALSE]
          /\ out = [p \in Side |-> <<>>]
          /\ \E read \in 0 .. io_buffer_size - Len(left) : s = copy_arrival(left, read)
    BY DEF RelayInit
  <2>2. s.wr_shut = [p \in Side |-> FALSE]
    BY <2>1 DEF copy_arrival, copy_compute_interests
  <2>3. Phase("origin") = "open"
    BY <2>1, <2>2 DEF Phase, Side, Other
  <2> QED
    BY <2>1, <2>3 DEF Download!StreamInit, Side
<1>2. RelayIInv /\ RelayIInv' /\ [RelayNext]_relayVars
        => [Download!StreamNext]_(Download!streamVars)
  <2> SUFFICES ASSUME RelayIInv, RelayIInv', [RelayNext]_relayVars
               PROVE  Download!StreamNext \/ UNCHANGED Download!streamVars
    OBVIOUS
  <2>1. StreamStep("origin")
    BY StepRefines DEF Side
  <2>2. Other("origin") = "client"
    BY DEF Other
  <2> QED
    BY <2>1, <2>2
    DEF StreamStep, Download!StreamNext, Download!Write, Download!Deliver,
        Download!WriterCloses, Download!ReaderSeesEnd, Download!Reset,
        Download!streamVars
<1> QED
  BY <1>1, <1>2, RelayInvariant, PTL
  DEF RelaySpec, DownloadIsAStream, Download!StreamSpec

(* The relay of src/socks5.c implements two byte streams, one each way.    *)
THEOREM RelayRefinesStreams == RelaySpec => BothAreStreams
BY UploadRefinesStream, DownloadRefinesStream, PTL DEF BothAreStreams
=============================================================================
