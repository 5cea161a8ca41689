------------------------------- MODULE Relay --------------------------------
(***************************************************************************)
(* The COPY state of one connection of src/socks5.c, byte by byte: two     *)
(* bounded buffers, one for each direction, between the client and the     *)
(* origin.  A side names both a peer and the direction of what it sends:   *)
(* buf["client"] is read_buffer, buf["origin"] is write_buffer.            *)
(*                                                                         *)
(* The peers write, stop writing, reset and read at any time.  recv takes  *)
(* all that fits, send all there is room for.  A recv or send that only    *)
(* answers EAGAIN changes nothing and is left out.                         *)
(***************************************************************************)
EXTENDS Buffer

CONSTANTS
  Byte,
  io_buffer_size,  \* the size of each buffer
  SNDBUF,          \* how many bytes the kernel keeps for a peer to read
  Pipelined,       \* what clients send on the heels of their request
  MaxSent          \* bound: how many bytes a peer sends in all

ASSUME RelayAssumption ==
  /\ io_buffer_size \in Nat \ {0} /\ SNDBUF \in Nat \ {0} /\ MaxSent \in Nat
  /\ Pipelined \subseteq {q \in Seq(Byte) : Len(q) < io_buffer_size}

Side == {"client", "origin"}
Other(p) == IF p = "client" THEN "origin" ELSE "client"

VARIABLES
  sent,    \* what each peer wrote
  inq,     \* what of it the proxy has not received
  fin,     \* whether the peer ended its side after that
  reset,   \* whether the peer reset its connection
  out,     \* what the proxy handed to the socket of each peer
  got,     \* how much of it the peer has read
  s,       \* the fields of struct socks5 the relay uses
  bytes    \* bytes_sent and bytes_received of the metrics, by source

relayVars == <<sent, inq, fin, reset, out, got, s, bytes>>
peerVars  == <<sent, fin, reset, got>>

ConnState ==
  [st : {"COPY", "DONE"}, buf : [Side -> BufferOf(Byte, io_buffer_size)],
   eof : [Side -> BOOLEAN], wr_shut : [Side -> BOOLEAN],
   interest : [Side -> SUBSET {"OP_READ", "OP_WRITE"}]]

-----------------------------------------------------------------------------
(* Mutants.                                                                *)

\* Mutant: neither direction is read while the other has bytes to write.
copy_compute_interests_OneAtATime(r) ==
  [r EXCEPT !.interest =
     [p \in Side |->
        {op \in {"OP_READ"} : ~r.eof[p] /\ buffer_can_write(r.buf[p])
                                /\ ~buffer_can_read(r.buf[Other(p)])}
        \cup {op \in {"OP_WRITE"} : buffer_can_read(r.buf[Other(p)])}]]

\* Mutant: a direction has ended as soon as its source has.
Drained_Ignored(r, p) == r.eof[p]

-----------------------------------------------------------------------------
(* The helpers of the relay.                                               *)

copy_compute_interests(r) ==
  [r EXCEPT !.interest =
     [p \in Side |->
        {op \in {"OP_READ"} : ~r.eof[p] /\ buffer_can_write(r.buf[p])}
        \cup {op \in {"OP_WRITE"} : buffer_can_read(r.buf[Other(p)])}]]

\* A direction that has ended and been drained.
Drained(r, p) == r.eof[p] /\ ~buffer_can_read(r.buf[p])

\* Mutant: the connection is closed once one direction has ended.
copy_update_FirstEnd(r) ==
  LET shut == [r EXCEPT !.wr_shut =
                 [p \in Side |-> r.wr_shut[p] \/ Drained(r, Other(p))]]
  IN  IF \E p \in Side : Drained(r, p)
      THEN [shut EXCEPT !.st = "DONE"]
      ELSE copy_compute_interests(shut)

copy_update(r) ==
  LET shut == [r EXCEPT !.wr_shut =
                 [p \in Side |-> r.wr_shut[p] \/ Drained(r, Other(p))]]
  IN  IF \A p \in Side : Drained(r, p)
      THEN [shut EXCEPT !.st = "DONE"]
      ELSE copy_compute_interests(shut)

\* How much of b the socket of p takes: all there is room for.
Sendable(p, b) ==
  LET room == SNDBUF - (Len(out[p]) - got[p])
  IN  IF Len(b.bytes) <= room THEN Len(b.bytes) ELSE room

\* copy_pump of buffer b, filled by q, to the other side; then copy_update.
\* A peer that has reset its connection makes send fail, and that ends it.
PumpAndUpdate(q, b) ==
  LET p == Other(q)
      k == Sendable(p, b)
  IN  \/ /\ reset[p]
         /\ s' = [s EXCEPT !.buf[q] = b, !.st = "DONE"]
         /\ UNCHANGED out
      \/ /\ ~reset[p]
         /\ out' = [out EXCEPT ![p] = @ \o SubSeq(b.bytes, 1, k)]
         /\ s' = copy_update([s EXCEPT !.buf[q] = buffer_read_adv(b, k)])

-----------------------------------------------------------------------------
(* The handlers.                                                           *)

\* Mutant: the room left in the buffer is not looked at.
Receivable_IgnoresSpace(p) == Len(inq[p])

Receivable(p) ==
  LET space == WriteSpace(s.buf[p])
  IN  IF Len(inq[p]) <= space THEN Len(inq[p]) ELSE space

\* recv returns bytes: they are counted and forwarded at once.
copy_read_data(p) ==
  /\ s.st = "COPY" /\ "OP_READ" \in s.interest[p]
  /\ inq[p] # <<>>
  /\ LET n == Receivable(p)
     IN  /\ inq' = [inq EXCEPT ![p] = SubSeq(@, n + 1, Len(@))]
         /\ bytes' = [bytes EXCEPT ![p] = @ + n]
         /\ PumpAndUpdate(p, buffer_write_adv(s.buf[p], SubSeq(inq[p], 1, n)))
  /\ UNCHANGED peerVars

\* recv returns 0, or fails: both are taken as the end of what p sends.  What
\* was under way when p reset its connection may never arrive.
copy_read_end(p) ==
  /\ s.st = "COPY" /\ "OP_READ" \in s.interest[p]
  /\ reset[p] \/ (fin[p] /\ inq[p] = <<>>)
  /\ s' = copy_update([s EXCEPT !.eof[p] = TRUE])
  /\ UNCHANGED <<peerVars, inq, out, bytes>>

\* Writable: there is room, or send fails.
copy_write(p) ==
  /\ s.st = "COPY" /\ "OP_WRITE" \in s.interest[p]
  /\ reset[p] \/ Len(out[p]) - got[p] < SNDBUF
  /\ PumpAndUpdate(Other(p), s.buf[Other(p)])
  /\ UNCHANGED <<peerVars, inq, bytes>>

\* The request was answered, so write_buffer is empty; read_buffer may hold
\* what the client sent after its request, behind the bytes of the request.
copy_arrival(left, read) ==
  copy_compute_interests(
    [st |-> "COPY", eof |-> [p \in Side |-> FALSE],
     wr_shut |-> [p \in Side |-> FALSE],
     interest |-> [p \in Side |-> {}],
     buf |-> [p \in Side |->
                IF p = "client" THEN [size |-> io_buffer_size, read |-> read,
                                      bytes |-> left]
                                ELSE buffer_init(io_buffer_size)]])

-----------------------------------------------------------------------------
(* The peers.                                                              *)

PeerSends(p) ==
  /\ ~fin[p] /\ ~reset[p] /\ Len(sent[p]) < MaxSent
  /\ \E b \in Byte : /\ sent' = [sent EXCEPT ![p] = Append(@, b)]
                     /\ inq' = [inq EXCEPT ![p] = Append(@, b)]
  /\ UNCHANGED <<fin, reset, out, got, s, bytes>>

PeerEnds(p) ==
  /\ ~fin[p] /\ ~reset[p]
  /\ fin' = [fin EXCEPT ![p] = TRUE]
  /\ UNCHANGED <<sent, inq, reset, out, got, s, bytes>>

PeerResets(p) ==
  /\ ~reset[p]
  /\ reset' = [reset EXCEPT ![p] = TRUE]
  /\ UNCHANGED <<sent, inq, fin, out, got, s, bytes>>

PeerReads(p) ==
  /\ ~reset[p] /\ got[p] < Len(out[p])
  /\ got' = [got EXCEPT ![p] = @ + 1]
  /\ UNCHANGED <<sent, inq, fin, reset, out, s, bytes>>

-----------------------------------------------------------------------------
RelayInit ==
  \E left \in Pipelined :
    /\ sent = [p \in Side |-> IF p = "client" THEN left ELSE <<>>]
    /\ inq = [p \in Side |-> <<>>]
    /\ fin = [p \in Side |-> FALSE] /\ reset = [p \in Side |-> FALSE]
    /\ out = [p \in Side |-> <<>>] /\ got = [p \in Side |-> 0]
    /\ bytes = [p \in Side |-> 0]
    /\ \E read \in 0 .. io_buffer_size - Len(left) :
         /\ (left = <<>>) <=> (read = 0)
         /\ s = copy_arrival(left, read)

RelayNext ==
  \E p \in Side :
    \/ copy_read_data(p) \/ copy_read_end(p) \/ copy_write(p)
    \/ PeerSends(p) \/ PeerEnds(p) \/ PeerResets(p) \/ PeerReads(p)

RelaySpec == RelayInit /\ [][RelayNext]_relayVars

\* The selector visits every descriptor that is ready.  Of the peers only the
\* client is assumed to keep reading.
RelayFairSpec ==
  /\ RelaySpec
  /\ \A p \in Side : /\ WF_relayVars(copy_read_data(p) \/ copy_read_end(p))
                     /\ WF_relayVars(copy_write(p))
  /\ WF_relayVars(PeerReads("client"))

-----------------------------------------------------------------------------
(* Properties.                                                             *)

\* The relay's state is well formed, the pointers of both buffers in their
\* order (the asserts of src/buffer.c) and the kernel's room respected.
RelayTypeOK ==
  /\ sent \in [Side -> Seq(Byte)] /\ inq \in [Side -> Seq(Byte)]
  /\ fin \in [Side -> BOOLEAN] /\ reset \in [Side -> BOOLEAN]
  /\ out \in [Side -> Seq(Byte)] /\ got \in [Side -> Nat]
  /\ bytes \in [Side -> Nat]
  /\ s \in ConnState
  /\ \A p \in Side : got[p] <= Len(out[p]) /\ Len(out[p]) - got[p] <= SNDBUF

\* No byte is lost, repeated or overtaken on its way through the buffers, the
\* partial writes and the compactions: what went out, what is buffered and
\* what was not received yet are together what the peer wrote.
NothingIsLost ==
  \A p \in Side : out[Other(p)] \o s.buf[p].bytes \o inq[p] = sent[p]

\* The half-close is not forwarded early: once shutdown(SHUT_WR) was called on
\* a side, the other side has ended and every byte of it was handed over,
\* unless that side reset its connection.
EndIsForwardedLast ==
  \A p \in Side : s.wr_shut[Other(p)] /\ ~reset[p] =>
                    fin[p] /\ out[Other(p)] = sent[p]

\* A connection no peer reset is closed only after both peers ended their side
\* and both directions were forwarded to the last byte.
ClosedOnlyWhenBothEnded ==
  s.st = "DONE" /\ (\A p \in Side : ~reset[p]) =>
    \A p \in Side : fin[p] /\ out[Other(p)] = sent[p]

\* Backpressure in one direction does not stall the other: as long as the
\* client reads, every byte of the origin reaches it, although the origin may
\* never read what the client uploads.
OriginIsHeard ==
  \A n \in 1 .. MaxSent :
    (Len(sent["origin"]) >= n)
      ~> (got["client"] >= n \/ \E p \in Side : reset[p])

\* And so does the end of what the origin sends.
OriginEndIsForwarded ==
  fin["origin"] ~> (s.wr_shut["client"] \/ \E p \in Side : reset[p])

Phase(p) ==
  IF \E q \in Side : reset[q] THEN "reset"
  ELSE IF s.wr_shut[Other(p)] THEN "ended"
  ELSE IF fin[p] THEN "closed" ELSE "open"

Upload == INSTANCE ByteStream WITH
  Early <- Pipelined,
  written <- sent["client"], delivered <- out["origin"], phase <- Phase("client")

Download == INSTANCE ByteStream WITH
  Early <- {<<>>},
  written <- sent["origin"], delivered <- out["client"], phase <- Phase("origin")

\* What the client sends is a byte stream to the origin: the origin is handed
\* a growing prefix of it, and is told of its end after all of it.
UploadIsAStream == Upload!StreamSpec

\* And what the origin sends is one to the client.
DownloadIsAStream == Download!StreamSpec

\* Whatever the two directions do to each other, each is a byte stream.
BothAreStreams == UploadIsAStream /\ DownloadIsAStream
=============================================================================
